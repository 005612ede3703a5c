----------------------------- MODULE WsdService -----------------------------
(***************************************************************************)
(* UKB.disambiguate (lgu.commons.nlp, wsd/UKB.java) as the HTTP server of  *)
(* lgu.commons.server runs it: every request is served by a thread of the  *)
(* server's pool, all of them call the one UKB object, and that object     *)
(* keeps the NAME of one temporary file ("tmp.txt").  For each sentence of *)
(* the text a thread writes the sentence's context to the file, starts     *)
(* ukb_wsd on it, waits for the process, reads what it printed and deletes *)
(* the file.  Nothing serialises the threads.                              *)
(*                                                                         *)
(* The file system is modelled as far as the hazard needs it: a directory  *)
(* entry that points to an inode or to nothing, inodes that outlive their  *)
(* entry while a descriptor is open, O_TRUNC on open, a write at offset 0  *)
(* of the descriptor.  The process's standard output is a pipe of bounded  *)
(* capacity that nobody reads while the thread waits for the exit.         *)
(*                                                                         *)
(* A sentence is [n |-> its number of words, ids |-> the identifiers of    *)
(* those that ukb_wsd annotates, in order]: a word that is not in the      *)
(* dictionary leaves no trace in the output.  A token of a context is      *)
(* <<sentence, identifier>>: which sentence it was taken from, and the     *)
(* number after "#w" that ukb_wsd hands back.                              *)
(***************************************************************************)
EXTENDS Naturals, Sequences

CONSTANTS Threads,   \* the worker threads of the HTTP server
          Texts,     \* texts a client sends: sequences of sentences
          MaxSent,   \* bound on the sentences a thread ever processes
          PipeCap,   \* lines that fit in the pipe of a process's output
          NoFile,    \* the directory entry does not exist
          Bad,       \* a token of a context that parse_ctw rejects
          Header     \* the first line ukb_wsd prints, "!! -v ..."

Sentences == Threads \X (1 .. MaxSent)

SentenceShape(s) ==
  /\ s \in [n : Nat, ids : Seq(Nat)]
  /\ \A i \in 1 .. Len(s.ids) : s.ids[i] < s.n

ASSUME ServiceAssumption ==
  /\ MaxSent \in Nat
  /\ PipeCap \in Nat \ {0}
  /\ \A x \in Texts : /\ x \in Seq([n : Nat, ids : Seq(Nat)])
                       /\ \A j \in 1 .. Len(x) : SentenceShape(x[j])
  /\ NoFile \notin Sentences
  /\ Bad \notin Sentences \X Nat
  /\ Header \notin Sentences \X Nat
  /\ Header # Bad

VARIABLES
  pc,      \* where the thread is in disambiguate
  text,    \* the request's text
  k,       \* which sentence of the text is being processed
  done,    \* sentences of the thread's earlier requests (names the sentences)
  dir,     \* the inode that "tmp.txt" names, or NoFile
  data,    \* contents of the inodes
  fd,      \* the inode the thread's FileOutputStream has open
  cpc,     \* where the thread's ukb_wsd process is
  cfd,     \* the inode that process has open
  out,     \* the lines that process prints
  wr,      \* how many of them it has put into the pipe
  rd,      \* how many of them the thread has read
  ann,     \* annotations of the current sentence: <<sentence, identifier>>
  resp,    \* annotations of the sentences processed so far
  skipped, \* sentences given up after an IOException
  failed,  \* the request ends with an unchecked exception
  met      \* <<j, s>>: a thread with sentence s used the file while this one
           \* used it for sentence j of its request

thrVars  == <<pc, text, k, done>>
fileVars == <<dir, data, fd>>
procVars == <<cpc, cfd, out, wr>>
ansVars  == <<rd, ann, resp, skipped, failed, met>>
vars     == <<thrVars, fileVars, procVars, ansVars>>

PCs  == {"idle", "open", "write", "exec", "wait", "read", "delete", "reply"}
CPCs == {"none", "started", "opened", "printing", "exited"}

\* An inode is named after the sentence whose open created it.
Inodes == Sentences

Words    == Sentences \X Nat
Contents == Seq(Words \cup {Bad})

Init ==
  /\ pc   = [t \in Threads |-> "idle"]
  /\ text = [t \in Threads |-> <<>>]
  /\ k    = [t \in Threads |-> 1]
  /\ done = [t \in Threads |-> 0]
  /\ dir  = NoFile
  /\ data = [i \in Inodes |-> <<>>]
  /\ fd   = [t \in Threads |-> NoFile]
  /\ cpc  = [t \in Threads |-> "none"]
  /\ cfd  = [t \in Threads |-> NoFile]
  /\ out  = [t \in Threads |-> <<>>]
  /\ wr   = [t \in Threads |-> 0]
  /\ rd   = [t \in Threads |-> 0]
  /\ ann  = [t \in Threads |-> <<>>]
  /\ resp = [t \in Threads |-> <<>>]
  /\ skipped = [t \in Threads |-> {}]
  /\ failed  = [t \in Threads |-> FALSE]
  /\ met     = [t \in Threads |-> {}]

-----------------------------------------------------------------------------
(* One thread.                                                             *)

Sid(t) == <<t, done[t] + k[t]>>
Sentence(t) == text[t][k[t]]

\* tokenToUKBContext: one token per word with the word's number in the
\* sentence (those that ukb_wsd knows nothing of are left out).
Context(id, s) == [i \in 1 .. Len(s.ids) |-> <<id, s.ids[i]>>]

\* From the open of the file to its deletion the thread uses "tmp.txt".
UsesFile(t) == pc[t] \in {"write", "exec", "wait", "read", "delete"}

Others(t) == {u \in Threads \ {t} : UsesFile(u)}

\* Who meets whom when t opens the file.
Meeting(t) ==
  [u \in Threads |->
     met[u] \cup (IF u = t THEN {<<k[t], Sid(v)>> : v \in Others(t)}
                 ELSE IF u \in Others(t) THEN {<<k[u], Sid(t)>>} ELSE {})]

\* The endpoint calls disambiguate; the text has been split into sentences.
StartRequest(t) ==
  /\ pc[t] = "idle"
  /\ \E x \in Texts :
       /\ done[t] + Len(x) <= MaxSent
       /\ text' = [text EXCEPT ![t] = x]
       /\ pc' = [pc EXCEPT ![t] = IF x = <<>> THEN "reply" ELSE "open"]
  /\ k'    = [k EXCEPT ![t] = 1]
  /\ resp' = [resp EXCEPT ![t] = <<>>]
  /\ skipped' = [skipped EXCEPT ![t] = {}]
  /\ failed'  = [failed EXCEPT ![t] = FALSE]
  /\ met'     = [met EXCEPT ![t] = {}]
  /\ UNCHANGED <<done, fileVars, procVars, rd, ann>>

\* Mutant: the file is opened without truncating it.
OpenTmpKeeps(t) ==
  /\ pc[t] = "open"
  /\ LET i == IF dir = NoFile THEN Sid(t) ELSE dir IN
       /\ dir'  = i
       /\ fd'   = [fd EXCEPT ![t] = i]
  /\ ann' = [ann EXCEPT ![t] = <<>>]
  /\ met' = Meeting(t)
  /\ pc' = [pc EXCEPT ![t] = "write"]
  /\ UNCHANGED <<text, k, done, data, procVars, rd, resp, skipped, failed>>

\* new FileOutputStream(f): create the file, or truncate the one that is there.
OpenTmp(t) ==
  /\ pc[t] = "open"
  /\ LET i == IF dir = NoFile THEN Sid(t) ELSE dir IN
       /\ dir'  = i
       /\ data' = [data EXCEPT ![i] = <<>>]
       /\ fd'   = [fd EXCEPT ![t] = i]
  /\ ann' = [ann EXCEPT ![t] = <<>>]
  /\ met' = Meeting(t)
  /\ pc' = [pc EXCEPT ![t] = "write"]
  /\ UNCHANGED <<text, k, done, procVars, rd, resp, skipped, failed>>

\* What a write of context c at offset 0 leaves of contents old: c, and of a
\* longer old contents the bytes behind it, whose first token may be cut into
\* one that is not a token any more.
Overwritten(c, old) ==
  LET tails == {SubSeq(old, j, Len(old)) : j \in 1 .. Len(old)}
  IN  {c} \cup {c \o x : x \in tails} \cup {c \o <<Bad>> \o x : x \in tails}

\* write, flush and close; the descriptor may be of a deleted file by now.
WriteTmp(t) ==
  /\ pc[t] = "write"
  /\ \E c \in Overwritten(Context(Sid(t), Sentence(t)), data[fd[t]]) :
       data' = [data EXCEPT ![fd[t]] = c]
  /\ fd' = [fd EXCEPT ![t] = NoFile]
  /\ pc' = [pc EXCEPT ![t] = "exec"]
  /\ UNCHANGED <<text, k, done, dir, procVars, ansVars>>

\* Runtime.exec of ukb_wsd on the file's name.
Exec(t) ==
  /\ pc[t] = "exec"
  /\ cpc' = [cpc EXCEPT ![t] = "started"]
  /\ out' = [out EXCEPT ![t] = <<>>]
  /\ wr'  = [wr EXCEPT ![t] = 0]
  /\ rd'  = [rd EXCEPT ![t] = 0]
  /\ pc'  = [pc EXCEPT ![t] = "wait"]
  /\ UNCHANGED <<text, k, done, fileVars, cfd, ann, resp, skipped, failed, met>>

\* The sentence is over with annotations a: take the next one, or answer.
NextSentence(t, a) ==
  /\ resp' = [resp EXCEPT ![t] = Append(@, a)]
  /\ IF k[t] = Len(text[t])
       THEN pc' = [pc EXCEPT ![t] = "reply"] /\ UNCHANGED k
       ELSE pc' = [pc EXCEPT ![t] = "open"] /\ k' = [k EXCEPT ![t] = @ + 1]

\* Mutant: a failure to open the file is swallowed, and ukb_wsd is started.
IOFailureSwallowed(t) ==
  \/ /\ pc[t] = "open"
     /\ pc'  = [pc EXCEPT ![t] = "exec"]
     /\ ann' = [ann EXCEPT ![t] = <<>>]
     /\ met' = Meeting(t)
     /\ UNCHANGED <<text, k, done, fileVars, procVars, rd, resp, skipped, failed>>
  \/ /\ pc[t] = "exec"
     /\ skipped' = [skipped EXCEPT ![t] = @ \cup {k[t]}]
     /\ NextSentence(t, <<>>)
     /\ UNCHANGED <<text, done, fileVars, procVars, rd, ann, failed, met>>

\* An IOException from the open, the write or the exec is caught: the sentence stays
\* unannotated, and the file, if it was opened, is not deleted.
IOFailure(t) ==
  /\ pc[t] \in {"open", "write", "exec"}
  /\ skipped' = [skipped EXCEPT ![t] = @ \cup {k[t]}]
  /\ fd' = [fd EXCEPT ![t] = NoFile]
  /\ NextSentence(t, <<>>)
  /\ UNCHANGED <<text, done, dir, data, procVars, rd, ann, failed, met>>

\* p.waitFor() returns when the process has exited.
WaitFor(t) ==
  /\ pc[t] = "wait"
  /\ cpc[t] = "exited"
  /\ pc' = [pc EXCEPT ![t] = "read"]
  /\ UNCHANGED <<text, k, done, fileVars, procVars, ansVars>>

\* reader.readLine(): the "!!" line is skipped; a word's line is attached to
\* the word its identifier names, and mws.get throws when the sentence has no
\* such word.
ReadLine(t) ==
  /\ pc[t] = "read"
  /\ rd[t] < wr[t]
  /\ rd' = [rd EXCEPT ![t] = @ + 1]
  /\ LET line == out[t][rd[t] + 1] IN
       \/ /\ line = Header
          /\ UNCHANGED <<pc, ann, failed>>
       \/ /\ line # Header
          /\ line[2] < Sentence(t).n
          /\ ann' = [ann EXCEPT ![t] = Append(@, line)]
          /\ UNCHANGED <<pc, failed>>
       \/ /\ line # Header
          /\ ~ (line[2] < Sentence(t).n)
          /\ failed' = [failed EXCEPT ![t] = TRUE]
          /\ pc' = [pc EXCEPT ![t] = "reply"]
          /\ UNCHANGED ann
  /\ UNCHANGED <<text, k, done, fileVars, procVars, resp, skipped, met>>

\* readLine returns null when the process has closed its output, that is
\* exited, and every line is read: the reader is closed.
EndOfOutput(t) ==
  /\ pc[t] = "read"
  /\ cpc[t] = "exited"
  /\ rd[t] = wr[t]
  /\ pc' = [pc EXCEPT ![t] = "delete"]
  /\ UNCHANGED <<text, k, done, fileVars, procVars, ansVars>>

\* FileUtils.deleteFile; its result is ignored.
DeleteTmp(t) ==
  /\ pc[t] = "delete"
  /\ dir' = NoFile
  /\ NextSentence(t, ann[t])
  /\ UNCHANGED <<text, done, data, fd, procVars, rd, ann, skipped, failed, met>>

\* disambiguate returns or throws, and the endpoint answers.
Reply(t) ==
  /\ pc[t] = "reply"
  /\ pc'   = [pc EXCEPT ![t] = "idle"]
  /\ done' = [done EXCEPT ![t] = @ + Len(text[t])]
  /\ text' = [text EXCEPT ![t] = <<>>]
  /\ k'    = [k EXCEPT ![t] = 1]
  /\ ann' = [ann EXCEPT ![t] = <<>>]
  /\ cpc' = [cpc EXCEPT ![t] = "none"]
  /\ out' = [out EXCEPT ![t] = <<>>]
  /\ wr'  = [wr EXCEPT ![t] = 0]
  /\ rd'  = [rd EXCEPT ![t] = 0]
  /\ UNCHANGED <<fileVars, cfd, resp, skipped, failed, met>>

-----------------------------------------------------------------------------
(* The ukb_wsd process of a thread.                                        *)

\* Mutant: a process without its input file waits for it.
ProcOpenWaits(t) ==
  /\ cpc[t] = "started"
  /\ dir # NoFile
  /\ cfd' = [cfd EXCEPT ![t] = dir]
  /\ cpc' = [cpc EXCEPT ![t] = "opened"]
  /\ UNCHANGED <<thrVars, fileVars, out, wr, ansVars>>

\* main opens the input file after it has loaded the graph; without the file
\* it exits before it prints anything.
ProcOpen(t) ==
  /\ cpc[t] = "started"
  /\ cfd' = [cfd EXCEPT ![t] = dir]
  /\ cpc' = [cpc EXCEPT ![t] = IF dir = NoFile THEN "exited" ELSE "opened"]
  /\ UNCHANGED <<thrVars, fileVars, out, wr, ansVars>>

\* dispatch_run: a line per annotated word of the context; a token that does not parse
\* ends the run behind the header (the command line has no --minput).
Printed(c) == IF \E i \in DOMAIN c : c[i] = Bad THEN <<Header>> ELSE <<Header>> \o c

ProcRead(t) ==
  /\ cpc[t] = "opened"
  /\ out' = [out EXCEPT ![t] = Printed(data[cfd[t]])]
  /\ cfd' = [cfd EXCEPT ![t] = NoFile]
  /\ cpc' = [cpc EXCEPT ![t] = "printing"]
  /\ UNCHANGED <<thrVars, fileVars, wr, ansVars>>

\* A write to the pipe blocks while the pipe is full.
ProcWrite(t) ==
  /\ cpc[t] = "printing"
  /\ wr[t] < Len(out[t])
  /\ wr[t] - rd[t] < PipeCap
  /\ wr' = [wr EXCEPT ![t] = @ + 1]
  /\ UNCHANGED <<thrVars, fileVars, cpc, cfd, out, ansVars>>

ProcExit(t) ==
  /\ cpc[t] = "printing"
  /\ wr[t] = Len(out[t])
  /\ cpc' = [cpc EXCEPT ![t] = "exited"]
  /\ UNCHANGED <<thrVars, fileVars, cfd, out, wr, ansVars>>

-----------------------------------------------------------------------------

Thread(t) ==
  \/ OpenTmp(t) \/ WriteTmp(t) \/ Exec(t) \/ WaitFor(t)
  \/ ReadLine(t) \/ EndOfOutput(t) \/ DeleteTmp(t) \/ Reply(t)

Process(t) == ProcOpen(t) \/ ProcRead(t) \/ ProcWrite(t) \/ ProcExit(t)

Next == \E t \in Threads :
          StartRequest(t) \/ IOFailure(t) \/ Thread(t) \/ Process(t)

Spec == Init /\ [][Next]_vars

\* The JVM schedules its threads and the system its processes; clients and
\* I/O errors owe nothing.
Fairness == \A t \in Threads : WF_vars(Thread(t)) /\ WF_vars(Process(t))

FairSpec == Spec /\ Fairness

-----------------------------------------------------------------------------
(* Properties.                                                             *)

\* The type invariant of the variables above.
TypeOK ==
  /\ pc   \in [Threads -> PCs]
  /\ text \in [Threads -> Texts \cup {<<>>}]
  /\ k    \in [Threads -> Nat \ {0}]
  /\ done \in [Threads -> Nat]
  /\ dir  \in Inodes \cup {NoFile}
  /\ data \in [Inodes -> Contents]
  /\ fd   \in [Threads -> Inodes \cup {NoFile}]
  /\ cpc  \in [Threads -> CPCs]
  /\ cfd  \in [Threads -> Inodes \cup {NoFile}]
  /\ out  \in [Threads -> Seq(Words \cup {Header})]
  /\ wr   \in [Threads -> Nat]
  /\ rd   \in [Threads -> Nat]
  /\ ann  \in [Threads -> Seq(Words)]
  /\ resp \in [Threads -> Seq(Seq(Words))]
  /\ skipped \in [Threads -> SUBSET (Nat \ {0})]
  /\ failed  \in [Threads -> BOOLEAN]
  /\ met     \in [Threads -> SUBSET ((Nat \ {0}) \X Sentences)]

\* The annotations a request must get: sentence j of the thread's current
\* text, each of its words once and in order, none of anybody else's.
Expected(t, j) ==
  IF j \in skipped[t] THEN <<>>
  ELSE Context(<<t, done[t] + j>>, text[t][j])

\* A request none of whose sentences shared "tmp.txt" with another thread is
\* answered, without an exception, with exactly its own words' annotations:
\* no left-over of an earlier request, of a failed one or of the file before
\* shows (UKB.disambiguate as the single-threaded tests use it).
AloneIsFaithful ==
  \A t \in Threads :
    pc[t] = "reply" /\ met[t] = {} =>
      /\ ~ failed[t]
      /\ Len(resp[t]) = Len(text[t])
      /\ \A j \in 1 .. Len(text[t]) : resp[t][j] = Expected(t, j)

\* Where annotations come from: those of sentence j of an answer were made
\* for sentence j, or for one whose thread used "tmp.txt" at a time this
\* request used it for sentence j.  What an earlier sentence, a failed
\* write or exec, a deleted file that somebody still has open or a request
\* that is long over left behind is never read, in however crooked an order
\* the threads open, write, delete and fail.
AnnotationsOfMet ==
  \A t \in Threads :
    pc[t] = "reply" =>
      \A j \in 1 .. Len(resp[t]) : \A i \in 1 .. Len(resp[t][j]) :
        LET s == resp[t][j][i][1] IN s = <<t, done[t] + j>> \/ <<j, s>> \in met[t]

\* Word identifiers name words of the sentence they were made from
\* (tokenToUKBContext's "word identifier"): what is read back for an
\* identifier belongs to the sentence in hand.  False of the code.
IdentifiersAreOwn ==
  \A t \in Threads :
    pc[t] \in {"read", "delete"} =>
      \A i \in 1 .. Len(ann[t]) : ann[t][i][1] = Sid(t)

\* A request is answered, unless its process printed more than the pipe
\* holds: nobody reads the pipe before the process has exited.
AnsweredUnlessPipeFull ==
  \A t \in Threads :
    pc[t] # "idle" ~> \/ pc[t] = "idle"
                      \/ cpc[t] = "printing" /\ Len(out[t]) > PipeCap

=============================================================================
