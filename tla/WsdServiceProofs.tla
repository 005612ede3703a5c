-------------------------- MODULE WsdServiceProofs --------------------------
(* Proofs about WsdService, for any number of threads and any texts. *)
EXTENDS WsdService, SequenceTheorems, TLAPS

\* The sentence in hand exists, and so does its name.
InSentence(t) == pc[t] \in {"open", "write", "exec", "wait", "read", "delete"}

ShapeOf(t) ==
  /\ done[t] + Len(text[t]) <= MaxSent
  /\ InSentence(t) => k[t] <= Len(text[t])
  /\ pc[t] = "write" => fd[t] # NoFile
  /\ cpc[t] = "opened" => cfd[t] # NoFile
  /\ cpc[t] \in {"started", "opened", "printing"} => pc[t] = "wait"
  /\ cpc[t] \in {"started", "opened"} => wr[t] = 0
  /\ rd[t] <= wr[t]
  /\ wr[t] <= Len(out[t])

Shape == \A t \in Threads : ShapeOf(t)

\* The context of the sentence in hand.
Own(t) == Context(Sid(t), Sentence(t))

\* What a thread that has met nobody in this request knows: about the file ...
FileIsOwn(t) ==
  /\ UsesFile(t) => Others(t) = {}
  /\ pc[t] = "write" => dir # NoFile /\ fd[t] = dir /\ data[dir] = <<>>
  /\ pc[t] \in {"exec", "wait", "read", "delete"} =>
       dir # NoFile /\ data[dir] = Own(t)

\* ... about its process ...
ProcessIsOwn(t) ==
  /\ pc[t] = "wait" => cpc[t] # "none" /\ rd[t] = 0
  /\ pc[t] = "read" => cpc[t] = "exited"
  /\ pc[t] = "wait" /\ cpc[t] = "opened" => cfd[t] = dir
  /\ pc[t] \in {"wait", "read"} /\ cpc[t] \in {"printing", "exited"} =>
       out[t] = <<Header>> \o Own(t)
  /\ pc[t] \in {"wait", "read"} /\ cpc[t] = "exited" => wr[t] = Len(out[t])

\* ... and about the annotations.
AnnotationsAreOwn(t) ==
  /\ ~ failed[t]
  /\ pc[t] \in {"write", "exec", "wait"} => ann[t] = <<>>
  /\ pc[t] = "read" => /\ Len(ann[t]) = IF rd[t] = 0 THEN 0 ELSE rd[t] - 1
                       /\ \A i \in 1 .. Len(ann[t]) : ann[t][i] = Own(t)[i]
  /\ pc[t] = "delete" => ann[t] = Own(t)
  /\ InSentence(t) => Len(resp[t]) = k[t] - 1 /\ skipped[t] \subseteq 1 .. k[t] - 1
  /\ pc[t] = "reply" => Len(resp[t]) = Len(text[t])
  /\ pc[t] # "idle" =>
       \A j \in 1 .. Len(resp[t]) : resp[t][j] = Expected(t, j)

Alone(t) == FileIsOwn(t) /\ ProcessIsOwn(t) /\ AnnotationsAreOwn(t)

IInv == TypeOK /\ Shape /\ \A t \in Threads : met[t] = {} => Alone(t)

-----------------------------------------------------------------------------
(* Typing. *)

\* Texts and their sentences have the shapes the assumption gives them.
LEMMA TextShape ==
  ASSUME TypeOK, Shape, NEW t \in Threads
  PROVE  /\ text[t] \in Seq([n : Nat, ids : Seq(Nat)])
         /\ Len(text[t]) \in Nat
         /\ InSentence(t) => /\ k[t] \in 1 .. Len(text[t])
                            /\ SentenceShape(Sentence(t))
                            /\ Sid(t) \in Sentences
  <1>1. text[t] \in Seq([n : Nat, ids : Seq(Nat)])
    <2>1. text[t] \in Texts \cup {<<>>}
      BY DEF TypeOK
    <2>2. CASE text[t] \in Texts
      BY <2>2, ServiceAssumption, Zenon
    <2>3. CASE text[t] = <<>>
      BY <2>3
    <2>4. QED
      BY <2>1, <2>2, <2>3
  <1>2. Len(text[t]) \in Nat
    BY <1>1
  <1>3. ASSUME InSentence(t)
        PROVE  /\ k[t] \in 1 .. Len(text[t])
               /\ SentenceShape(Sentence(t))
               /\ Sid(t) \in Sentences
    <2>1. k[t] \in Nat \ {0} /\ done[t] \in Nat /\ MaxSent \in Nat
      BY ServiceAssumption DEF TypeOK
    <2>2. k[t] \in 1 .. Len(text[t])
      BY <1>2, <1>3, <2>1 DEF Shape, ShapeOf
    <2>3. text[t] \in Texts
      BY <2>2 DEF TypeOK
    <2>4. SentenceShape(text[t][k[t]])
      BY <2>2, <2>3, ServiceAssumption
    <2>5. done[t] + k[t] \in 1 .. MaxSent
      BY <1>2, <1>3, <2>1, <2>2 DEF Shape, ShapeOf
    <2>6. QED
      BY <2>2, <2>4, <2>5 DEF Sentence, Sid, Sentences
  <1>4. QED
    BY <1>1, <1>2, <1>3

\* What the shape of a sentence says.
LEMMA ShapeFacts ==
  ASSUME NEW s, SentenceShape(s)
  PROVE  Len(s.ids) \in Nat /\ \A i \in 1 .. Len(s.ids) : s.ids[i] < s.n
  BY DEF SentenceShape

\* A context is a sequence of words.
LEMMA ContextType ==
  ASSUME NEW id \in Sentences, NEW s, SentenceShape(s)
  PROVE  /\ Context(id, s) \in Seq(Words)
         /\ Len(Context(id, s)) = Len(s.ids)
         /\ \A i \in 1 .. Len(s.ids) : /\ Context(id, s)[i] = <<id, s.ids[i]>>
                                       /\ Context(id, s)[i] # Bad
                                       /\ Context(id, s)[i] # Header
  <1>1. Len(s.ids) \in Nat /\ \A i \in 1 .. Len(s.ids) : s.ids[i] \in Nat
    BY DEF SentenceShape
  <1>2. \A i \in 1 .. Len(s.ids) : <<id, s.ids[i]>> \in Words
    BY <1>1 DEF Words
  <1>3. \A i \in 1 .. Len(s.ids) : <<id, s.ids[i]>> # Bad /\ <<id, s.ids[i]>> # Header
    BY <1>2, ServiceAssumption DEF Words
  <1>4. QED
    BY <1>1, <1>2, <1>3 DEF Context

\* So are the contents a write can leave behind, with Bad tokens among them.
LEMMA OverwrittenType ==
  ASSUME NEW c \in Seq(Words), NEW old \in Contents, NEW r \in Overwritten(c, old)
  PROVE  r \in Contents
  <1>1. c \in Contents
    BY DEF Contents
  <1>2. CASE r = c
    BY <1>1, <1>2
  <1>3. ASSUME NEW j \in 1 .. Len(old), NEW x, x = SubSeq(old, j, Len(old))
        PROVE  c \o x \in Contents /\ c \o <<Bad>> \o x \in Contents
    <2>1. <<Bad>> \in Contents
      BY DEF Contents
    <2>2. SubSeq(old, j, Len(old)) \in Contents
      BY SubSeqProperties DEF Contents
    <2>3. c \o <<Bad>> \in Contents
      BY <1>1, <2>1, ConcatProperties DEF Contents
    <2>4. QED
      BY <1>1, <1>3, <2>2, <2>3, ConcatProperties DEF Contents
  <1>4. QED
    BY <1>2, <1>3 DEF Overwritten

\* The lines that a process prints for a context.
LEMMA PrintedType ==
  ASSUME NEW c \in Contents
  PROVE  Printed(c) \in Seq(Words \cup {Header})
  <1>h. <<Header>> \in Seq(Words \cup {Header})
    OBVIOUS
  <1>1. CASE \E i \in DOMAIN c : c[i] = Bad
    BY <1>1, <1>h DEF Printed
  <1>2. CASE ~ \E i \in DOMAIN c : c[i] = Bad
    <2>1. \A i \in 1 .. Len(c) : c[i] \in Words \cup {Header}
      BY <1>2 DEF Contents
    <2>2. c \in Seq(Words \cup {Header})
      BY <2>1 DEF Contents
    <2>3. QED
      BY <1>2, <1>h, <2>2, ConcatProperties DEF Printed
  <1>3. QED
    BY <1>1, <1>2

\* Meeting only adds sentences, and only for those who meet.
LEMMA MeetingType ==
  ASSUME TypeOK, Shape, NEW t \in Threads, InSentence(t), met' = Meeting(t)
  PROVE  /\ met' \in [Threads -> SUBSET ((Nat \ {0}) \X Sentences)]
         /\ \A u \in Threads : met[u] \subseteq met'[u]
         /\ \A v \in Others(t) : <<k[t], Sid(v)>> \in met'[t]
         /\ \A u \in Others(t) : <<k[u], Sid(t)>> \in met'[u]
  <1>1. /\ \A u \in Threads : k[u] \in Nat \ {0}
        /\ met \in [Threads -> SUBSET ((Nat \ {0}) \X Sentences)]
    BY DEF TypeOK
  <1>2. Sid(t) \in Sentences /\ \A v \in Others(t) : v \in Threads \ {t} /\ Sid(v) \in Sentences
    BY TextShape DEF Others, UsesFile, InSentence
  <1>3. ASSUME NEW u \in Threads
        PROVE  /\ met'[u] \in SUBSET ((Nat \ {0}) \X Sentences)
               /\ met[u] \subseteq met'[u]
    BY <1>1, <1>2 DEF Meeting
  <1>4. QED
    BY <1>1, <1>2, <1>3 DEF Meeting

\* A meeting is forgotten only when the thread starts its next request.
LEMMA MetGrows ==
  ASSUME TypeOK, Shape, NEW t \in Threads, NEW u \in Threads,
         \/ u # t /\ StartRequest(t)
         \/ IOFailure(t) \/ Thread(t) \/ Process(t)
  PROVE  met[u] \subseteq met'[u]
  <1>1. CASE OpenTmp(t)
    <2>1. InSentence(t) /\ met' = Meeting(t)
      BY <1>1 DEF OpenTmp, InSentence
    <2>2. QED
      BY <2>1, MeetingType
  <1>2. CASE u # t /\ StartRequest(t)
    BY <1>2 DEF StartRequest, TypeOK
  <1>3. CASE \/ IOFailure(t) \/ WriteTmp(t) \/ Exec(t) \/ WaitFor(t) \/ ReadLine(t)
             \/ EndOfOutput(t) \/ DeleteTmp(t) \/ Reply(t) \/ Process(t)
    <2>1. met' = met
      BY <1>3 DEF IOFailure, WriteTmp, Exec, WaitFor, ReadLine, EndOfOutput, DeleteTmp, Reply,
         Process, ProcOpen, ProcRead, ProcWrite, ProcExit, ansVars
    <2>2. QED
      BY <2>1
  <1>4. QED
    BY <1>1, <1>2, <1>3 DEF Thread

\* What NextSentence leaves of the thread's own variables.
LEMMA NextSentenceType ==
  ASSUME TypeOK, NEW t \in Threads, NEW a \in Seq(Words), NextSentence(t, a),
         k[t] \in 1 .. Len(text[t]), Len(text[t]) \in Nat
  PROVE  /\ pc' \in [Threads -> PCs]
         /\ k' \in [Threads -> Nat \ {0}]
         /\ resp' \in [Threads -> Seq(Seq(Words))]
         /\ pc'[t] \in {"open", "reply"}
         /\ pc'[t] = "open" => k'[t] = k[t] + 1 /\ k[t] < Len(text[t])
         /\ pc'[t] = "reply" => k'[t] = k[t] /\ k[t] = Len(text[t])
         /\ \A u \in Threads \ {t} : pc'[u] = pc[u] /\ k'[u] = k[u] /\ resp'[u] = resp[u]
         /\ resp'[t] = Append(resp[t], a)
  <1>1. resp[t] \in Seq(Seq(Words))
    BY DEF TypeOK
  <1>2. Append(resp[t], a) \in Seq(Seq(Words))
    BY <1>1, AppendProperties
  <1>3. /\ resp' \in [Threads -> Seq(Seq(Words))]
        /\ resp'[t] = Append(resp[t], a)
        /\ \A u \in Threads \ {t} : resp'[u] = resp[u]
    BY <1>2 DEF NextSentence, TypeOK
  <1>4. CASE k[t] = Len(text[t])
    <2>1. pc' = [pc EXCEPT ![t] = "reply"] /\ k' = k
      BY <1>4 DEF NextSentence
    <2>2. QED
      BY <1>3, <1>4, <2>1 DEF TypeOK, PCs
  <1>5. CASE k[t] # Len(text[t])
    <2>1. pc' = [pc EXCEPT ![t] = "open"] /\ k' = [k EXCEPT ![t] = @ + 1]
      BY <1>5 DEF NextSentence
    <2>2. k[t] < Len(text[t])
      BY <1>5
    <2>3. pc' \in [Threads -> PCs] /\ k' \in [Threads -> Nat \ {0}]
      BY <2>1 DEF TypeOK, PCs
    <2>4. QED
      BY <1>3, <2>1, <2>2, <2>3 DEF TypeOK
  <1>6. QED
    BY <1>4, <1>5

\* Every step preserves the types and the shape.
LEMMA TypeStep ==
  ASSUME TypeOK, Shape, [Next]_vars
  PROVE  TypeOK' /\ Shape'
  <1> USE ServiceAssumption
  <1>t. ASSUME NEW t \in Threads
        PROVE  /\ Len(text[t]) \in Nat /\ Len(out[t]) \in Nat
               /\ InSentence(t) => /\ k[t] \in 1 .. Len(text[t])
                                  /\ SentenceShape(Sentence(t))
                                  /\ Sid(t) \in Sentences
    <2>1. Len(out[t]) \in Nat
      BY LenProperties DEF TypeOK
    <2>2. QED
      BY <2>1, TextShape
  <1>1. ASSUME NEW t \in Threads, StartRequest(t) PROVE TypeOK' /\ Shape'
    <2>1. pc' \in [Threads -> PCs]
      BY <1>t, <1>1 DEF StartRequest, TypeOK, PCs
    <2>2. text' \in [Threads -> Texts \cup {<<>>}]
      BY <1>t, <1>1 DEF StartRequest, TypeOK
    <2>3. k' \in [Threads -> Nat \ {0}]
      BY <1>t, <1>1 DEF StartRequest, TypeOK
    <2>4. resp' \in [Threads -> Seq(Seq(Words))]
      BY <1>t, <1>1 DEF StartRequest, TypeOK
    <2>5. skipped' \in [Threads -> SUBSET (Nat \ {0})]
      BY <1>t, <1>1 DEF StartRequest, TypeOK
    <2>6. failed' \in [Threads -> BOOLEAN]
      BY <1>t, <1>1 DEF StartRequest, TypeOK
    <2>7. met' \in [Threads -> SUBSET ((Nat \ {0}) \X Sentences)]
      BY <1>1 DEF StartRequest, TypeOK
    <2>8. TypeOK'
      BY <1>1, <2>1, <2>2, <2>3, <2>4, <2>5, <2>6, <2>7 DEF StartRequest, TypeOK, thrVars, fileVars, procVars, ansVars
    <2>9. ASSUME NEW u \in Threads PROVE ShapeOf(u)'
      <3>1. ShapeOf(u) /\ ShapeOf(t)
        BY DEF Shape
      <3>2. QED
        BY <1>t, <1>1, <3>1 DEF StartRequest, TypeOK, ShapeOf, InSentence, thrVars, fileVars, procVars, ansVars
    <2>10. QED
      BY <2>8, <2>9 DEF Shape
  <1>2. ASSUME NEW t \in Threads, OpenTmp(t) PROVE TypeOK' /\ Shape'
    <2>1. pc' \in [Threads -> PCs]
      BY <1>t, <1>2 DEF OpenTmp, TypeOK, PCs
    <2>2. dir' \in Inodes \cup {NoFile}
      BY <1>t, <1>2 DEF OpenTmp, TypeOK, Inodes, InSentence
    <2>3. data' \in [Inodes -> Contents]
      BY <1>2, <1>t, EmptySeq DEF OpenTmp, TypeOK, Inodes, InSentence, Contents
    <2>4. fd' \in [Threads -> Inodes \cup {NoFile}]
      BY <1>t, <1>2 DEF OpenTmp, TypeOK, Inodes, InSentence
    <2>5. ann' \in [Threads -> Seq(Words)]
      BY <1>t, <1>2 DEF OpenTmp, TypeOK
    <2>6. met' \in [Threads -> SUBSET ((Nat \ {0}) \X Sentences)]
      BY <1>t, <1>2, MeetingType DEF OpenTmp, InSentence
    <2>7. TypeOK'
      BY <1>2, <2>1, <2>2, <2>3, <2>4, <2>5, <2>6 DEF OpenTmp, TypeOK, thrVars, fileVars, procVars, ansVars
    <2>8. ASSUME NEW u \in Threads PROVE ShapeOf(u)'
      <3>1. ShapeOf(u) /\ ShapeOf(t)
        BY DEF Shape
      <3>2. QED
        BY <1>t, <1>2, <3>1 DEF OpenTmp, TypeOK, ShapeOf, InSentence, thrVars, fileVars, procVars, ansVars
    <2>9. QED
      BY <2>7, <2>8 DEF Shape
  <1>3. ASSUME NEW t \in Threads, WriteTmp(t) PROVE TypeOK' /\ Shape'
    <2>1. fd[t] \in Inodes /\ data[fd[t]] \in Contents
      <3>1. fd[t] # NoFile
        BY <1>3 DEF WriteTmp, Shape, ShapeOf
      <3>2. QED
        BY <3>1 DEF TypeOK
    <2>2. PICK c \in Overwritten(Context(Sid(t), Sentence(t)), data[fd[t]]) :
            data' = [data EXCEPT ![fd[t]] = c]
      BY <1>3 DEF WriteTmp
    <2>3. Context(Sid(t), Sentence(t)) \in Seq(Words)
      BY <1>t, <1>3, ContextType DEF WriteTmp, InSentence
    <2>4. c \in Contents
      BY <2>1, <2>3, OverwrittenType
    <2>5. data' \in [Inodes -> Contents]
      BY <2>2, <2>4 DEF TypeOK
    <2>6. /\ pc' \in [Threads -> PCs]
          /\ fd' \in [Threads -> Inodes \cup {NoFile}]
      BY <1>3 DEF WriteTmp, TypeOK, PCs
    <2>7. TypeOK'
      BY <1>3, <2>5, <2>6 DEF WriteTmp, TypeOK, thrVars, fileVars, procVars, ansVars
    <2>8. ASSUME NEW u \in Threads PROVE ShapeOf(u)'
      <3>1. ShapeOf(u)
        BY DEF Shape
      <3>2. QED
        BY <1>3, <3>1 DEF WriteTmp, TypeOK, ShapeOf, InSentence, thrVars, fileVars, procVars, ansVars
    <2>9. QED
      BY <2>7, <2>8 DEF Shape
  <1>4. ASSUME NEW t \in Threads, Exec(t) PROVE TypeOK' /\ Shape'
    <2>1. pc' \in [Threads -> PCs]
      BY <1>t, <1>4 DEF Exec, TypeOK, PCs
    <2>2. cpc' \in [Threads -> CPCs]
      BY <1>t, <1>4 DEF Exec, TypeOK, CPCs
    <2>3. out' \in [Threads -> Seq(Words \cup {Header})]
      BY <1>t, <1>4 DEF Exec, TypeOK
    <2>4. wr' \in [Threads -> Nat]
      BY <1>t, <1>4 DEF Exec, TypeOK
    <2>5. rd' \in [Threads -> Nat]
      BY <1>t, <1>4 DEF Exec, TypeOK
    <2>6. TypeOK'
      BY <1>4, <2>1, <2>2, <2>3, <2>4, <2>5 DEF Exec, TypeOK, thrVars, fileVars, procVars, ansVars
    <2>7. ASSUME NEW u \in Threads PROVE ShapeOf(u)'
      <3>1. ShapeOf(u) /\ ShapeOf(t)
        BY DEF Shape
      <3>2. QED
        BY <1>t, <1>4, <3>1 DEF Exec, TypeOK, ShapeOf, InSentence, thrVars, fileVars, procVars, ansVars
    <2>8. QED
      BY <2>6, <2>7 DEF Shape
  <1>5. ASSUME NEW t \in Threads, IOFailure(t) PROVE TypeOK' /\ Shape'
    <2>1. InSentence(t) /\ NextSentence(t, <<>>) /\ <<>> \in Seq(Words)
      BY <1>5, EmptySeq DEF IOFailure, InSentence
    <2>2. /\ pc' \in [Threads -> PCs]
          /\ k' \in [Threads -> Nat \ {0}]
          /\ resp' \in [Threads -> Seq(Seq(Words))]
          /\ pc'[t] \in {"open", "reply"}
          /\ pc'[t] = "open" => k'[t] = k[t] + 1 /\ k[t] < Len(text[t])
          /\ \A u \in Threads \ {t} : pc'[u] = pc[u] /\ k'[u] = k[u]
      BY <1>t, <2>1, NextSentenceType
    <2>3. /\ fd' \in [Threads -> Inodes \cup {NoFile}]
          /\ skipped' \in [Threads -> SUBSET (Nat \ {0})]
      BY <1>5 DEF IOFailure, TypeOK
    <2>4. TypeOK'
      BY <1>5, <2>2, <2>3 DEF IOFailure, TypeOK, procVars
    <2>5. ASSUME NEW u \in Threads PROVE ShapeOf(u)'
      <3>1. ShapeOf(u) /\ k[u] \in Nat /\ (Len(text[u]) \in Nat)
        BY <1>t DEF Shape, TypeOK
      <3>2. CASE u = t
        <4>1. pc[t] \in {"open", "write", "exec"} /\ fd'[t] = NoFile
          BY <1>5 DEF IOFailure, TypeOK
        <4>2. cpc[t] \notin {"started", "opened", "printing"}
          BY <3>1, <3>2, <4>1 DEF ShapeOf
        <4>3. QED
          BY <1>5, <2>2, <3>1, <3>2, <4>1, <4>2 DEF IOFailure, ShapeOf, InSentence, procVars
      <3>3. CASE u # t
        <4>1. fd'[u] = fd[u]
          BY <1>5, <3>3 DEF IOFailure, TypeOK
        <4>2. QED
          BY <1>5, <2>2, <3>1, <3>3, <4>1 DEF IOFailure, ShapeOf, InSentence, procVars
      <3>4. QED
        BY <3>2, <3>3
    <2>6. QED
      BY <2>4, <2>5 DEF Shape
  <1>6. ASSUME NEW t \in Threads, WaitFor(t) PROVE TypeOK' /\ Shape'
    <2>1. pc' \in [Threads -> PCs]
      BY <1>t, <1>6 DEF WaitFor, TypeOK, PCs
    <2>2. TypeOK'
      BY <1>6, <2>1 DEF WaitFor, TypeOK, thrVars, fileVars, procVars, ansVars
    <2>3. ASSUME NEW u \in Threads PROVE ShapeOf(u)'
      <3>1. ShapeOf(u) /\ ShapeOf(t)
        BY DEF Shape
      <3>2. QED
        BY <1>t, <1>6, <3>1 DEF WaitFor, TypeOK, ShapeOf, InSentence, thrVars, fileVars, procVars, ansVars
    <2>4. QED
      BY <2>2, <2>3 DEF Shape
  <1>7. ASSUME NEW t \in Threads, ReadLine(t) PROVE TypeOK' /\ Shape'
    <2> DEFINE line == out[t][rd[t] + 1]
    <2>1. rd' \in [Threads -> Nat] /\ failed' \in [Threads -> BOOLEAN] /\ pc' \in [Threads -> PCs]
      <3>1. pc' = pc \/ pc' = [pc EXCEPT ![t] = "reply"]
        BY <1>7 DEF ReadLine
      <3>2. failed' = failed \/ failed' = [failed EXCEPT ![t] = TRUE]
        BY <1>7 DEF ReadLine
      <3>3. rd' = [rd EXCEPT ![t] = @ + 1]
        BY <1>7 DEF ReadLine
      <3>4. pc' \in [Threads -> PCs]
        BY <3>1 DEF TypeOK, PCs
      <3>5. rd' \in [Threads -> Nat]
        <4>1. rd \in [Threads -> Nat]
          BY DEF TypeOK
        <4>2. QED
          BY <3>3, <4>1
      <3>6. failed' \in [Threads -> BOOLEAN]
        BY <3>2 DEF TypeOK
      <3>7. QED
        BY <3>4, <3>5, <3>6
    <2>2. line \in Words \cup {Header}
      <3>1. rd[t] + 1 \in 1 .. Len(out[t]) /\ out[t] \in Seq(Words \cup {Header})
        <4>1. rd[t] < wr[t] /\ wr[t] <= Len(out[t])
          BY <1>7 DEF ReadLine, Shape, ShapeOf
        <4>2. rd[t] \in Nat /\ wr[t] \in Nat /\ Len(out[t]) \in Nat
          BY <1>t DEF TypeOK
        <4>3. rd[t] + 1 \in 1 .. Len(out[t])
          BY <4>1, <4>2
        <4>4. QED
          BY <4>3 DEF TypeOK
      <3>2. QED
        BY <3>1, ElementOfSeq
    <2>3. ann' \in [Threads -> Seq(Words)]
      <3>1. CASE ann' = ann
        BY <3>1 DEF TypeOK
      <3>2. CASE line # Header /\ ann' = [ann EXCEPT ![t] = Append(@, line)]
        <4>1. Append(ann[t], line) \in Seq(Words)
          BY <2>2, <3>2, AppendProperties DEF TypeOK
        <4>2. QED
          BY <3>2, <4>1 DEF TypeOK
      <3>3. QED
        BY <1>7, <3>1, <3>2 DEF ReadLine
    <2>4. TypeOK'
      BY <1>7, <2>1, <2>3 DEF ReadLine, TypeOK, thrVars, fileVars, procVars
    <2>5. pc' = pc \/ pc' = [pc EXCEPT ![t] = "reply"]
      BY <1>7 DEF ReadLine
    <2>6. /\ rd' = [rd EXCEPT ![t] = @ + 1]
          /\ rd[t] < wr[t]
          /\ pc[t] = "read"
          /\ UNCHANGED <<text, k, done, fd, cpc, cfd, out, wr>>
      BY <1>7 DEF ReadLine, fileVars, procVars
    <2>7. ASSUME NEW u \in Threads PROVE ShapeOf(u)'
      <3>1. ShapeOf(u) /\ rd[u] \in Nat /\ wr[u] \in Nat
        BY DEF Shape, TypeOK
      <3>2. rd'[u] <= wr[u]
        BY <2>6, <3>1 DEF TypeOK, ShapeOf
      <3>3. InSentence(u)' => InSentence(u)
        BY <2>5, <2>6 DEF TypeOK, InSentence
      <3>4. /\ pc'[u] = "write" => pc[u] = "write"
            /\ cpc[u] \in {"started", "opened", "printing"} => pc'[u] = "wait"
        BY <2>5, <2>6, <3>1 DEF TypeOK, ShapeOf
      <3>5. QED
        BY <2>6, <3>1, <3>2, <3>3, <3>4 DEF ShapeOf, InSentence
    <2>8. QED
      BY <2>4, <2>7 DEF Shape
  <1>8. ASSUME NEW t \in Threads, EndOfOutput(t) PROVE TypeOK' /\ Shape'
    <2>1. pc' \in [Threads -> PCs]
      BY <1>t, <1>8 DEF EndOfOutput, TypeOK, PCs
    <2>2. TypeOK'
      BY <1>8, <2>1 DEF EndOfOutput, TypeOK, thrVars, fileVars, procVars, ansVars
    <2>3. ASSUME NEW u \in Threads PROVE ShapeOf(u)'
      <3>1. ShapeOf(u) /\ ShapeOf(t)
        BY DEF Shape
      <3>2. QED
        BY <1>t, <1>8, <3>1 DEF EndOfOutput, TypeOK, ShapeOf, InSentence, thrVars, fileVars, procVars, ansVars
    <2>4. QED
      BY <2>2, <2>3 DEF Shape
  <1>9. ASSUME NEW t \in Threads, DeleteTmp(t) PROVE TypeOK' /\ Shape'
    <2>1. InSentence(t) /\ NextSentence(t, ann[t]) /\ ann[t] \in Seq(Words)
      BY <1>9 DEF DeleteTmp, InSentence, TypeOK
    <2>2. /\ pc' \in [Threads -> PCs]
          /\ k' \in [Threads -> Nat \ {0}]
          /\ resp' \in [Threads -> Seq(Seq(Words))]
          /\ pc'[t] \in {"open", "reply"}
          /\ pc'[t] = "open" => k'[t] = k[t] + 1 /\ k[t] < Len(text[t])
          /\ \A u \in Threads \ {t} : pc'[u] = pc[u] /\ k'[u] = k[u]
      BY <1>t, <2>1, NextSentenceType
    <2>3. dir' \in Inodes \cup {NoFile}
      BY <1>9 DEF DeleteTmp
    <2>4. TypeOK'
      BY <1>9, <2>2, <2>3 DEF DeleteTmp, TypeOK, procVars
    <2>5. ASSUME NEW u \in Threads PROVE ShapeOf(u)'
      <3>1. ShapeOf(u) /\ k[u] \in Nat /\ (Len(text[u]) \in Nat)
        BY <1>t DEF Shape, TypeOK
      <3>2. CASE u = t
        <4>1. cpc[t] \notin {"started", "opened", "printing"}
          BY <1>9, <3>1, <3>2 DEF DeleteTmp, ShapeOf
        <4>2. QED
          BY <1>9, <2>2, <3>1, <3>2, <4>1 DEF DeleteTmp, ShapeOf, InSentence, procVars
      <3>3. CASE u # t
        BY <1>9, <2>2, <3>1, <3>3 DEF DeleteTmp, ShapeOf, InSentence, procVars
      <3>4. QED
        BY <3>2, <3>3
    <2>6. QED
      BY <2>4, <2>5 DEF Shape
  <1>10. ASSUME NEW t \in Threads, Reply(t) PROVE TypeOK' /\ Shape'
    <2>1. pc' \in [Threads -> PCs]
      BY <1>t, <1>10 DEF Reply, TypeOK, PCs
    <2>2. done' \in [Threads -> Nat]
      BY <1>t, <1>10 DEF Reply, TypeOK
    <2>3. text' \in [Threads -> Texts \cup {<<>>}]
      BY <1>t, <1>10 DEF Reply, TypeOK
    <2>4. k' \in [Threads -> Nat \ {0}]
      BY <1>t, <1>10 DEF Reply, TypeOK
    <2>5. ann' \in [Threads -> Seq(Words)]
      BY <1>t, <1>10 DEF Reply, TypeOK
    <2>6. cpc' \in [Threads -> CPCs]
      BY <1>t, <1>10 DEF Reply, TypeOK, CPCs
    <2>7. out' \in [Threads -> Seq(Words \cup {Header})]
      <3>1. out' = [out EXCEPT ![t] = <<>>]
        BY <1>10 DEF Reply
      <3>2. out \in [Threads -> Seq(Words \cup {Header})]
        BY DEF TypeOK
      <3>3. <<>> \in Seq(Words \cup {Header})
        BY EmptySeq
      <3>4. QED
        BY <3>1, <3>2, <3>3
    <2>8. wr' \in [Threads -> Nat]
      BY <1>t, <1>10 DEF Reply, TypeOK
    <2>9. rd' \in [Threads -> Nat]
      BY <1>t, <1>10 DEF Reply, TypeOK
    <2>10. TypeOK'
      BY <1>10, <2>1, <2>2, <2>3, <2>4, <2>5, <2>6, <2>7, <2>8, <2>9 DEF Reply, TypeOK, thrVars, fileVars, procVars, ansVars
    <2>11. ASSUME NEW u \in Threads PROVE ShapeOf(u)'
      <3>1. ShapeOf(u) /\ ShapeOf(t)
        BY DEF Shape
      <3>2. QED
        BY <1>t, <1>10, <3>1 DEF Reply, TypeOK, ShapeOf, InSentence, thrVars, fileVars, procVars, ansVars
    <2>12. QED
      BY <2>10, <2>11 DEF Shape
  <1>11. ASSUME NEW t \in Threads, ProcOpen(t) PROVE TypeOK' /\ Shape'
    <2>1. cpc' \in [Threads -> CPCs]
      BY <1>t, <1>11 DEF ProcOpen, TypeOK, CPCs
    <2>2. cfd' \in [Threads -> Inodes \cup {NoFile}]
      BY <1>t, <1>11 DEF ProcOpen, TypeOK
    <2>3. TypeOK'
      BY <1>11, <2>1, <2>2 DEF ProcOpen, TypeOK, thrVars, fileVars, procVars, ansVars
    <2>4. ASSUME NEW u \in Threads PROVE ShapeOf(u)'
      <3>1. ShapeOf(u) /\ ShapeOf(t)
        BY DEF Shape
      <3>2. QED
        BY <1>t, <1>11, <3>1 DEF ProcOpen, TypeOK, ShapeOf, InSentence, thrVars, fileVars, procVars, ansVars
    <2>5. QED
      BY <2>3, <2>4 DEF Shape
  <1>12. ASSUME NEW t \in Threads, ProcRead(t) PROVE TypeOK' /\ Shape'
    <2>1. ShapeOf(t) /\ cfd[t] # NoFile /\ wr[t] = 0
      BY <1>12 DEF ProcRead, Shape, ShapeOf
    <2>2. data[cfd[t]] \in Contents
      BY <2>1 DEF TypeOK
    <2>3. Printed(data[cfd[t]]) \in Seq(Words \cup {Header})
      BY <2>2, PrintedType
    <2>4. out' \in [Threads -> Seq(Words \cup {Header})] /\ (Len(out'[t]) \in Nat)
      <3>1. out' \in [Threads -> Seq(Words \cup {Header})]
        BY <1>12, <2>3 DEF ProcRead, TypeOK
      <3>2. QED
        BY <3>1, LenProperties
    <2>5. cpc' \in [Threads -> CPCs] /\ cfd' \in [Threads -> Inodes \cup {NoFile}]
      BY <1>12 DEF ProcRead, TypeOK, CPCs
    <2>6. TypeOK'
      BY <1>12, <2>4, <2>5 DEF ProcRead, TypeOK, thrVars, fileVars, ansVars
    <2>7. ASSUME NEW u \in Threads PROVE ShapeOf(u)'
      <3>1. ShapeOf(u)
        BY DEF Shape
      <3>2. CASE u = t
        <4>1. cpc'[t] = "printing" /\ pc'[t] = "wait" /\ cpc[t] = "opened"
          BY <1>12, <2>1 DEF ProcRead, TypeOK, thrVars, ShapeOf
        <4>2. QED
          BY <1>12, <2>1, <2>4, <3>2, <4>1 DEF ProcRead, ShapeOf, InSentence, thrVars, fileVars, ansVars
      <3>3. CASE u # t
        <4>1. cpc'[u] = cpc[u] /\ cfd'[u] = cfd[u] /\ out'[u] = out[u]
          BY <1>12, <3>3 DEF ProcRead, TypeOK
        <4>2. QED
          BY <1>12, <3>1, <4>1 DEF ProcRead, ShapeOf, InSentence, thrVars, fileVars, ansVars
      <3>4. QED
        BY <3>2, <3>3
    <2>8. QED
      BY <2>6, <2>7 DEF Shape
  <1>13. ASSUME NEW t \in Threads, ProcWrite(t) PROVE TypeOK' /\ Shape'
    <2>1. wr' \in [Threads -> Nat]
      BY <1>13 DEF ProcWrite, TypeOK
    <2>2. TypeOK'
      BY <1>13, <2>1 DEF ProcWrite, TypeOK, thrVars, fileVars, ansVars
    <2>3. ASSUME NEW u \in Threads PROVE ShapeOf(u)'
      <3>1. ShapeOf(u) /\ rd[u] \in Nat /\ wr[u] \in Nat /\ (Len(out[u]) \in Nat)
        BY <1>t DEF Shape, TypeOK
      <3>2. CASE u = t
        <4>1. wr'[t] = wr[t] + 1 /\ wr[t] < Len(out[t]) /\ cpc[t] = "printing"
          BY <1>13 DEF ProcWrite, TypeOK
        <4>2. rd[t] <= wr[t] + 1 /\ wr[t] + 1 <= Len(out[t])
          BY <3>1, <3>2, <4>1 DEF ShapeOf
        <4>3. QED
          BY <1>13, <3>1, <3>2, <4>1, <4>2 DEF ProcWrite, ShapeOf, InSentence, thrVars, fileVars, ansVars
      <3>3. CASE u # t
        <4>1. wr'[u] = wr[u]
          BY <1>13, <3>3 DEF ProcWrite, TypeOK
        <4>2. QED
          BY <1>13, <3>1, <4>1 DEF ProcWrite, ShapeOf, InSentence, thrVars, fileVars, ansVars
      <3>4. QED
        BY <3>2, <3>3
    <2>4. QED
      BY <2>2, <2>3 DEF Shape
  <1>14. ASSUME NEW t \in Threads, ProcExit(t) PROVE TypeOK' /\ Shape'
    <2>1. cpc' \in [Threads -> CPCs]
      BY <1>t, <1>14 DEF ProcExit, TypeOK, CPCs
    <2>2. TypeOK'
      BY <1>14, <2>1 DEF ProcExit, TypeOK, thrVars, fileVars, procVars, ansVars
    <2>3. ASSUME NEW u \in Threads PROVE ShapeOf(u)'
      <3>1. ShapeOf(u) /\ ShapeOf(t)
        BY DEF Shape
      <3>2. QED
        BY <1>t, <1>14, <3>1 DEF ProcExit, TypeOK, ShapeOf, InSentence, thrVars, fileVars, procVars, ansVars
    <2>4. QED
      BY <2>2, <2>3 DEF Shape
  <1>15. CASE UNCHANGED vars
    BY <1>15 DEF vars, TypeOK, Shape, ShapeOf, InSentence, thrVars, fileVars, procVars, ansVars
  <1>16. QED
    BY <1>1, <1>2, <1>3, <1>4, <1>5, <1>6, <1>7, <1>8, <1>9, <1>10, <1>11, <1>12, <1>13, <1>14, <1>15 DEF Next, Thread, Process

\* Every state has the types of TypeOK: the variables of every thread, file and
\* process stay in the sets the code's variables range over.
THEOREM TypeCorrect == Spec => []TypeOK
  <1>1. Init => TypeOK /\ Shape
    BY ServiceAssumption, EmptySeq DEF Init, TypeOK, Shape, ShapeOf, InSentence, PCs, CPCs, Inodes, Contents
  <1>2. TypeOK /\ Shape /\ [Next]_vars => TypeOK' /\ Shape'
    BY TypeStep
  <1>3. QED
    BY <1>1, <1>2, PTL DEF Spec

-----------------------------------------------------------------------------
(* A thread that meets nobody.                                             *)

\* What a thread knows survives a step that leaves its own variables alone, if
\* the step also leaves the file alone while the thread uses it.
LEMMA Frame ==
  ASSUME NEW u \in Threads, Alone(u),
         /\ pc'[u] = pc[u] /\ text'[u] = text[u] /\ k'[u] = k[u] /\ done'[u] = done[u]
         /\ fd'[u] = fd[u] /\ cpc'[u] = cpc[u] /\ cfd'[u] = cfd[u]
         /\ out'[u] = out[u] /\ wr'[u] = wr[u] /\ rd'[u] = rd[u]
         /\ ann'[u] = ann[u] /\ resp'[u] = resp[u]
         /\ skipped'[u] = skipped[u] /\ failed'[u] = failed[u],
         UsesFile(u) => dir' = dir /\ data' = data /\ Others(u)' = {}
  PROVE  Alone(u)'
  <1>1. Own(u)' = Own(u) /\ UsesFile(u)' = UsesFile(u) /\ InSentence(u)' = InSentence(u)
    BY DEF Own, Sid, Sentence, UsesFile, InSentence
  <1>2. FileIsOwn(u)'
    BY <1>1 DEF Alone, FileIsOwn, UsesFile
  <1>3. ProcessIsOwn(u)'
    BY <1>1 DEF Alone, ProcessIsOwn, UsesFile
  <1>4. AnnotationsAreOwn(u)'
    BY <1>1 DEF Alone, AnnotationsAreOwn, Expected
  <1>5. QED
    BY <1>2, <1>3, <1>4 DEF Alone

\* A step of thread t that does not open the file leaves another thread that
\* uses the file without company.
LEMMA NoCompany ==
  ASSUME NEW t \in Threads, NEW u \in Threads, Others(u) = {},
         \A v \in Threads \ {t} : pc'[v] = pc[v],
         UsesFile(t)' => UsesFile(t)
  PROVE  Others(u)' = {}
  BY DEF Others, UsesFile

\* A write into an emptied file leaves exactly what was written.
LEMMA OverwrittenEmpty ==
  ASSUME NEW c, NEW r \in Overwritten(c, <<>>)
  PROVE  r = c
  <1>1. {SubSeq(<<>>, j, Len(<<>>)) : j \in 1 .. Len(<<>>)} = {}
    BY EmptySeq
  <1>2. QED
    BY <1>1 DEF Overwritten

\* ukb_wsd prints its header and a line per word of a context in good order.
LEMMA PrintedContext ==
  ASSUME NEW id \in Sentences, NEW s, SentenceShape(s)
  PROVE  /\ Printed(Context(id, s)) = <<Header>> \o Context(id, s)
         /\ Len(<<Header>> \o Context(id, s)) = Len(s.ids) + 1
         /\ (<<Header>> \o Context(id, s))[1] = Header
         /\ \A i \in 1 .. Len(s.ids) :
              (<<Header>> \o Context(id, s))[i + 1] = Context(id, s)[i]
  <1>1. Context(id, s) \in Seq(Words \cup {Header}) /\ <<Header>> \in Seq(Words \cup {Header})
    BY ContextType, SeqMonotonic
  <1>2. Len(s.ids) \in Nat
    BY DEF SentenceShape
  <1>3. ~ \E i \in DOMAIN Context(id, s) : Context(id, s)[i] = Bad
    BY <1>2, ContextType DEF Context
  <1>4. QED
    BY <1>1, <1>2, <1>3, ContextType, ConcatProperties DEF Printed

\* The end of a sentence: its annotations are the expected ones.
LEMMA SentenceEnd ==
  ASSUME TypeOK, NEW t \in Threads, NEW a \in Seq(Words), NextSentence(t, a),
         k[t] \in 1 .. Len(text[t]), Len(text[t]) \in Nat, InSentence(t), Alone(t),
         text' = text, done' = done, failed' = failed,
         \/ skipped'[t] = skipped[t] /\ a = Own(t)
         \/ skipped'[t] = skipped[t] \cup {k[t]} /\ a = <<>>
  PROVE  Alone(t)'
  <1>1. /\ pc'[t] \in {"open", "reply"}
        /\ pc'[t] = "open" => k'[t] = k[t] + 1
        /\ pc'[t] = "reply" => k[t] = Len(text[t])
        /\ resp'[t] = Append(resp[t], a)
    BY NextSentenceType
  <1>2. /\ resp[t] \in Seq(Seq(Words)) /\ Len(resp[t]) = k[t] - 1
        /\ skipped[t] \subseteq 1 .. k[t] - 1
        /\ \A j \in 1 .. Len(resp[t]) : resp[t][j] = Expected(t, j)
        /\ ~ failed[t]
        /\ k[t] \in Nat
    BY DEF TypeOK, Alone, AnnotationsAreOwn, InSentence
  <1>3. PICK n \in 1 .. Len(text[t]) : n = k[t]
    OBVIOUS
  <1>4. /\ Len(resp'[t]) = n
        /\ \A j \in 1 .. n - 1 : resp'[t][j] = resp[t][j]
        /\ resp'[t][n] = a
    BY <1>1, <1>2, <1>3, AppendProperties
  <1>5. skipped[t] \subseteq 1 .. n - 1
    BY <1>2, <1>3
  <1>6. skipped'[t] \subseteq 1 .. n
    BY <1>3, <1>5
  <1>7. ASSUME NEW j \in 1 .. Len(resp'[t])
        PROVE  resp'[t][j] = Expected(t, j)'
    <2>1. CASE j \in 1 .. n - 1
      <3>1. resp'[t][j] = Expected(t, j)
        BY <1>2, <1>3, <1>4, <2>1
      <3>2. j \in skipped'[t] <=> j \in skipped[t]
        BY <1>3, <2>1
      <3>3. QED
        BY <3>1, <3>2 DEF Expected
    <2>2. CASE j = n /\ skipped'[t] = skipped[t] /\ a = Own(t)
      <3>1. n \notin skipped'[t]
        BY <1>5, <2>2
      <3>2. Own(t) = Context(<<t, done[t] + n>>, text[t][n])
        BY <1>3 DEF Own, Sid, Sentence
      <3>3. QED
        BY <1>4, <2>2, <3>1, <3>2 DEF Expected
    <2>3. CASE j = n /\ skipped'[t] = skipped[t] \cup {k[t]} /\ a = <<>>
      BY <1>3, <1>4, <2>3 DEF Expected
    <2>4. QED
      BY <1>4, <2>1, <2>2, <2>3
  <1>8. FileIsOwn(t)' /\ ProcessIsOwn(t)'
    BY <1>1 DEF FileIsOwn, ProcessIsOwn, UsesFile
  <1>9. InSentence(t)' => Len(resp[t])' = k'[t] - 1 /\ skipped'[t] \subseteq 1 .. k'[t] - 1
    BY <1>1, <1>2, <1>3, <1>4, <1>6 DEF InSentence
  <1>10. pc'[t] = "reply" => Len(resp[t])' = Len(text[t])'
    BY <1>1, <1>3, <1>4
  <1>11. ~ failed'[t]
    BY <1>2
  <1>12. AnnotationsAreOwn(t)'
    BY <1>1, <1>7, <1>9, <1>10, <1>11 DEF AnnotationsAreOwn
  <1>13. QED
    BY <1>8, <1>12 DEF Alone

\* A step of a thread or of its process, seen by that thread.
LEMMA SelfStep ==
  ASSUME TypeOK, Shape, NEW t \in Threads, met[t] = {} => Alone(t), met'[t] = {},
         StartRequest(t) \/ IOFailure(t) \/ Thread(t) \/ Process(t)
  PROVE  Alone(t)'
  <1> USE ServiceAssumption
  <1>t. /\ Len(text[t]) \in Nat /\ k[t] \in Nat
        /\ InSentence(t) => /\ k[t] \in 1 .. Len(text[t])
                            /\ SentenceShape(Sentence(t))
                            /\ Sid(t) \in Sentences
    BY TextShape DEF TypeOK
  <1>s. ShapeOf(t)
    BY DEF Shape
  <1>c. InSentence(t) =>
          /\ Own(t) \in Seq(Words)
          /\ Len(Own(t)) = Len(Sentence(t).ids) /\ Len(Own(t)) \in Nat
          /\ \A i \in 1 .. Len(Own(t)) : /\ Own(t)[i] # Header
                                         /\ Own(t)[i][2] < Sentence(t).n
          /\ Printed(Own(t)) = <<Header>> \o Own(t)
          /\ Len(<<Header>> \o Own(t)) = Len(Own(t)) + 1
          /\ (<<Header>> \o Own(t))[1] = Header
          /\ \A i \in 1 .. Len(Own(t)) : (<<Header>> \o Own(t))[i + 1] = Own(t)[i]
    <2> DEFINE s == Sentence(t)
    <2> SUFFICES ASSUME InSentence(t) PROVE <1>c!2
      OBVIOUS
    <2>1. /\ Sid(t) \in Sentences /\ SentenceShape(s) /\ Own(t) = Context(Sid(t), s)
          /\ Len(s.ids) \in Nat /\ \A i \in 1 .. Len(s.ids) : s.ids[i] < s.n
      <3>1. SentenceShape(s) /\ Sid(t) \in Sentences
        BY <1>t
      <3>2. QED
        BY <3>1, ShapeFacts, Zenon DEF Own
    <2> HIDE DEF s
    <2>2. /\ Own(t) \in Seq(Words)
          /\ Len(Own(t)) = Len(s.ids)
          /\ \A i \in 1 .. Len(s.ids) : Own(t)[i] = <<Sid(t), s.ids[i]>> /\ Own(t)[i] # Header
      BY <2>1, ContextType
    <2>3. /\ Printed(Own(t)) = <<Header>> \o Own(t)
          /\ Len(<<Header>> \o Own(t)) = Len(s.ids) + 1
          /\ (<<Header>> \o Own(t))[1] = Header
          /\ \A i \in 1 .. Len(s.ids) : (<<Header>> \o Own(t))[i + 1] = Own(t)[i]
      BY <2>1, PrintedContext
    <2>4. \A i \in 1 .. Len(s.ids) : Own(t)[i][2] < s.n
      BY <2>1, <2>2
    <2>5. QED
      BY <2>1, <2>2, <2>3, <2>4 DEF s
  <1>1. CASE StartRequest(t)
    <2>1. /\ pc'[t] \in {"open", "reply"} /\ k'[t] = 1 /\ resp'[t] = <<>>
          /\ skipped'[t] = {} /\ ~ failed'[t]
          /\ pc'[t] = "reply" => text'[t] = <<>>
      BY <1>1 DEF StartRequest, TypeOK
    <2>2. FileIsOwn(t)' /\ ProcessIsOwn(t)'
      BY <2>1 DEF FileIsOwn, ProcessIsOwn, UsesFile
    <2>3. AnnotationsAreOwn(t)'
      BY <2>1 DEF AnnotationsAreOwn, InSentence
    <2>4. QED
      BY <2>2, <2>3 DEF Alone
  <1>2. CASE OpenTmp(t)
    <2>1. Alone(t) /\ Others(t) = {}
      <3>1. InSentence(t) /\ met' = Meeting(t)
        BY <1>2 DEF OpenTmp, InSentence
      <3>2. QED
        BY <3>1, MeetingType
    <2>2. InSentence(t)
      BY <1>2 DEF OpenTmp, InSentence
    <2>3. /\ dir' \in Inodes /\ fd'[t] = dir' /\ data'[dir'] = <<>>
          /\ pc' = [pc EXCEPT ![t] = "write"] /\ ann'[t] = <<>>
          /\ UNCHANGED <<text, k, done, resp, skipped, failed>>
      BY <1>2, <1>t, <2>2 DEF OpenTmp, TypeOK, Inodes
    <2>4. Others(t)' = {}
      BY <2>1, <2>3 DEF Others, UsesFile, TypeOK
    <2>5. pc'[t] = "write"
      BY <2>3 DEF TypeOK
    <2>6. FileIsOwn(t)'
      BY <2>3, <2>4, <2>5 DEF FileIsOwn, Inodes
    <2>7. ProcessIsOwn(t)'
      BY <2>5 DEF ProcessIsOwn
    <2>8. AnnotationsAreOwn(t)'
      BY <2>1, <2>2, <2>3, <2>5 DEF Alone, AnnotationsAreOwn, InSentence, Expected
    <2>9. QED
      BY <2>6, <2>7, <2>8 DEF Alone
  <1>3. CASE WriteTmp(t)
    <2>1. Alone(t) /\ InSentence(t) /\ pc[t] = "write"
      BY <1>3 DEF WriteTmp, ansVars, InSentence
    <2>2. dir \in Inodes /\ fd[t] = dir /\ data[dir] = <<>> /\ Others(t) = {}
      BY <2>1 DEF Alone, FileIsOwn, UsesFile, TypeOK
    <2>3. data' = [data EXCEPT ![dir] = Own(t)]
      <3>1. PICK c \in Overwritten(Own(t), <<>>) : data' = [data EXCEPT ![dir] = c]
        BY <1>3, <2>2 DEF WriteTmp, Own
      <3>2. QED
        BY <3>1, OverwrittenEmpty
    <2>4. /\ pc' = [pc EXCEPT ![t] = "exec"] /\ pc'[t] = "exec"
          /\ UNCHANGED <<text, k, done, dir, ann, resp, skipped, failed>>
      BY <1>3 DEF WriteTmp, TypeOK, ansVars
    <2>5. data'[dir] = Own(t) /\ Own(t)' = Own(t)
      BY <2>2, <2>3, <2>4 DEF TypeOK, Own, Sid, Sentence
    <2>6. Others(t)' = {}
      BY <2>2, <2>4 DEF Others, UsesFile, TypeOK
    <2>7. FileIsOwn(t)'
      BY <2>2, <2>4, <2>5, <2>6 DEF FileIsOwn, Inodes
    <2>8. ProcessIsOwn(t)'
      BY <2>4 DEF ProcessIsOwn
    <2>9. AnnotationsAreOwn(t)'
      BY <2>1, <2>4 DEF Alone, AnnotationsAreOwn, InSentence, Expected
    <2>10. QED
      BY <2>7, <2>8, <2>9 DEF Alone
  <1>4. CASE Exec(t)
    <2>1. Alone(t) /\ InSentence(t) /\ pc[t] = "exec"
      BY <1>4 DEF Exec, InSentence
    <2>2. /\ pc' = [pc EXCEPT ![t] = "wait"] /\ pc'[t] = "wait"
          /\ cpc'[t] = "started" /\ rd'[t] = 0
          /\ UNCHANGED <<text, k, done, dir, data, ann, resp, skipped, failed>>
      BY <1>4 DEF Exec, TypeOK, fileVars
    <2>3. Others(t)' = {} /\ Own(t)' = Own(t)
      BY <2>1, <2>2 DEF Alone, FileIsOwn, Others, UsesFile, TypeOK, Own, Sid, Sentence
    <2>4. FileIsOwn(t)'
      BY <2>1, <2>2, <2>3 DEF Alone, FileIsOwn
    <2>5. ProcessIsOwn(t)'
      BY <2>2 DEF ProcessIsOwn
    <2>6. AnnotationsAreOwn(t)'
      BY <2>1, <2>2 DEF Alone, AnnotationsAreOwn, InSentence, Expected
    <2>7. QED
      BY <2>4, <2>5, <2>6 DEF Alone
  <1>5. CASE IOFailure(t)
    <2>1. Alone(t) /\ InSentence(t) /\ <<>> \in Seq(Words)
      BY <1>5, EmptySeq DEF IOFailure, InSentence
    <2>2. /\ skipped'[t] = skipped[t] \cup {k[t]} /\ NextSentence(t, <<>>)
          /\ text' = text /\ done' = done /\ failed' = failed
      BY <1>5 DEF IOFailure, TypeOK
    <2>3. QED
      BY <1>t, <2>1, <2>2, SentenceEnd
  <1>6. CASE WaitFor(t)
    <2>1. Alone(t) /\ InSentence(t) /\ pc[t] = "wait" /\ cpc[t] = "exited"
      BY <1>6 DEF WaitFor, InSentence, ansVars
    <2>2. /\ pc' = [pc EXCEPT ![t] = "read"] /\ pc'[t] = "read"
          /\ UNCHANGED <<text, k, done, dir, data, cpc, cfd, out, wr, rd, ann, resp, skipped, failed>>
      BY <1>6 DEF WaitFor, TypeOK, fileVars, procVars, ansVars
    <2>3. Others(t)' = {} /\ Own(t)' = Own(t)
      BY <2>1, <2>2 DEF Alone, FileIsOwn, Others, UsesFile, TypeOK, Own, Sid, Sentence
    <2>4. FileIsOwn(t)'
      BY <2>1, <2>2, <2>3 DEF Alone, FileIsOwn
    <2>5. ProcessIsOwn(t)'
      BY <2>1, <2>2, <2>3 DEF Alone, ProcessIsOwn
    <2>6. ann[t] = <<>> /\ rd[t] = 0
      BY <2>1 DEF Alone, AnnotationsAreOwn, ProcessIsOwn
    <2>7. AnnotationsAreOwn(t)'
      BY <2>1, <2>2, <2>6 DEF Alone, AnnotationsAreOwn, InSentence, Expected
    <2>8. QED
      BY <2>4, <2>5, <2>7 DEF Alone
  <1>7. CASE ReadLine(t)
    <2>1. Alone(t) /\ InSentence(t) /\ pc[t] = "read"
      BY <1>7 DEF ReadLine, InSentence
    <2>2. /\ out[t] = <<Header>> \o Own(t) /\ wr[t] = Len(out[t]) /\ cpc[t] = "exited"
          /\ rd[t] \in Nat /\ rd[t] < wr[t]
      BY <1>7, <2>1 DEF ReadLine, Alone, ProcessIsOwn, TypeOK
    <2>3. /\ rd' = [rd EXCEPT ![t] = @ + 1] /\ rd'[t] = rd[t] + 1
          /\ UNCHANGED <<text, k, done, dir, data, fd, cpc, cfd, out, wr, resp, skipped>>
      BY <1>7 DEF ReadLine, TypeOK, fileVars, procVars
    <2>4. /\ pc' = pc /\ failed' = failed
          /\ Len(ann'[t]) = rd[t]
          /\ \A i \in 1 .. Len(ann'[t]) : ann'[t][i] = Own(t)[i]
      <3>1. ann[t] \in Seq(Words)
        BY DEF TypeOK
      <3>2. CASE rd[t] = 0
        <4>1. out[t][rd[t] + 1] = Header
          BY <1>c, <2>1, <2>2, <3>2
        <4>2. pc' = pc /\ failed' = failed /\ ann' = ann
          BY <1>7, <4>1 DEF ReadLine
        <4>3. Len(ann[t]) = 0
          BY <2>1, <3>2 DEF Alone, AnnotationsAreOwn
        <4>4. QED
          BY <3>2, <4>2, <4>3
      <3>3. CASE rd[t] # 0
        <4>1. rd[t] \in 1 .. Len(Own(t))
          BY <1>c, <2>1, <2>2, <3>3
        <4>2. out[t][rd[t] + 1] = Own(t)[rd[t]] /\ Own(t)[rd[t]] # Header
              /\ Own(t)[rd[t]][2] < Sentence(t).n
          BY <1>c, <2>1, <2>2, <4>1
        <4>3. pc' = pc /\ failed' = failed /\ ann' = [ann EXCEPT ![t] = Append(@, Own(t)[rd[t]])]
          BY <1>7, <4>2 DEF ReadLine
        <4>4. ann'[t] = Append(ann[t], Own(t)[rd[t]]) /\ Own(t)[rd[t]] \in Words
          <5>1. Own(t) \in Seq(Words)
            BY <1>c, <2>1
          <5>2. Own(t)[rd[t]] \in Words
            BY <4>1, <5>1, ElementOfSeq
          <5>3. ann \in [Threads -> Seq(Words)]
            BY DEF TypeOK
          <5>4. QED
            BY <4>3, <5>2, <5>3
        <4>5. Len(ann[t]) = rd[t] - 1 /\ \A i \in 1 .. Len(ann[t]) : ann[t][i] = Own(t)[i]
          BY <2>1, <3>3 DEF Alone, AnnotationsAreOwn
        <4>6. /\ Len(ann'[t]) = Len(ann[t]) + 1
              /\ \A i \in 1 .. Len(ann[t]) : ann'[t][i] = ann[t][i]
              /\ ann'[t][Len(ann[t]) + 1] = Own(t)[rd[t]]
          BY <3>1, <4>4, AppendProperties
        <4>7. QED
          BY <2>2, <4>1, <4>3, <4>5, <4>6
      <3>4. QED
        BY <3>2, <3>3
    <2>5. Own(t)' = Own(t)
      BY <2>3 DEF Own, Sid, Sentence
    <2>6. FileIsOwn(t)'
      BY <2>1, <2>3, <2>4, <2>5 DEF Alone, FileIsOwn, Others, UsesFile
    <2>7. ProcessIsOwn(t)'
      BY <2>1, <2>3, <2>4, <2>5 DEF Alone, ProcessIsOwn
    <2>8. AnnotationsAreOwn(t)'
      <3>1. pc'[t] = "read" /\ rd'[t] = rd[t] + 1 /\ ~ failed'[t]
        BY <2>1, <2>3, <2>4 DEF Alone, AnnotationsAreOwn
      <3>2. Len(ann'[t]) = IF rd'[t] = 0 THEN 0 ELSE rd'[t] - 1
        BY <2>2, <2>4, <3>1
      <3>3. /\ Len(resp'[t]) = k'[t] - 1 /\ skipped'[t] \subseteq 1 .. k'[t] - 1
            /\ \A j \in 1 .. Len(resp'[t]) : resp'[t][j] = Expected(t, j)'
        BY <2>1, <2>3 DEF Alone, AnnotationsAreOwn, InSentence, Expected
      <3>4. QED
        BY <2>4, <2>5, <3>1, <3>2, <3>3 DEF AnnotationsAreOwn, InSentence
    <2>9. QED
      BY <2>6, <2>7, <2>8 DEF Alone
  <1>8. CASE EndOfOutput(t)
    <2>1. Alone(t) /\ InSentence(t) /\ pc[t] = "read" /\ rd[t] = wr[t]
      BY <1>8 DEF EndOfOutput, InSentence, ansVars
    <2>2. /\ pc' = [pc EXCEPT ![t] = "delete"] /\ pc'[t] = "delete"
          /\ UNCHANGED <<text, k, done, dir, data, ann, resp, skipped, failed>>
      BY <1>8 DEF EndOfOutput, TypeOK, fileVars, ansVars
    <2>3. Others(t)' = {} /\ Own(t)' = Own(t)
      BY <2>1, <2>2 DEF Alone, FileIsOwn, Others, UsesFile, TypeOK, Own, Sid, Sentence
    <2>4. ann[t] = Own(t)
      <3>1. rd[t] = Len(Own(t)) + 1
        BY <1>c, <2>1 DEF Alone, ProcessIsOwn
      <3>2. Len(ann[t]) = Len(Own(t)) /\ \A i \in 1 .. Len(ann[t]) : ann[t][i] = Own(t)[i]
        BY <1>c, <2>1, <3>1 DEF Alone, AnnotationsAreOwn
      <3>3. QED
        BY <1>c, <2>1, <3>2, SeqEqual DEF TypeOK
    <2>5. FileIsOwn(t)'
      BY <2>1, <2>2, <2>3 DEF Alone, FileIsOwn
    <2>6. ProcessIsOwn(t)'
      BY <2>2 DEF ProcessIsOwn
    <2>7. AnnotationsAreOwn(t)'
      BY <2>1, <2>2, <2>3, <2>4 DEF Alone, AnnotationsAreOwn, InSentence, Expected
    <2>8. QED
      BY <2>5, <2>6, <2>7 DEF Alone
  <1>9. CASE DeleteTmp(t)
    <2>1. Alone(t) /\ InSentence(t) /\ ann[t] \in Seq(Words) /\ ann[t] = Own(t)
      BY <1>9 DEF DeleteTmp, InSentence, TypeOK, Alone, AnnotationsAreOwn
    <2>2. /\ skipped'[t] = skipped[t] /\ NextSentence(t, ann[t])
          /\ text' = text /\ done' = done /\ failed' = failed
      BY <1>9 DEF DeleteTmp
    <2>3. QED
      BY <1>t, <2>1, <2>2, SentenceEnd
  <1>10. CASE Reply(t)
    <2>1. Alone(t) /\ pc'[t] = "idle" /\ failed'[t] = failed[t]
      BY <1>10 DEF Reply, TypeOK
    <2>2. QED
      BY <2>1 DEF Alone, FileIsOwn, ProcessIsOwn, AnnotationsAreOwn, UsesFile, InSentence
  <1>11. CASE Process(t)
    <2>1. /\ UNCHANGED <<thrVars, fileVars, ansVars>> /\ Alone(t)
          /\ cpc[t] \in {"started", "opened", "printing"}
      BY <1>11 DEF Process, ProcOpen, ProcRead, ProcWrite, ProcExit, ansVars
    <2>2. /\ pc[t] = "wait" /\ InSentence(t)
          /\ UNCHANGED <<pc, text, k, done, dir, data, fd, rd, ann, resp, skipped, failed>>
      BY <1>s, <2>1 DEF ShapeOf, InSentence, thrVars, fileVars, ansVars
    <2>3. FileIsOwn(t)' /\ Own(t)' = Own(t)
      BY <2>1, <2>2 DEF Alone, FileIsOwn, Others, UsesFile, Own, Sid, Sentence
    <2>4. AnnotationsAreOwn(t)'
      BY <2>1, <2>2 DEF Alone, AnnotationsAreOwn, InSentence, Expected
    <2>5. dir # NoFile /\ data[dir] = Own(t) /\ rd[t] = 0
      BY <2>1, <2>2 DEF Alone, FileIsOwn, ProcessIsOwn
    <2>6. ProcessIsOwn(t)'
      <3>1. CASE ProcOpen(t)
        <4>1. cpc'[t] = "opened" /\ cfd'[t] = dir
          BY <2>5, <3>1 DEF ProcOpen, TypeOK
        <4>2. QED
          BY <2>2, <2>5, <4>1 DEF ProcessIsOwn
      <3>2. CASE ProcRead(t)
        <4>1. cfd[t] = dir
          BY <2>1, <2>2, <3>2 DEF ProcRead, Alone, ProcessIsOwn
        <4>2. cpc'[t] = "printing" /\ out'[t] = <<Header>> \o Own(t)
          BY <1>c, <2>2, <2>5, <3>2, <4>1 DEF ProcRead, TypeOK
        <4>3. QED
          BY <2>2, <2>3, <2>5, <4>2 DEF ProcessIsOwn
      <3>3. CASE ProcWrite(t)
        <4>1. cpc[t] = "printing" /\ UNCHANGED <<cpc, cfd, out>>
          BY <3>3 DEF ProcWrite
        <4>2. QED
          BY <2>1, <2>2, <2>3, <4>1 DEF Alone, ProcessIsOwn
      <3>4. CASE ProcExit(t)
        <4>1. /\ cpc[t] = "printing" /\ cpc'[t] = "exited" /\ wr[t] = Len(out[t])
              /\ UNCHANGED <<cfd, out, wr>>
          BY <3>4 DEF ProcExit, TypeOK
        <4>2. QED
          BY <2>1, <2>2, <2>3, <4>1 DEF Alone, ProcessIsOwn
      <3>5. QED
        BY <1>11, <3>1, <3>2, <3>3, <3>4 DEF Process
    <2>7. QED
      BY <2>3, <2>4, <2>6 DEF Alone
  <1>12. QED
    BY <1>1, <1>2, <1>3, <1>4, <1>5, <1>6, <1>7, <1>8, <1>9, <1>10, <1>11 DEF Thread

\* A step of another thread or of its process.
LEMMA OtherStep ==
  ASSUME TypeOK, Shape, NEW t \in Threads, NEW u \in Threads \ {t}, Alone(u), met'[u] = {},
         StartRequest(t) \/ IOFailure(t) \/ Thread(t) \/ Process(t)
  PROVE  Alone(u)'
  <1>1. CASE OpenTmp(t)
    <2>1. ~ UsesFile(u)
      <3>1. InSentence(t) /\ met' = Meeting(t)
        BY <1>1 DEF OpenTmp, InSentence
      <3>2. u \notin Others(t)
        BY <3>1, MeetingType
      <3>3. QED
        BY <3>2 DEF Others
    <2>2. QED
      BY <1>1, <2>1, Frame DEF OpenTmp, TypeOK, procVars
  <1>2. CASE WriteTmp(t) \/ DeleteTmp(t)
    <2>1. UsesFile(t)
      BY <1>2 DEF WriteTmp, DeleteTmp, UsesFile
    <2>2. ~ UsesFile(u)
      BY <2>1 DEF Alone, FileIsOwn, Others
    <2>3. /\ pc'[u] = pc[u] /\ text'[u] = text[u] /\ k'[u] = k[u] /\ done'[u] = done[u]
          /\ fd'[u] = fd[u] /\ cpc'[u] = cpc[u] /\ cfd'[u] = cfd[u]
          /\ out'[u] = out[u] /\ wr'[u] = wr[u] /\ rd'[u] = rd[u]
          /\ ann'[u] = ann[u] /\ resp'[u] = resp[u]
          /\ skipped'[u] = skipped[u] /\ failed'[u] = failed[u]
      <3>1. CASE WriteTmp(t)
        BY <3>1 DEF WriteTmp, TypeOK, procVars, ansVars
      <3>2. CASE DeleteTmp(t)
        BY <3>2 DEF DeleteTmp, NextSentence, TypeOK, procVars, ansVars
      <3>3. QED
        BY <1>2, <3>1, <3>2
    <2>4. QED
      BY <2>2, <2>3, Frame
  <1>3. CASE Process(t)
    <2>1. UNCHANGED <<thrVars, fileVars, ansVars>>
      BY <1>3 DEF Process, ProcOpen, ProcRead, ProcWrite, ProcExit
    <2>2. cpc'[u] = cpc[u] /\ cfd'[u] = cfd[u] /\ out'[u] = out[u] /\ wr'[u] = wr[u]
      BY <1>3 DEF Process, ProcOpen, ProcRead, ProcWrite, ProcExit, TypeOK
    <2>3. UsesFile(u) => Others(u)' = {}
      BY <2>1 DEF Alone, FileIsOwn, Others, UsesFile, thrVars
    <2>4. QED
      BY <2>1, <2>2, <2>3, Frame DEF thrVars, fileVars, ansVars
  <1>4. ASSUME \/ StartRequest(t) \/ IOFailure(t) \/ Exec(t) \/ WaitFor(t)
               \/ ReadLine(t) \/ EndOfOutput(t) \/ Reply(t)
        PROVE  Alone(u)'
    <2>1. /\ dir' = dir /\ data' = data
          /\ \A v \in Threads \ {t} : pc'[v] = pc[v]
          /\ UsesFile(t)' => UsesFile(t)
      <3>1. dir' = dir /\ data' = data
        BY <1>4 DEF StartRequest, IOFailure, Exec, WaitFor, ReadLine, EndOfOutput, Reply, fileVars
      <3>2. PICK p \in PCs : /\ pc' = [pc EXCEPT ![t] = p]
                             /\ p \in {"write", "exec", "wait", "read", "delete"} => UsesFile(t)
        <4>1. CASE StartRequest(t)
          <5>1. pc' = [pc EXCEPT ![t] = "open"] \/ pc' = [pc EXCEPT ![t] = "reply"]
            BY <4>1 DEF StartRequest
          <5>2. QED
            BY <5>1 DEF PCs
        <4>2. CASE IOFailure(t)
          <5>1. pc' = [pc EXCEPT ![t] = "open"] \/ pc' = [pc EXCEPT ![t] = "reply"]
            BY <4>2 DEF IOFailure, NextSentence
          <5>2. QED
            BY <5>1 DEF PCs
        <4>3. CASE ReadLine(t)
          <5>1. pc[t] = "read" /\ (pc' = pc \/ pc' = [pc EXCEPT ![t] = "reply"])
            BY <4>3 DEF ReadLine
          <5>2. pc' = [pc EXCEPT ![t] = "read"] \/ pc' = [pc EXCEPT ![t] = "reply"]
            BY <5>1 DEF TypeOK
          <5>3. QED
            BY <5>1, <5>2 DEF UsesFile, PCs
        <4>4. CASE Exec(t)
          BY <4>4 DEF Exec, UsesFile, PCs
        <4>5. CASE WaitFor(t)
          BY <4>5 DEF WaitFor, UsesFile, PCs
        <4>6. CASE EndOfOutput(t)
          BY <4>6 DEF EndOfOutput, UsesFile, PCs
        <4>7. CASE Reply(t)
          BY <4>7 DEF Reply, PCs
        <4>8. QED
          BY <1>4, <4>1, <4>2, <4>3, <4>4, <4>5, <4>6, <4>7
      <3>3. QED
        BY <3>1, <3>2 DEF TypeOK, UsesFile
    <2>2. /\ text'[u] = text[u] /\ k'[u] = k[u] /\ done'[u] = done[u]
          /\ fd'[u] = fd[u] /\ cpc'[u] = cpc[u] /\ cfd'[u] = cfd[u]
          /\ out'[u] = out[u] /\ wr'[u] = wr[u] /\ rd'[u] = rd[u]
          /\ ann'[u] = ann[u] /\ resp'[u] = resp[u]
          /\ skipped'[u] = skipped[u] /\ failed'[u] = failed[u]
      <3>1. CASE StartRequest(t)
        BY <3>1 DEF StartRequest, fileVars, procVars, ansVars, TypeOK
      <3>2. CASE IOFailure(t)
        BY <3>2 DEF IOFailure, NextSentence, fileVars, procVars, ansVars, TypeOK
      <3>3. CASE Exec(t)
        BY <3>3 DEF Exec, fileVars, procVars, ansVars, TypeOK
      <3>4. CASE WaitFor(t)
        BY <3>4 DEF WaitFor, fileVars, procVars, ansVars, TypeOK
      <3>5. CASE ReadLine(t)
        BY <3>5 DEF ReadLine, fileVars, procVars, ansVars, TypeOK
      <3>6. CASE EndOfOutput(t)
        BY <3>6 DEF EndOfOutput, NextSentence, fileVars, procVars, ansVars, TypeOK
      <3>7. CASE Reply(t)
        BY <3>7 DEF Reply, fileVars, procVars, ansVars, TypeOK
      <3>8. QED
        BY <1>4, <3>1, <3>2, <3>3, <3>4, <3>5, <3>6, <3>7
    <2>3. UsesFile(u) => Others(u)' = {}
      BY <2>1, NoCompany DEF Alone, FileIsOwn
    <2>4. QED
      BY <2>1, <2>2, <2>3, Frame
  <1>5. QED
    BY <1>1, <1>2, <1>3, <1>4 DEF Thread

\* Every step of a thread or of a process keeps the invariant.
LEMMA IInvStep ==
  ASSUME IInv, [Next]_vars
  PROVE  IInv'
  <1>1. TypeOK' /\ Shape'
    BY TypeStep DEF IInv
  <1>2. ASSUME NEW u \in Threads, met'[u] = {} PROVE Alone(u)'
    <2>1. CASE UNCHANGED vars
      <3>1. Alone(u)
        BY <1>2, <2>1 DEF IInv, vars, ansVars
      <3>2. UsesFile(u) => Others(u)' = {}
        BY <2>1, <3>1 DEF Alone, FileIsOwn, Others, UsesFile, vars, thrVars
      <3>3. QED
        BY <2>1, <3>1, <3>2, Frame DEF vars, thrVars, fileVars, procVars, ansVars
    <2>2. ASSUME NEW t \in Threads, StartRequest(t) \/ IOFailure(t) \/ Thread(t) \/ Process(t)
          PROVE  Alone(u)'
      <3>1. CASE u = t
        BY <1>2, <2>2, <3>1, SelfStep DEF IInv
      <3>2. CASE u # t
        <4>1. met[u] = {}
          BY <1>2, <2>2, <3>2, MetGrows DEF IInv
        <4>2. QED
          BY <1>2, <2>2, <3>2, <4>1, OtherStep DEF IInv
      <3>3. QED
        BY <3>1, <3>2
    <2>3. QED
      BY <2>1, <2>2 DEF Next
  <1>3. QED
    BY <1>1, <1>2 DEF IInv

\* The inductive invariant: types, shape, and what a thread alone with the
\* file knows about file, process and annotations.
THEOREM Invariance == Spec => []IInv
  <1>1. Init => IInv
    <2> SUFFICES ASSUME Init PROVE IInv
      OBVIOUS
    <2>1. TypeOK /\ Shape
      BY ServiceAssumption, EmptySeq DEF Init, TypeOK, Shape, ShapeOf, InSentence, PCs, CPCs, Inodes, Contents
    <2>2. ASSUME NEW t \in Threads PROVE Alone(t)
      BY DEF Init, Alone, FileIsOwn, ProcessIsOwn, AnnotationsAreOwn, UsesFile, InSentence
    <2>3. QED
      BY <2>1, <2>2 DEF IInv
  <1>2. IInv /\ [Next]_vars => IInv'
    BY IInvStep
  <1>3. QED
    BY <1>1, <1>2, PTL DEF Spec

\* A request that shares tmp.txt with nobody is answered with exactly its own
\* words' annotations, whatever earlier requests and I/O errors left behind.
THEOREM AloneFaithful == Spec => []AloneIsFaithful
  <1>1. IInv => AloneIsFaithful
    <2> SUFFICES ASSUME IInv, NEW t \in Threads, pc[t] = "reply", met[t] = {}
                 PROVE  /\ ~ failed[t]
                        /\ Len(resp[t]) = Len(text[t])
                        /\ \A j \in 1 .. Len(text[t]) : resp[t][j] = Expected(t, j)
      BY DEF AloneIsFaithful
    <2>1. AnnotationsAreOwn(t)
      BY DEF IInv, Alone
    <2>2. QED
      BY <2>1 DEF AnnotationsAreOwn
  <1>2. QED
    BY <1>1, Invariance, PTL

-----------------------------------------------------------------------------
(* Where annotations come from.                                            *)

\* The sentence in hand and those that t met while it had it in hand.
Seen(t) == {s \in Sentences : s = Sid(t) \/ <<k[t], s>> \in met[t]}

\* The words in c were made for sentences of S.
MadeFor(c, S) == \A i \in 1 .. Len(c) : c[i] \in Words => c[i][1] \in S

\* Sentence j of the answer is annotated with what was made for j or met there.
AnswerTraced(t) ==
  \A j \in 1 .. Len(resp[t]) : \A i \in 1 .. Len(resp[t][j]) :
    LET s == resp[t][j][i][1] IN s = <<t, done[t] + j>> \/ <<j, s>> \in met[t]

\* Whoever uses the file together with t is met; and what the file holds, what
\* t's process has open and prints, and what t has read, was seen.
TracedOf(t) ==
  /\ UsesFile(t) => \A u \in Others(t) : Sid(u) \in Seen(t)
  /\ UsesFile(t) /\ dir # NoFile => MadeFor(data[dir], Seen(t))
  /\ cpc[t] = "opened" => MadeFor(data[cfd[t]], Seen(t))
  /\ pc[t] \in {"wait", "read"} => MadeFor(out[t], Seen(t))
  /\ UsesFile(t) => MadeFor(ann[t], Seen(t))
  /\ InSentence(t) => Len(resp[t]) = k[t] - 1
  /\ pc[t] # "idle" => AnswerTraced(t)

Traced == \A t \in Threads : TracedOf(t)

\* A write leaves words of its own context and of the contents before.
LEMMA OverwrittenMade ==
  ASSUME NEW id \in Sentences, NEW x, SentenceShape(x), NEW old \in Contents,
         NEW r \in Overwritten(Context(id, x), old),
         NEW S, id \in S, MadeFor(old, S)
  PROVE  MadeFor(r, S)
  <1> DEFINE c == Context(id, x)
  <1>1. /\ c \in Seq(Words) /\ c \in Contents
        /\ \A i \in 1 .. Len(c) : c[i][1] = id
    <2>1. c \in Seq(Words) /\ Len(c) = Len(x.ids) /\ \A i \in 1 .. Len(x.ids) : c[i] = <<id, x.ids[i]>>
      BY ContextType
    <2>2. QED
      BY <2>1 DEF Contents
  <1> HIDE DEF c
  <1>2. MadeFor(c, S)
    BY <1>1 DEF MadeFor
  <1>3. ASSUME NEW a \in Contents, NEW b \in Contents, MadeFor(a, S), MadeFor(b, S)
        PROVE  MadeFor(a \o b, S)
    <2> SUFFICES ASSUME NEW i \in 1 .. Len(a \o b), (a \o b)[i] \in Words
                 PROVE  (a \o b)[i][1] \in S
      BY DEF MadeFor
    <2>1. Len(a) \in Nat /\ Len(b) \in Nat /\ Len(a \o b) = Len(a) + Len(b)
      BY <1>3, ConcatProperties DEF Contents
    <2>2. CASE i <= Len(a)
      <3>1. (a \o b)[i] = a[i] /\ i \in 1 .. Len(a)
        BY <1>3, <2>1, <2>2, ConcatProperties DEF Contents
      <3>2. QED
        BY <1>3, <3>1 DEF MadeFor
    <2>3. CASE i > Len(a)
      <3>1. (a \o b)[i] = b[i - Len(a)] /\ i - Len(a) \in 1 .. Len(b)
        BY <1>3, <2>1, <2>3, ConcatProperties DEF Contents
      <3>2. QED
        BY <1>3, <3>1 DEF MadeFor
    <2>4. QED
      BY <2>1, <2>2, <2>3
  <1>4. ASSUME NEW j \in 1 .. Len(old), NEW t, t = SubSeq(old, j, Len(old))
        PROVE  t \in Contents /\ MadeFor(t, S)
    <2>1. Len(old) \in Nat
      BY DEF Contents
    <2>2. t \in Contents /\ Len(t) = Len(old) - j + 1
      BY <1>4, <2>1, SubSeqProperties DEF Contents
    <2>3. \A i \in 1 .. Len(t) : t[i] = old[j + i - 1] /\ j + i - 1 \in 1 .. Len(old)
      BY <1>4, <2>1, <2>2, SubSeqProperties DEF Contents
    <2>4. QED
      BY <2>2, <2>3 DEF MadeFor
  <1>5. <<Bad>> \in Contents /\ MadeFor(<<Bad>>, S)
    BY ServiceAssumption DEF Contents, MadeFor, Words
  <1>6. CASE r = c
    BY <1>2, <1>6
  <1>7. CASE \E j \in 1 .. Len(old) : r = c \o SubSeq(old, j, Len(old))
    BY <1>1, <1>2, <1>3, <1>4, <1>7
  <1>8. CASE \E j \in 1 .. Len(old) : r = c \o <<Bad>> \o SubSeq(old, j, Len(old))
    <2>1. c \o <<Bad>> \in Contents /\ MadeFor(c \o <<Bad>>, S)
      BY <1>1, <1>2, <1>3, <1>5, ConcatProperties DEF Contents
    <2>2. QED
      BY <1>3, <1>4, <1>8, <2>1
  <1>9. QED
    BY <1>6, <1>7, <1>8 DEF Overwritten, c

\* A process prints words of its context only.
LEMMA PrintedMade ==
  ASSUME NEW c \in Contents, NEW S, MadeFor(c, S)
  PROVE  MadeFor(Printed(c), S)
  <1>1. <<Header>> \in Seq(Words \cup {Header, Bad}) /\ c \in Seq(Words \cup {Header, Bad})
    BY SeqMonotonic DEF Contents
  <1>2. Header \notin Words
    BY ServiceAssumption DEF Words
  <1>3. CASE Printed(c) = <<Header>>
    BY <1>2, <1>3 DEF MadeFor
  <1>4. CASE Printed(c) = <<Header>> \o c
    <2>1. /\ Len(c) \in Nat /\ Len(Printed(c)) = Len(c) + 1
          /\ Printed(c)[1] = Header
          /\ \A i \in 2 .. Len(c) + 1 : Printed(c)[i] = c[i - 1]
      BY <1>1, <1>4, ConcatProperties
    <2>2. QED
      BY <1>2, <2>1 DEF MadeFor
  <1>5. QED
    BY <1>3, <1>4 DEF Printed

\* What was seen stays seen while the sentence is in hand.
LEMMA SeenGrows ==
  ASSUME NEW u \in Threads, k'[u] = k[u], done'[u] = done[u], met[u] \subseteq met'[u]
  PROVE  Sid(u)' = Sid(u) /\ Seen(u) \subseteq Seen(u)'
  BY DEF Sid, Seen

\* A step that changes neither what thread u is about nor, while u uses it, the
\* file in a way u has not seen.
LEMMA TracedFrame ==
  ASSUME NEW u \in Threads, TracedOf(u), Shape,
         /\ pc'[u] = pc[u] /\ k'[u] = k[u] /\ done'[u] = done[u]
         /\ cpc'[u] = cpc[u] /\ cfd'[u] = cfd[u] /\ out'[u] = out[u]
         /\ ann'[u] = ann[u] /\ resp'[u] = resp[u],
         met[u] \subseteq met'[u],
         UsesFile(u) => /\ \A v \in Others(u)' : Sid(v)' \in Seen(u)'
                        /\ dir' # NoFile => MadeFor(data'[dir'], Seen(u)'),
         cpc[u] = "opened" => MadeFor(data'[cfd[u]], Seen(u)')
  PROVE  TracedOf(u)'
  <1>1. Seen(u) \subseteq Seen(u)' /\ (UsesFile(u)' <=> UsesFile(u)) /\ (InSentence(u)' <=> InSentence(u))
    BY SeenGrows DEF UsesFile, InSentence
  <1>2. pc'[u] \in {"wait", "read"} => MadeFor(out'[u], Seen(u)')
    BY <1>1 DEF TracedOf, MadeFor
  <1>3. UsesFile(u)' => MadeFor(ann'[u], Seen(u)')
    BY <1>1 DEF TracedOf, MadeFor
  <1>4. pc'[u] # "idle" => AnswerTraced(u)'
    BY DEF TracedOf, AnswerTraced
  <1>5. QED
    BY <1>1, <1>2, <1>3, <1>4 DEF TracedOf

\* A step of thread t or of its process, seen by t.
LEMMA TracedSelf ==
  ASSUME TypeOK, Shape, Traced, NEW t \in Threads,
         StartRequest(t) \/ IOFailure(t) \/ Thread(t) \/ Process(t)
  PROVE  TracedOf(t)'
  <1> USE DEF Shape
  <1>t. /\ InSentence(t) => k[t] \in 1 .. Len(text[t]) /\ SentenceShape(Sentence(t)) /\ Sid(t) \in Sentences
        /\ Len(text[t]) \in Nat /\ k[t] \in Nat /\ ShapeOf(t) /\ TracedOf(t)
    BY TextShape DEF TypeOK, Traced
  <1>s. InSentence(t) => Sid(t) \in Seen(t)
    BY <1>t DEF Seen
  <1>1. CASE StartRequest(t)
    <2>1. /\ pc'[t] \in {"open", "reply"} /\ k'[t] = 1 /\ resp'[t] = <<>>
          /\ cpc'[t] = cpc[t] /\ pc[t] = "idle"
      BY <1>1 DEF StartRequest, TypeOK, procVars
    <2>2. cpc'[t] # "opened"
      BY <1>t, <2>1 DEF ShapeOf
    <2>3. QED
      BY <2>1, <2>2 DEF TracedOf, AnswerTraced, UsesFile
  <1>2. CASE OpenTmp(t)
    <2>1. /\ pc[t] = "open" /\ pc'[t] = "write" /\ InSentence(t) /\ met' = Meeting(t)
          /\ cpc'[t] = cpc[t] /\ k' = k /\ done' = done /\ resp' = resp /\ ann'[t] = <<>>
          /\ \A v \in Threads \ {t} : pc'[v] = pc[v]
          /\ data'[dir'] = <<>>
      BY <1>2, <1>t DEF OpenTmp, InSentence, TypeOK, procVars, Inodes
    <2>2. cpc'[t] # "opened"
      BY <1>t, <2>1 DEF ShapeOf
    <2>3. Others(t)' = Others(t) /\ \A v \in Others(t) : Sid(v)' = Sid(v) /\ Sid(v) \in Sentences
      BY <2>1, TextShape DEF Others, UsesFile, Sid, InSentence
    <2>4. Seen(t) \subseteq Seen(t)' /\ met[t] \subseteq met'[t]
          /\ \A v \in Others(t) : <<k[t], Sid(v)>> \in met'[t]
      BY <2>1, MeetingType, SeenGrows
    <2>5. \A v \in Others(t)' : Sid(v)' \in Seen(t)'
      BY <2>1, <2>3, <2>4 DEF Seen
    <2>6. MadeFor(data'[dir'], Seen(t)') /\ MadeFor(ann'[t], Seen(t)')
      BY <2>1 DEF MadeFor
    <2>7. Len(resp'[t]) = k'[t] - 1 /\ AnswerTraced(t)'
      BY <1>t, <2>1, <2>4 DEF TracedOf, InSentence, AnswerTraced
    <2>8. QED
      BY <2>1, <2>2, <2>5, <2>6, <2>7 DEF TracedOf
  <1>3. CASE WriteTmp(t)
    <2>1. /\ pc[t] = "write" /\ pc'[t] = "exec" /\ InSentence(t) /\ UsesFile(t)
          /\ UNCHANGED <<text, k, done, dir, procVars, ansVars>>
          /\ \A v \in Threads \ {t} : pc'[v] = pc[v]
      BY <1>3 DEF WriteTmp, InSentence, UsesFile, TypeOK
    <2>2. Others(t)' = Others(t) /\ Seen(t)' = Seen(t) /\ \A v \in Others(t) : Sid(v)' = Sid(v)
      BY <2>1 DEF Others, UsesFile, Sid, Seen, ansVars
    <2>3. cpc'[t] # "opened"
      BY <1>t, <2>1 DEF ShapeOf, procVars
    <2>4. dir' # NoFile => MadeFor(data'[dir'], Seen(t)')
      <3>1. PICK c \in Overwritten(Context(Sid(t), Sentence(t)), data[fd[t]]) :
               data' = [data EXCEPT ![fd[t]] = c]
        BY <1>3 DEF WriteTmp
      <3>2. CASE dir # NoFile /\ dir # fd[t]
        BY <1>t, <2>1, <2>2, <3>1, <3>2 DEF TracedOf, TypeOK
      <3>3. CASE dir # NoFile /\ dir = fd[t]
        <4>1. data[dir] \in Contents /\ MadeFor(data[dir], Seen(t)) /\ data'[dir] = c
          BY <1>t, <2>1, <3>1, <3>3 DEF TracedOf, TypeOK
        <4>2. MadeFor(c, Seen(t))
          BY <1>t, <1>s, <2>1, <3>3, <4>1, OverwrittenMade
        <4>3. QED
          BY <2>1, <2>2, <4>1, <4>2
      <3>4. QED
        BY <2>1, <3>2, <3>3
    <2>5. QED
      BY <1>t, <2>1, <2>2, <2>3, <2>4 DEF TracedOf, AnswerTraced, InSentence, ansVars
  <1>4. CASE Exec(t)
    <2>1. /\ pc[t] = "exec" /\ pc'[t] = "wait" /\ InSentence(t) /\ UsesFile(t)
          /\ UNCHANGED <<text, k, done, dir, data, ann, resp, met>>
          /\ \A v \in Threads \ {t} : pc'[v] = pc[v]
          /\ out'[t] = <<>> /\ cpc'[t] = "started"
      BY <1>4 DEF Exec, InSentence, UsesFile, TypeOK, fileVars
    <2>2. Others(t)' = Others(t) /\ Seen(t)' = Seen(t) /\ \A v \in Others(t) : Sid(v)' = Sid(v)
      BY <2>1 DEF Others, UsesFile, Sid, Seen
    <2>3. MadeFor(out'[t], Seen(t)')
      BY <2>1 DEF MadeFor
    <2>4. QED
      BY <1>t, <2>1, <2>2, <2>3 DEF TracedOf, AnswerTraced, InSentence
  <1>5. CASE WaitFor(t) \/ EndOfOutput(t)
    <2>1. /\ pc[t] \in {"wait", "read"} /\ pc'[t] \in {"read", "delete"} /\ InSentence(t) /\ UsesFile(t)
          /\ UNCHANGED <<text, k, done, fileVars, procVars, ansVars>>
          /\ \A v \in Threads \ {t} : pc'[v] = pc[v]
      BY <1>5 DEF WaitFor, EndOfOutput, InSentence, UsesFile, TypeOK
    <2>2. Others(t)' = Others(t) /\ Seen(t)' = Seen(t) /\ \A v \in Others(t) : Sid(v)' = Sid(v)
      BY <2>1 DEF Others, UsesFile, Sid, Seen, ansVars
    <2>3. cpc'[t] # "opened"
      BY <1>5, <2>1 DEF WaitFor, EndOfOutput, procVars
    <2>4. UsesFile(t)' /\ InSentence(t)' /\ (pc'[t] \in {"wait", "read"} => MadeFor(out'[t], Seen(t)'))
      BY <1>t, <2>1, <2>2 DEF TracedOf, InSentence, UsesFile, procVars
    <2>5. MadeFor(ann'[t], Seen(t)') /\ (dir' # NoFile => MadeFor(data'[dir'], Seen(t)'))
      BY <1>t, <2>1, <2>2 DEF TracedOf, ansVars, fileVars
    <2>6. Len(resp'[t]) = k'[t] - 1 /\ AnswerTraced(t)'
      BY <1>t, <2>1 DEF TracedOf, AnswerTraced, InSentence, ansVars
    <2>7. \A v \in Others(t)' : Sid(v)' \in Seen(t)'
      BY <1>t, <2>1, <2>2 DEF TracedOf
    <2>8. QED
      BY <2>3, <2>4, <2>5, <2>6, <2>7 DEF TracedOf
  <1>6. CASE ReadLine(t)
    <2> DEFINE line == out[t][rd[t] + 1]
    <2>1. /\ pc[t] = "read" /\ InSentence(t) /\ UsesFile(t)
          /\ UNCHANGED <<text, k, done, dir, data, cpc, cfd, out, resp, met>>
          /\ \A v \in Threads \ {t} : pc'[v] = pc[v]
          /\ rd[t] < wr[t]
      BY <1>6 DEF ReadLine, InSentence, UsesFile, TypeOK, fileVars, procVars
    <2>2. Others(t)' = Others(t) /\ Seen(t)' = Seen(t) /\ \A v \in Others(t) : Sid(v)' = Sid(v)
      BY <2>1 DEF Others, UsesFile, Sid, Seen
    <2>3. cpc'[t] # "opened"
      BY <1>t, <2>1 DEF ShapeOf
    <2>4. CASE pc' = pc /\ ann' = ann
      BY <1>t, <2>1, <2>2, <2>3, <2>4 DEF TracedOf, AnswerTraced, InSentence, UsesFile
    <2>5. CASE pc' = pc /\ line # Header /\ ann' = [ann EXCEPT ![t] = Append(@, line)]
      <3>1. rd[t] + 1 \in 1 .. Len(out[t]) /\ out[t] \in Seq(Words \cup {Header})
        <4>1. rd[t] \in Nat /\ wr[t] \in Nat /\ Len(out[t]) \in Nat /\ out[t] \in Seq(Words \cup {Header})
          BY LenProperties DEF TypeOK
        <4>2. QED
          BY <1>t, <2>1, <4>1 DEF ShapeOf
      <3>2. line \in Words /\ line[1] \in Seen(t)
        <4>1. line \in Words
          BY <2>5, <3>1, ElementOfSeq
        <4>2. MadeFor(out[t], Seen(t))
          BY <1>t, <2>1 DEF TracedOf
        <4>3. QED
          BY <3>1, <4>1, <4>2 DEF MadeFor
      <3> HIDE DEF line
      <3>3. ann[t] \in Seq(Words) /\ ann'[t] = Append(ann[t], line)
        BY <2>5 DEF TypeOK
      <3>4. /\ Len(ann'[t]) = Len(ann[t]) + 1 /\ Len(ann[t]) \in Nat
            /\ \A i \in 1 .. Len(ann[t]) : ann'[t][i] = ann[t][i]
            /\ ann'[t][Len(ann[t]) + 1] = line
        BY <3>2, <3>3, AppendProperties
      <3>5. MadeFor(ann[t], Seen(t))
        BY <1>t, <2>1 DEF TracedOf
      <3>6. MadeFor(ann'[t], Seen(t)')
        BY <2>2, <3>2, <3>4, <3>5 DEF MadeFor
      <3>7. QED
        BY <1>t, <2>1, <2>2, <2>3, <2>5, <3>6 DEF TracedOf, AnswerTraced, InSentence, UsesFile
    <2>6. CASE pc' = [pc EXCEPT ![t] = "reply"]
      <3>1. pc'[t] = "reply" /\ ~ UsesFile(t)' /\ ~ InSentence(t)'
        BY <2>6 DEF TypeOK, UsesFile, InSentence
      <3>2. QED
        BY <1>t, <2>1, <2>3, <3>1 DEF TracedOf, AnswerTraced
    <2>7. QED
      BY <1>6, <2>4, <2>5, <2>6 DEF ReadLine
  <1>7. CASE IOFailure(t) \/ DeleteTmp(t)
    <2>1. PICK a \in Seq(Words) : /\ NextSentence(t, a) /\ MadeFor(a, Seen(t))
                                  /\ InSentence(t) /\ pc[t] # "wait" /\ cpc' = cpc
                                  /\ met' = met /\ done' = done
      <3>1. CASE IOFailure(t)
        <4>1. <<>> \in Seq(Words) /\ MadeFor(<<>>, Seen(t))
          BY DEF MadeFor
        <4>2. QED
          BY <3>1, <4>1 DEF IOFailure, InSentence, procVars
      <3>2. CASE DeleteTmp(t)
        <4>1. ann[t] \in Seq(Words) /\ UsesFile(t)
          BY <3>2 DEF DeleteTmp, TypeOK, UsesFile
        <4>2. MadeFor(ann[t], Seen(t))
          BY <1>t, <4>1 DEF TracedOf
        <4>3. QED
          BY <3>2, <4>1, <4>2 DEF DeleteTmp, InSentence, procVars
      <3>3. QED
        BY <1>7, <3>1, <3>2
    <2>2. /\ pc'[t] \in {"open", "reply"}
          /\ pc'[t] = "open" => k'[t] = k[t] + 1
          /\ resp'[t] = Append(resp[t], a)
      BY <1>t, <2>1, NextSentenceType
    <2>3. /\ resp[t] \in Seq(Seq(Words)) /\ Len(resp[t]) = k[t] - 1 /\ AnswerTraced(t)
      BY <1>t, <2>1 DEF TracedOf, TypeOK, InSentence
    <2>4. /\ Len(resp'[t]) = k[t]
          /\ \A j \in 1 .. k[t] - 1 : resp'[t][j] = resp[t][j]
          /\ resp'[t][k[t]] = a
      BY <1>t, <2>1, <2>2, <2>3, AppendProperties
    <2>5. \A i \in 1 .. Len(a) : LET s == a[i][1] IN s = <<t, done[t] + k[t]>> \/ <<k[t], s>> \in met[t]
      <3>1. \A i \in 1 .. Len(a) : a[i] \in Words
        BY ElementOfSeq
      <3>2. QED
        BY <2>1, <3>1 DEF MadeFor, Seen, Sid
    <2>6. AnswerTraced(t)'
      <3> SUFFICES ASSUME NEW j \in 1 .. k[t], NEW i \in 1 .. Len(resp'[t][j])
                   PROVE  LET s == resp'[t][j][i][1] IN s = <<t, done[t] + j>> \/ <<j, s>> \in met[t]
        BY <2>1, <2>4 DEF AnswerTraced
      <3>1. CASE j = k[t]
        BY <2>4, <2>5, <3>1
      <3>2. CASE j # k[t]
        <4>1. j \in 1 .. k[t] - 1
          BY <1>t, <3>2
        <4>2. resp'[t][j] = resp[t][j] /\ j \in 1 .. Len(resp[t])
          BY <2>3, <2>4, <4>1
        <4>3. QED
          BY <2>3, <4>2 DEF AnswerTraced
      <3>3. QED
        BY <3>1, <3>2
    <2>7. cpc'[t] # "opened"
      BY <1>t, <2>1 DEF ShapeOf
    <2>8. QED
      BY <1>t, <2>1, <2>2, <2>4, <2>6, <2>7 DEF TracedOf, UsesFile, InSentence
  <1>8. CASE Reply(t)
    <2>1. pc'[t] = "idle" /\ cpc'[t] = "none"
      BY <1>8 DEF Reply, TypeOK
    <2>2. QED
      BY <2>1 DEF TracedOf, UsesFile, InSentence
  <1>9. CASE Process(t)
    <2>1. /\ UNCHANGED <<thrVars, fileVars, ansVars>>
          /\ cpc[t] \in {"started", "opened", "printing"}
      BY <1>9 DEF Process, ProcOpen, ProcRead, ProcWrite, ProcExit
    <2>2. pc[t] = "wait" /\ UsesFile(t) /\ InSentence(t)
      BY <1>t, <2>1 DEF ShapeOf, UsesFile, InSentence
    <2>3. Others(t)' = Others(t) /\ Seen(t)' = Seen(t) /\ \A v \in Others(t) : Sid(v)' = Sid(v)
      BY <2>1 DEF Others, UsesFile, Sid, Seen, thrVars, ansVars
    <2>4. cpc'[t] = "opened" => MadeFor(data[cfd'[t]], Seen(t))
      <3>1. CASE ProcOpen(t)
        BY <1>t, <2>2, <3>1 DEF ProcOpen, TracedOf, TypeOK
      <3>2. CASE ProcRead(t) \/ ProcWrite(t) \/ ProcExit(t)
        BY <1>t, <3>2 DEF ProcRead, ProcWrite, ProcExit, TracedOf, TypeOK
      <3>3. QED
        BY <1>9, <3>1, <3>2 DEF Process
    <2>5. MadeFor(out'[t], Seen(t))
      <3>1. CASE ProcRead(t)
        <4>1. cpc[t] = "opened" /\ out'[t] = Printed(data[cfd[t]])
          BY <3>1 DEF ProcRead, TypeOK
        <4>2. data[cfd[t]] \in Contents /\ MadeFor(data[cfd[t]], Seen(t))
          BY <1>t, <4>1 DEF TracedOf, ShapeOf, TypeOK
        <4>3. QED
          BY <4>1, <4>2, PrintedMade
      <3>2. CASE ProcOpen(t) \/ ProcWrite(t) \/ ProcExit(t)
        BY <1>t, <2>2, <3>2 DEF ProcOpen, ProcWrite, ProcExit, TracedOf
      <3>3. QED
        BY <1>9, <3>1, <3>2 DEF Process
    <2>6. QED
      BY <1>t, <2>1, <2>2, <2>3, <2>4, <2>5 DEF TracedOf, AnswerTraced, UsesFile, InSentence, thrVars,
         fileVars, ansVars
  <1>10. QED
    BY <1>1, <1>2, <1>3, <1>4, <1>5, <1>6, <1>7, <1>8, <1>9 DEF Thread

\* A step of thread t or of its process, seen by another thread u.
LEMMA TracedOther ==
  ASSUME TypeOK, Shape, Traced, NEW t \in Threads, NEW u \in Threads \ {t},
         StartRequest(t) \/ IOFailure(t) \/ Thread(t) \/ Process(t)
  PROVE  TracedOf(u)'
  <1>t. TracedOf(u) /\ ShapeOf(u) /\ (cpc[u] = "opened" => UsesFile(u))
    BY DEF Traced, Shape, ShapeOf, UsesFile
  <1>f. /\ pc'[u] = pc[u] /\ k'[u] = k[u] /\ done'[u] = done[u]
        /\ cpc'[u] = cpc[u] /\ cfd'[u] = cfd[u] /\ out'[u] = out[u]
        /\ ann'[u] = ann[u] /\ resp'[u] = resp[u]
        /\ \A v \in Threads \ {t} : pc'[v] = pc[v] /\ k'[v] = k[v] /\ done'[v] = done[v]
    <2>1. CASE StartRequest(t)
      BY <2>1 DEF StartRequest, TypeOK, fileVars, procVars
    <2>2. CASE IOFailure(t) \/ DeleteTmp(t)
      <3>1. /\ done' = done /\ cpc' = cpc /\ cfd' = cfd /\ out' = out /\ ann' = ann
            /\ \E a : NextSentence(t, a)
        BY <2>2 DEF IOFailure, DeleteTmp, procVars
      <3>2. PICK a : NextSentence(t, a)
        BY <3>1
      <3>3. resp'[u] = resp[u]
        BY <3>2 DEF NextSentence, TypeOK
      <3>4. \A v \in Threads \ {t} : pc'[v] = pc[v]
        BY <3>2 DEF NextSentence, TypeOK
      <3>5. \A v \in Threads \ {t} : k'[v] = k[v]
        BY <3>2 DEF NextSentence, TypeOK
      <3>6. QED
        BY <3>1, <3>3, <3>4, <3>5
    <2>3. CASE OpenTmp(t) \/ WriteTmp(t)
      BY <2>3 DEF OpenTmp, WriteTmp, TypeOK, procVars, ansVars
    <2>4. CASE Exec(t)
      BY <2>4 DEF Exec, TypeOK, fileVars
    <2>5. CASE WaitFor(t) \/ EndOfOutput(t)
      BY <2>5 DEF WaitFor, EndOfOutput, TypeOK, procVars, ansVars
    <2>6. CASE ReadLine(t)
      BY <2>6 DEF ReadLine, TypeOK, procVars
    <2>7. CASE Reply(t)
      BY <2>7 DEF Reply, TypeOK
    <2>8. CASE Process(t)
      BY <2>8 DEF Process, ProcOpen, ProcRead, ProcWrite, ProcExit, TypeOK, thrVars, ansVars
    <2>9. QED
      BY <2>1, <2>2, <2>3, <2>4, <2>5, <2>6, <2>7, <2>8 DEF Thread
  <1>m. met[u] \subseteq met'[u]
    BY MetGrows
  <1>s. Seen(u) \subseteq Seen(u)' /\ \A v \in Threads \ {t} : Sid(v)' = Sid(v)
    BY <1>f, <1>m DEF Sid, Seen
  <1>1. CASE OpenTmp(t)
    <2>1. InSentence(t) /\ met' = Meeting(t) /\ dir' \in Inodes /\ data' = [data EXCEPT ![dir'] = <<>>]
      <3>1. InSentence(t)
        BY <1>1 DEF OpenTmp, InSentence
      <3>2. Sid(t) \in Inodes
        BY <3>1, TextShape DEF Inodes
      <3>3. QED
        BY <1>1, <3>1, <3>2 DEF OpenTmp, TypeOK
    <2>2. data'[dir'] = <<>> /\ MadeFor(<<>>, Seen(u)')
      BY <2>1 DEF TypeOK, MadeFor
    <2>3. cpc[u] = "opened" => MadeFor(data'[cfd[u]], Seen(u)')
      <3> SUFFICES ASSUME cpc[u] = "opened" PROVE MadeFor(data'[cfd[u]], Seen(u)')
        OBVIOUS
      <3>1. MadeFor(data[cfd[u]], Seen(u)') /\ cfd[u] \in Inodes
        BY <1>t, <1>s DEF TracedOf, MadeFor, ShapeOf, TypeOK
      <3>2. data'[cfd[u]] = data[cfd[u]] \/ data'[cfd[u]] = <<>>
        BY <2>1, <3>1 DEF TypeOK
      <3>3. QED
        BY <2>2, <3>1, <3>2
    <2>4. UsesFile(u) => \A v \in Others(u)' : Sid(v)' \in Seen(u)'
      <3> SUFFICES ASSUME UsesFile(u), NEW v \in Others(u)' PROVE Sid(v)' \in Seen(u)'
        OBVIOUS
      <3>1. CASE v = t
        <4>1. Sid(t)' = Sid(t) /\ Sid(t) \in Sentences
          BY <1>1, <2>1, TextShape DEF OpenTmp, Sid
        <4>2. u \in Others(t)
          BY DEF Others
        <4>3. <<k[u], Sid(t)>> \in met'[u]
          BY <2>1, <4>2, MeetingType
        <4>4. QED
          BY <1>f, <3>1, <4>1, <4>3 DEF Seen
      <3>2. CASE v # t
        <4>1. v \in Others(u) /\ v \in Threads \ {t}
          BY <1>f, <3>2 DEF Others, UsesFile
        <4>2. QED
          BY <1>s, <1>t, <4>1 DEF TracedOf
      <3>3. QED
        BY <3>1, <3>2
    <2>5. QED
      BY <1>t, <1>f, <1>m, <2>2, <2>3, <2>4, TracedFrame
  <1>2. CASE ~ OpenTmp(t)
    <2>1. UsesFile(u) => \A v \in Others(u)' : Sid(v)' \in Seen(u)'
      <3> SUFFICES ASSUME UsesFile(u), NEW v \in Others(u)' PROVE Sid(v)' \in Seen(u)'
        OBVIOUS
      <3>1. CASE v = t
        <4>1. UsesFile(t) /\ Sid(t)' = Sid(t)
          <5>1. UsesFile(t)'
            BY <3>1 DEF Others
          <5>2. CASE StartRequest(t)
            BY <5>1, <5>2 DEF StartRequest, UsesFile, TypeOK
          <5>3. CASE IOFailure(t) \/ DeleteTmp(t)
            <6>1. \E a : NextSentence(t, a)
              BY <5>3 DEF IOFailure, DeleteTmp
            <6>2. pc'[t] \in {"open", "reply"}
              BY <6>1 DEF NextSentence, TypeOK
            <6>3. QED
              BY <5>1, <6>2 DEF UsesFile
          <5>4. CASE WriteTmp(t) \/ Exec(t) \/ WaitFor(t) \/ EndOfOutput(t)
            BY <5>4 DEF WriteTmp, Exec, WaitFor, EndOfOutput, UsesFile, Sid
          <5>5. CASE ReadLine(t)
            BY <5>5 DEF ReadLine, UsesFile, Sid
          <5>6. CASE Reply(t)
            BY <5>1, <5>6 DEF Reply, UsesFile, TypeOK
          <5>7. CASE Process(t)
            BY <5>1, <5>7 DEF Process, ProcOpen, ProcRead, ProcWrite, ProcExit, UsesFile, Sid, thrVars
          <5>8. QED
            BY <1>2, <5>2, <5>3, <5>4, <5>5, <5>6, <5>7 DEF Thread
        <4>2. QED
          BY <1>s, <1>t, <3>1, <4>1 DEF TracedOf, Others
      <3>2. CASE v # t
        <4>1. v \in Others(u) /\ v \in Threads \ {t}
          BY <1>f, <3>2 DEF Others, UsesFile
        <4>2. QED
          BY <1>s, <1>t, <4>1 DEF TracedOf
      <3>3. QED
        BY <3>1, <3>2
    <2>2. CASE WriteTmp(t)
      <3>1. /\ dir' = dir /\ pc[t] = "write" /\ InSentence(t) /\ UsesFile(t) /\ fd[t] \in Inodes
        BY <2>2 DEF WriteTmp, InSentence, UsesFile, Shape, ShapeOf, TypeOK
      <3>2. PICK c \in Overwritten(Context(Sid(t), Sentence(t)), data[fd[t]]) :
               data' = [data EXCEPT ![fd[t]] = c]
        BY <2>2 DEF WriteTmp
      <3>3. ASSUME UsesFile(u), NEW i \in Inodes, MadeFor(data[i], Seen(u))
            PROVE  MadeFor(data'[i], Seen(u)')
        <4>1. CASE i # fd[t]
          BY <1>s, <3>2, <3>3, <4>1 DEF MadeFor, TypeOK
        <4>2. CASE i = fd[t]
          <5>1. t \in Others(u)
            BY <3>1 DEF Others
          <5>2. Sid(t) \in Seen(u)
            BY <1>t, <3>3, <5>1 DEF TracedOf
          <5>3. Sid(t) \in Sentences /\ SentenceShape(Sentence(t))
            BY <3>1, TextShape
          <5>4. data[i] \in Contents /\ data'[i] = c
            BY <3>2, <4>2 DEF TypeOK
          <5>5. MadeFor(c, Seen(u))
            BY <3>3, <4>2, <5>2, <5>3, <5>4, OverwrittenMade
          <5>6. QED
            BY <1>s, <5>4, <5>5 DEF MadeFor
        <4>3. QED
          BY <4>1, <4>2
      <3>4. UsesFile(u) /\ dir' # NoFile => MadeFor(data'[dir'], Seen(u)')
        BY <1>t, <3>1, <3>3 DEF TracedOf, TypeOK
      <3>5. cpc[u] = "opened" => MadeFor(data'[cfd[u]], Seen(u)')
        BY <1>t, <3>3 DEF TracedOf, ShapeOf, TypeOK
      <3>6. QED
        BY <1>t, <1>f, <1>m, <2>1, <3>4, <3>5, TracedFrame
    <2>3. CASE ~ WriteTmp(t)
      <3>1. data' = data /\ (dir' = dir \/ dir' = NoFile)
        BY <1>2, <2>3 DEF Thread, StartRequest, IOFailure, Exec, WaitFor, ReadLine, EndOfOutput, DeleteTmp,
           Reply, Process, ProcOpen, ProcRead, ProcWrite, ProcExit, fileVars
      <3>2. UsesFile(u) /\ dir' # NoFile => MadeFor(data'[dir'], Seen(u)')
        BY <1>s, <1>t, <3>1 DEF TracedOf, MadeFor
      <3>3. cpc[u] = "opened" => MadeFor(data'[cfd[u]], Seen(u)')
        BY <1>s, <1>t, <3>1 DEF TracedOf, MadeFor
      <3>4. QED
        BY <1>t, <1>f, <1>m, <2>1, <3>2, <3>3, TracedFrame
    <2>4. QED
      BY <2>2, <2>3
  <1>3. QED
    BY <1>1, <1>2

\* Sentence j of an answer is annotated with what was made for it, or for a
\* sentence whose thread used tmp.txt while this request used it for j, for
\* any number of threads and whatever files and processes leave behind.
THEOREM AnnotationsMet == Spec => []AnnotationsOfMet
  <1>1. Init => Traced
    <2> SUFFICES ASSUME Init, NEW t \in Threads PROVE TracedOf(t)
      BY DEF Traced
    <2>1. pc[t] = "idle" /\ cpc[t] = "none"
      BY DEF Init
    <2>2. QED
      BY <2>1 DEF TracedOf, UsesFile, InSentence
  <1>2. IInv /\ Traced /\ [Next]_vars => Traced'
    <2> SUFFICES ASSUME TypeOK, Shape, Traced, [Next]_vars PROVE Traced'
      BY DEF IInv
    <2>1. CASE UNCHANGED vars
      BY <2>1 DEF Traced, TracedOf, AnswerTraced, UsesFile, InSentence, Others, Seen, Sid, vars, thrVars,
         fileVars, procVars, ansVars
    <2>2. ASSUME NEW t \in Threads, StartRequest(t) \/ IOFailure(t) \/ Thread(t) \/ Process(t)
          PROVE  Traced'
      BY <2>2, TracedSelf, TracedOther DEF Traced
    <2>3. QED
      BY <2>1, <2>2 DEF Next
  <1>3. Traced => AnnotationsOfMet
    BY DEF Traced, TracedOf, AnswerTraced, AnnotationsOfMet
  <1>4. QED
    BY <1>1, <1>2, <1>3, Invariance, PTL DEF Spec

=============================================================================
