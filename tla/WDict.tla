-------------------------------- MODULE WDict --------------------------------
(***************************************************************************)
(* The dictionary (wdict.cc): read from text over a cache of headwords,    *)
(* changed by the alternate file of the daemon, written as an image by     *)
(* compile_kb and read from it, asked for the concepts of a word with a    *)
(* part of speech and for the words of a concept.                          *)
(*                                                                         *)
(* A line is a headword and entries [c, w]: a concept that the knowledge   *)
(* base may have or not, and a weight.  The inverse dictionary and the     *)
(* variants are made for the first question, after which nothing changes   *)
(* the dictionary: they are operators here.                                *)
(***************************************************************************)
EXTENDS Integers, Sequences, SequencesExt, FiniteSets, FiniteSetsExt

CONSTANTS Names,       \* the concepts of the knowledge base, by their numbers
          Pos,         \* function from concepts to parts of speech, "#" for none
          PosOrder,    \* the parts of speech in their order
          Setups,      \* files: text, the dictionary, and alt, the alternate one;
                       \* opt: prog, "compile", "wsd" or "walk", pos, strict, weight, smooth
          Loaders,     \* options of the programs that read an image
          Noise,       \* headwords that memory may happen to spell, true ones or not
          Garbage      \* what memory held; an item of which a part was not read

Concepts == ToSet(Names)

\* A file is a sequence of lines.
IsFile(f) ==
  f \in Seq(ToSet(f)) /\ \A l \in ToSet(f) : l.cs \in Seq([c : DOMAIN Pos, w : Int])

IsOptions(o) ==
  o.pos \in BOOLEAN /\ o.strict \in BOOLEAN /\ o.weight \in BOOLEAN /\ o.smooth \in Int

\* Of these options compile_kb has --nopos alone.
ASSUME WDictAssumption ==
  /\ Names \in Seq(Concepts) /\ IsInjective(Names) /\ Concepts \subseteq DOMAIN Pos
  /\ PosOrder \in Seq(ToSet(PosOrder)) /\ IsInjective(PosOrder)
  /\ \A c \in DOMAIN Pos : Pos[c] \in ToSet(PosOrder)
  /\ \A s \in Setups :
       /\ IsFile(s.files.text) /\ IsFile(s.files.alt) /\ IsOptions(s.opt)
       /\ s.opt.prog = "walk" => ~ s.opt.pos
       /\ s.opt.prog = "compile" => s.opt.weight /\ s.opt.smooth = 1 /\ ~ s.opt.strict
  /\ \A o \in Loaders : IsOptions(o) /\ o.prog = "wsd"

VARIABLES
  stage,   \* "text", "alt", "ready", "disk", "failed"; others belong to Walk
  files, opt,
  line,
  cache,   \* concept_cache: from headwords to items [c, w], and N of the pass
  heads,
  dict,    \* m_wdict: items, and ranges of them by part of speech
  size,    \* m_N
  altDone, \* the alternate file has been read
  cut, written \* the image ends early; history: what has been written

dictVars == <<files, opt, line, cache, heads, dict, size, altDone, cut, written>>

NoDict == [h \in {} |-> <<>>]

DictInit ==
  /\ stage = "text"
  /\ \E s \in Setups : files = s.files /\ opt = s.opt
  /\ line = 1 /\ cache = NoDict /\ heads = 0
  /\ dict = NoDict /\ size = 0
  /\ altDone = FALSE /\ cut = FALSE /\ written = NoDict

-----------------------------------------------------------------------------
(* read_dictfile_1pass.                                                    *)

Lines == IF stage = "alt" THEN files.alt ELSE files.text

\* parse_concept, without weights all are one.
Count(e) == IF opt.weight THEN e.w + opt.smooth ELSE 1
Wrong(e) == e.c \notin Concepts \/ Count(e) = 0
PosOf(c) == IF opt.pos THEN Pos[c] ELSE "#"

Reading == stage \in {"text", "alt"} /\ line <= Len(Lines)

\* fill_concepts: concepts that the headword does not have yet.
Add(items, e) ==
  IF Wrong(e) \/ \E i \in DOMAIN items : items[i].c = e.c THEN items
  ELSE Append(items, [c |-> e.c, w |-> Count(e)])

\* Mutant: a wrong concept ends the line.
NewItemsUpTo(known, cs) ==
  FoldLeft(Add, known,
           SubSeq(cs, 1, Min({i \in 1 .. Len(cs) : Wrong(cs[i])} \cup {Len(cs)})))

NewItems(known, cs) == FoldLeft(Add, known, cs)

\* Mutant: a headword that is taken out was not counted.
ReadLineUncounted ==
  /\ Reading
  /\ LET l     == Lines[line]
         known == IF l.word \in DOMAIN cache THEN cache[l.word] ELSE <<>>
         items == NewItems(known, l.cs)
     IN /\ l.cs # <<>>
        /\ opt.strict => \A i \in DOMAIN l.cs : ~ Wrong(l.cs[i])
        /\ IF items = <<>> THEN heads' = heads - 1 /\ UNCHANGED cache
           ELSE /\ cache' = [h \in DOMAIN cache \cup {l.word} |->
                               IF h = l.word THEN items ELSE cache[h]]
                /\ heads' = IF l.word \in DOMAIN cache THEN heads ELSE heads + 1
  /\ line' = line + 1
  /\ UNCHANGED <<stage, files, opt, dict, size, altDone, cut, written>>

\* A headword without any concept is taken out again.
ReadLine ==
  /\ Reading
  /\ LET l     == Lines[line]
         known == IF l.word \in DOMAIN cache THEN cache[l.word] ELSE <<>>
         items == NewItems(known, l.cs)
     IN /\ l.cs # <<>>
        /\ opt.strict => \A i \in DOMAIN l.cs : ~ Wrong(l.cs[i])
        /\ IF items = <<>> THEN UNCHANGED <<cache, heads>>
           ELSE /\ cache' = [h \in DOMAIN cache \cup {l.word} |->
                               IF h = l.word THEN items ELSE cache[h]]
                /\ heads' = IF l.word \in DOMAIN cache THEN heads ELSE heads + 1
  /\ line' = line + 1
  /\ UNCHANGED <<stage, files, opt, dict, size, altDone, cut, written>>

\* A headword alone, or a wrong concept if dict_strict is given.
BadLine ==
  /\ Reading
  /\ \/ Lines[line].cs = <<>>
     \/ opt.strict /\ \E i \in DOMAIN Lines[line].cs : Wrong(Lines[line].cs[i])
  /\ stage' = IF opt.strict THEN "failed" ELSE stage
  /\ line' = line + 1
  /\ UNCHANGED <<files, opt, cache, heads, dict, size, altDone, cut, written>>

-----------------------------------------------------------------------------
(* fill_wdict_hw.                                                          *)

Order(c) == CHOOSE i \in DOMAIN PosOrder : PosOrder[i] = PosOf(c)

\* sort is not stable: any order that goes by the parts of speech.
SortedItems(items) ==
  {s \in SetToSeqs(ToSet(items)) :
     \A i, j \in DOMAIN s : i < j => Order(s[i].c) <= Order(s[j].c)}

\* A range for every run of one part of speech.
Ranges(s) ==
  LET same(i, j) == PosOf(s[i].c) = PosOf(s[j].c)
      runs == {r \in (DOMAIN s) \X (DOMAIN s) :
                 /\ r[1] <= r[2] /\ \A k \in r[1] .. r[2] : same(r[1], k)
                 /\ r[1] > 1 => ~ same(r[1], r[1] - 1)
                 /\ r[2] < Len(s) => ~ same(r[2], r[2] + 1)}
  IN {[pos |-> PosOf(s[r[1]].c), left |-> r[1], right |-> r[2]] : r \in runs}

Filled ==
  {f \in [DOMAIN cache -> UNION {SortedItems(cache[h]) : h \in DOMAIN cache}] :
     \A h \in DOMAIN cache : f[h] \in SortedItems(cache[h])}
Rhs(s) == [items |-> s, ranges |-> Ranges(s)]

ReadAll == line > Len(Lines)

EndText ==
  /\ stage = "text" /\ ReadAll
  /\ IF heads = 0 THEN stage' = "failed" /\ UNCHANGED <<dict, size>>
     ELSE /\ stage' = "ready"
          /\ size' = heads
          /\ \E f \in Filled : dict' = [h \in DOMAIN f |-> Rhs(f[h])]
  /\ UNCHANGED <<files, opt, line, cache, heads, altDone, cut, written>>

\* ukb_wsd and ukb_ppv read it (load_kb_and_dict).
StartAlt ==
  /\ stage = "ready" /\ opt.prog = "wsd" /\ ~ altDone
  /\ stage' = "alt" /\ altDone' = TRUE
  /\ line' = 1 /\ cache' = NoDict /\ heads' = 0
  /\ UNCHANGED <<files, opt, dict, size, cut, written>>

\* The concepts of a headword that is there are replaced.
EndAlt ==
  /\ stage = "alt" /\ ReadAll
  /\ \E f \in Filled :
       dict' = [h \in DOMAIN dict \cup DOMAIN f |-> IF h \in DOMAIN f THEN Rhs(f[h]) ELSE dict[h]]
  /\ size' = size + Cardinality(DOMAIN cache \ DOMAIN dict)
  /\ stage' = "ready"
  /\ UNCHANGED <<files, opt, line, cache, heads, altDone, cut, written>>

-----------------------------------------------------------------------------
(* The image.                                                              *)

\* write_dict_to_stream, of compile_kb; whether all of it reaches the disk is not looked at.
WriteDict ==
  /\ stage = "ready" /\ opt.prog = "compile"
  /\ written' = dict
  /\ cut' \in BOOLEAN
  /\ stage' = "disk"
  /\ UNCHANGED <<files, opt, line, cache, heads, dict, size, altDone>>

NoEntry == [items |-> <<>>, ranges |-> {}]

\* What is read of an entry in which the image ends: numbers of items and ranges are
\* looked at, what follows them is not.
Torn(rhs) ==
  {NoEntry}
  \cup {[items |-> [i \in DOMAIN rhs.items |-> IF i <= k THEN rhs.items[i] ELSE Garbage],
         ranges |-> {}] : k \in 0 .. Len(rhs.items)}
  \cup {[rhs EXCEPT !.ranges = rs \cup {Garbage}] : rs \in SUBSET rhs.ranges}

\* Where headwords cannot be read any more, a length that was never set is the length of
\* whatever memory holds: such a name is inserted, without concepts, unless it is there.
Insert(known, garbled) ==
  [h \in DOMAIN known \cup garbled |-> IF h \in DOMAIN known THEN known[h] ELSE NoEntry]

\* read_dict_from_stream, by another program: as many entries as m_N says, in the order of
\* a hash table; of m_N itself low bytes may be read.
LoadDict ==
  /\ stage = "disk"
  /\ opt' \in Loaders
  /\ \/ cut /\ dict' = NoDict /\ size' \in 0 .. size
     \/ \E whole \in SUBSET DOMAIN dict :
          /\ size' = size
          /\ IF cut
               THEN /\ Cardinality(whole) < size
                    /\ \E garbled \in SUBSET Noise :
                         \/ dict' = Insert([h \in whole |-> dict[h]], garbled)
                         \/ \E t \in DOMAIN dict \ whole : \E torn \in Torn(dict[t]) :
                              dict' = Insert([h \in whole \cup {t} |-> IF h = t THEN torn ELSE dict[h]],
                                             garbled)
                    /\ Cardinality(DOMAIN dict') <= size
               ELSE Cardinality(whole) = size /\ dict' = [h \in whole |-> dict[h]]
  /\ stage' = "ready"
  /\ UNCHANGED <<files, line, cache, heads, altDone, cut, written>>

\* That length may also be more than memory has, and an image may end before its number.
LoadDictThrows ==
  /\ stage = "disk" /\ cut
  /\ stage' = "failed"
  /\ UNCHANGED dictVars

DictNext ==
  \/ ReadLine \/ BadLine \/ EndText
  \/ StartAlt \/ EndAlt
  \/ WriteDict \/ LoadDict \/ LoadDictThrows

-----------------------------------------------------------------------------
(* Questions.                                                              *)

\* get_entries: all, or the first range of the part of speech.
Entries(h, pos) ==
  IF h \notin DOMAIN dict THEN <<>>
  ELSE IF pos = "#" THEN dict[h].items
  ELSE LET rs == {r \in dict[h].ranges : r.pos = pos} IN
       IF rs = {} THEN <<>>
       ELSE LET r == CHOOSE r \in rs : \A x \in rs : r.left <= x.left
            IN SubSeq(dict[h].items, r.left, r.right)

\* create_inverse_dict: the words of a concept with the weights that its probabilities
\* are made of.
WordsOf(c) ==
  UNION {{[word |-> h, w |-> i.w] : i \in {i \in ToSet(dict[h].items) : i.c = c}} :
         h \in DOMAIN dict}

\* concept_priors: how often a concept is used.
Prior(c) == MapThenSumSet(LAMBDA x : IF opt.weight THEN x.w ELSE 1, WordsOf(c))

-----------------------------------------------------------------------------
(* Properties.                                                             *)

\* What a file says of a headword: the concepts that are not wrong, each with the weight
\* of its first occurrence.
Meant(file, h) ==
  LET said  == FlattenSeq([i \in DOMAIN file |-> IF file[i].word = h THEN file[i].cs ELSE <<>>])
      right == {i \in DOMAIN said : ~ Wrong(said[i])}
  IN {[c |-> said[i].c, w |-> Count(said[i])] :
        i \in {i \in right : \A j \in right : j < i => said[j].c # said[i].c}}

Headwords(file) == {h \in {file[i].word : i \in DOMAIN file} : Meant(file, h) # {}}

\* A question is answered by the concepts of M that have the part of speech, each once, and
\* one without a part of speech, as the code takes it, by all of them.
Answers(h, M) ==
  \A pos \in ToSet(PosOrder) :
    /\ ToSet(Entries(h, pos)) = {i \in M : pos = "#" \/ PosOf(i.c) = pos}
    /\ IsInjective(Entries(h, pos))

\* The dictionary is what its files say, over all lines of a headword and whichever of them
\* are wrong: the alternate file decides, with the options of the program that reads it,
\* about the headwords that it has concepts for, and the others are as in the text or, for
\* a program with other options, as compile_kb had them when it wrote the image.  The
\* number of headwords is right, without which an image would be cut off.
DictIsFiles ==
  stage = "ready" /\ ~ cut =>
    LET alts  == IF altDone THEN Headwords(files.alt) ELSE {}
        known == IF written = NoDict THEN Headwords(files.text) ELSE DOMAIN written
    IN /\ DOMAIN dict = known \cup alts
       /\ size = Cardinality(DOMAIN dict)
       /\ \A h \in DOMAIN dict :
            IF h \in alts THEN Answers(h, Meant(files.alt, h))
            ELSE IF written = NoDict THEN Answers(h, Meant(files.text, h))
            ELSE dict[h] = written[h]

\* A dictionary read from its image is the one that was written.  When the image ends
\* early, which nothing in it tells, headwords may be missing, there without concepts, or
\* made up, but there are not more than were written, no concept comes under a headword
\* that it was not written for, and of the entries that have any, one may not be whole.
ImageKeeps ==
  stage = "ready" /\ written # NoDict /\ ~ altDone =>
    IF ~ cut THEN dict = written
    ELSE LET kept(h) == h \in DOMAIN written /\ dict[h] = written[h] IN
         /\ Cardinality(DOMAIN dict) <= Cardinality(DOMAIN written)
         /\ Cardinality({h \in DOMAIN dict : dict[h].items # <<>> /\ ~ kept(h)}) <= 1
         /\ \A h \in DOMAIN dict :
              IF h \in DOMAIN written
                THEN ToSet(dict[h].items) \subseteq ToSet(written[h].items) \cup {Garbage}
                ELSE dict[h].items = <<>>

=============================================================================
