# lgu-commons: models and proofs

lgu-commons is a set of Java libraries around text and linked data, with a bundled copy of UKB 3.2, a
C++ program for word sense disambiguation. This directory holds TLA+ modules that model its stateful
parts, configurations for TLC, and proofs for TLAPS. Paths below are relative to `src/`; `ukb/` stands
for `lgu.commons.nlp/ukb-3.2/src/`.

```
tlc -workers 2 -config MCCtxParser.cfg MCCtxParser      # check a run of PROJECT.json
tlapm CtxParserProofs.tla                               # check the proofs of a module
```

## 1. Inventory

| Component | State it keeps | Operations | Modelled by |
|---|---|---|---|
| Disambiguation requests: `nlp/wsd/UKB.java`, endpoints of `lgu.commons.server` | one UKB object for all threads, the *name* `tmp.txt`, one process and its pipes per sentence | `disambiguate`: write the file, exec, waitFor, read, delete | `WsdService` |
| Context parser: `ukb/csentence.cc` | unique words, tokens, the weight, an open nopv word with its concepts | `push_ctx`, `push_cw`, `set_concepts`, `link_dict_concepts` | `CtxParser` |
| Start of the daemon: `ukb/ukbServer.cc` `start_daemon` | three processes, a pipe with its write ends, a listening socket, pending signals | bind, two forks, load, report, serve, exit status | `DaemonStart` |
| UKB daemon: `ukb/ukbServer.cc`, `handle_server_read` and `client` of `ukb/ukb_wsd.cc` | the session that is served, the backlog, a signal; a client's position in its input | accept, command line, contexts and answers, `--shutdown`, errors | `UkbDaemon` |
| String protocol: `sRead`, `sWrite` of `ukb/ukbServer.cc` | a buffer, the phase of a read | `write_string`, `read_string` | `SocketProtocol`, with `StringChannel` as what it promises |
| Ranking and output: `ukb/ukb_wsd.cc` 85-253, `csentence.cc`, `disambGraph.cc` | one vector of ranks, ranks and synsets of the words, which are disambiguated | five methods, four ranks of subgraphs, `print_csent` | `Ranking` |
| PageRank: `ukb/prank.h`, `kbGraph.cc`, `disambGraph.cc` | two vectors, the residual, iterations left, options | `do_pageRank`, `update_pRank`, `set_pr_convergence` | `PageRank` |
| Knowledge base: `ukb/kbGraph.cc`, `kbGraph_common.cc`, `kbGraph_v16.cc`, `compile_kb.cc`, `convert2.0.cc` | graph in rows and columns, names, relation types, sources; the image of all that | read relations, convert an old graph, write and read the image, dump as text; breadth first search, subgraph, paths, queries | `KbStore`, `KbSearch` |
| Dictionary: `ukb/wdict.cc` | headwords with concepts, ranges by part of speech, their number | read, alternate file, image, look up | `WDict` |
| Disambiguation graph: `ukb/disambGraph.cc`, `dfsa.h` | subgraph of a context, parents, one counter of depth | three ways to build it | `DisambGraph` over `KbSearch` |
| Random walks: `ukb/walkandprint.cc`, `ukb_walkandprint.cc` | intervals of a sampler, counters of contexts and rounds, the walk | draw a start, a next vertex, a word | `Walk` over `WDict` |
| `ukb/ukb_ppv.cc` | as the daemon | a second client and server | not modelled |
| Text model, word frequency: `nlp/model`, `nlp/wfd` | annotations of a word in a hash set | best annotation | not modelled |
| Tables: `lgu.commons.tables` | a row of look-ahead | `hasNext`, `next` | not modelled |
| RDF streams, data sets, paging: `lgu.commons.semanticweb` | open streams, an offset | iterate, close, next page | not modelled |
| `ProgressCounter`, `BitMask`, RDF helpers, files and compression, triplifier | little or none | - | not modelled; see PROJECT.json |

How they interact. `compile_kb` makes a graph of relations, or `convert2.0` of an old one (`KbStore`), and
writes an image that the other programs load; `compile_kb` also answers questions about it (`KbSearch`). A
request of the HTTP server calls the one UKB object; that runs `ukb_wsd` as a process per sentence, with a
file as its input and a pipe as its output (`WsdService`). `ukb_wsd` looks up words in the dictionary
(`WDict`), parses the context (`CtxParser`), may build a subgraph of it (`DisambGraph`), ranks its words
(`Ranking`, which calls `PageRank`) and prints those that it has disambiguated. The same program can run as
a daemon (`DaemonStart`, then `UkbDaemon`) that gets its contexts from clients as strings
(`SocketProtocol`); the Java side does not use it. `ukb_walkandprint` makes artificial contexts of walks
through graph and dictionary (`Walk`).

What is hard here:

- *Shared names.* The requests share a file name, and each of open, write, exec, the open of the
  process, its read and the delete is a step of its own that another request can come between.
- *Processes.* A parent that waits before it reads; a pipe with three potential writers; signals between
  any two steps; clients that are killed within a string.
- *Exceptions that a handler itself throws*, handlers that go on with the loop after one, and lines of which
  one half has been done when one is thrown.
- *State carried from one item to the next*: the concepts of a nopv word, the vector of ranks, the two
  vectors of PageRank that change places, parents and depth of a search, the count of headwords.
- *Strings over a stream*, cut anywhere, and *images* cut anywhere by a full disk, which no writer looks at.
- *Totals kept apart from what they add up*, in the draws of a walk.

What makes each part correct is the list of properties in section 3; `hazards` of PROJECT.json names the
line for each of them.

## 2. Modules and how they follow the code

The `map` of PROJECT.json names the source lines of every definition. The conventions: one action per
step between which something else can happen, that is per system call in `WsdService`, `DaemonStart` and
`UkbDaemon`, per packet in `SocketProtocol`, per round of a loop (a token, a word, an iteration, a line, an
edge, a vertex of a walk) in the programs of one thread. Definitions whose comment begins with "Mutant:"
are altered forms of the definition they precede; no specification uses them.

**WsdService.** A thread is at `open`, `write`, `exec`, `wait`, `read`, `delete` or `reply` of
`UKB.disambiguate`, its process at `started`, `opened`, `printing` or `exited`. A directory entry names
an inode; inodes outlive the entry while somebody has them open, and `open` truncates, which is what lets
two requests read each other's contexts. `IOFailure` is the catch of `IOException`: the sentence is
skipped, and what was written remains. A token is the sentence it came from and the number ukb_wsd hands
back. `met` is a history variable: the sentences that a request had in the file together with another. The
reader sees the end of the output when the process has exited, not when the pipe is empty.

**CtxParser.** `pc` says which half of the loop body of `push_ctx` comes next: `next` reads a token,
`flush` closes the open nopv word if the token is not a concept of it, `token` handles the token. Actions
are the branches: `Attach` (a concept for the open word), `FlushEmpty`, `FlushWord`, `FlushClash`,
`OpenNopv`, `SkipWord`, `PushWord`, `WordThrows`, `Malformed`, and the `End...` actions for a nopv word
open at the end. Tokens are chosen when they are read, so that a behaviour is a context. `follow` is a
history variable, the concepts that really followed a nopv token. The dictionary has weights, which may be
negative (nothing checks them), so that the sum over the links of a word can be zero with links there:
`Resolvable` and `HasWeight` are the refusals of such words.

**DaemonStart.** Parent, child and daemon of every start have a program counter; `writers` says which of
them has the write end of the pipe. The listening socket is not a variable: it is there while one of the
processes that inherited it is (`Listening`). The buffer the parent compares is uninitialised when the
pipe ends without a message, so `ReadPipe` then chooses either status. A message to a pipe that nobody can
read any more (`Readable`) raises SIGPIPE, which ends its writer.

**UkbDaemon.** The daemon accepts and serves one session in the accept handler; `dpc` is the statement of
`handle_server_read`, `cpc` that of `client`. A connection is a queue of strings each way plus what TCP
shows of a closed end: reads return false, writes are lost or throw. `Cut` is a string whose sender was
killed within it. `Catch` is the exception handler with its own send. A context of kind `"overrun"` is
malformed in the one way that makes the parser's loop step past the last word, which may end the daemon.

**SocketProtocol** has bytes: a string is one byte with the number of digits, the digits, the bytes.
`Transfer` and `ReadPacket` move any number of bytes; `Consume` is `read_nstring`. **StringChannel** is
the channel that sessions are written against: whole strings in order, then "false" or an exception
depending on whether the sender was cut off. `SocketProtocol` implements it with the queue of strings
sent and not yet received, and the string in hand as its `part`. `UkbDaemon` takes the channel's three
outcomes of a receive.

**Ranking.** A vector is its provenance, the computation that filled it and the words that personalised
it, so that the question of the module can be asked: is the vector in the variable the one this word
should be ranked by? `dispatch_run_cs` and the functions it calls are the actions up to a loop; the four
loops over unique words are `KbWord`, `KbW2wWord`, `DgraphWord`, `DgraphW2wWord`. `Garbage` is what
`rank_synsets` reads when positions and synsets no longer agree or the vector is empty. What the two
searches put into a subgraph is any set they could (all synsets for breadth first; none or at least two
for depth first). Words have the flag of nopv words: `AllBut` is the vector of a word as the code makes it,
of the words that the documents let into it (`Documented`) and the nopv words that they do not (section 5);
`IsLeftover` is the vector that a word without a place for its own finds in the variable.

**PageRank.** `rankMap1` and `rankMap2` are `rank_map1` and `rank_map2`, `toMap2` says which is written.
Ranks are integers in units of 1/Unit. `Denominator` is a multiple of what one iteration divides by (the
damping with the weights out of a vertex, or with the unit of the personalisation vector), and `Unit` one of
as many powers of it as there can be iterations (`UnitAssumption`), so that nothing is rounded, which
`Exact`, a part of `MassKept`, says. `KbPpv`, `KbStatic`,
`DgraphPpv` and `DgraphStatic` are the callers, which differ in the number of vertices they pass and in the
personalisation vector.

**KbStore.** A graph is a set of names and a function from pairs of names to weight and types; the
numbering of vertices is left out, since the code gets at them by name until the graph is in rows. `pre`
is `precsr_t`, `kb` the `Kb`. The reader takes a line per action: `Skip`, `Relate` (both directions in one
step, as nothing comes between), `Malformed`, and `Overflow`, which is thrown when one edge has been
inserted and the other has not. The converter takes an edge per action. Relation types are bits:
`Shifted` is the shift that is undefined at the width. An image is what was written together with `cut`,
the part at which the disk was full: `Load` compares what the code compares, and only the first identifier
and two assertions can notice. `DumpText` writes the loaded graph as text and hands it to the reader again;
`origin` is a history variable, the pairs it has written.

**KbSearch.** Boost's breadth first search is part of the model, edge by edge, because the visitors depend
on the order of its events: `Discover` sets a parent, `TreeEdge` and `NonTreeEdge` fill a subgraph, and
`Terminate` is the exception that ends it in the middle of a row. The commands of `compile_kb` are
`ShowNeighbours`, `ShowPath`, `SPaths` and `SubG`; `NextTarget`, `WalkUp` and `PathDone` are the loops that
follow the parents.

**DisambGraph** EXTENDS it with the three ways to build a subgraph of a context. The breadth first one runs
`KbSearch`'s search from every sense (`NextSource`) and adds the shortest paths to senses of later words
(`FillPath`). The depth first ones have a stack; `depth` is the member `m_d` that all searches share, and
`OutEdges` gives no edges at the limit. Weights are in units of 1/Unit.

**WDict.** Lines go into `cache`, where a headword may have several lines, and `heads` counts them as the
code does, apart from the map; `fill_wdict_hw` moves the cache to `dict` in any order that the unstable
sort may give. The alternate file of the daemon replaces headwords. The image is written by `compile_kb`,
which has `--nopos` only of the options of a dictionary, and read by a program with options of its own
(`Loaders`): to a count, in any order of a hash table. An entry that is cut in two is `Torn`; behind it
headwords are what memory happens to spell (`Noise`), and are inserted without concepts.

**Walk** EXTENDS it with `ukb_walkandprint`. A draw takes every outcome that the random number may lead to:
`Share` is what an outcome owns of the interval up to a total that the code computes apart from the weights
(`EdgeTotal`, `WordTotal`); edges weigh one, as no option of the program switches their weights on. `Buckets`
and `ComponentIntervals` are the samplers: ranks are parts of `RankOne` and need not add up to it, except
those of `prior`, which the code divides by their sum. `NextContext` are the walkers, `Emit`, `Move` and
`EndContext` one walk. `starts` is a history variable, the walks begun at each vertex.

The `MC...` modules only give values to constants.

## 3. What the runs check

Bounds are in the cfg files. "Pass" runs hold; "violation" runs show a disagreement of code and
documentation, see section 5.

| Run | Question | Bounds, and why they are enough |
|---|---|---|
| `wsd` | Do requests that share the file with nobody get exactly their answers, and are the others answered? | two threads, a text of two sentences (the second gets a left-over of the first), a pipe of two lines. Two threads suffice for every race on one name; the two invariants are proved for any number. |
| `wsd_shared` (violation) | Do identifiers always belong to the sentence in hand? | the same |
| `ctx` | Is what the parser accepts fit for ranking and output? Do concepts with weight stay with their word? | all contexts of up to four tokens over three lemmas, three concepts (one outside the graph) and weights 0 and 1; one lemma with entries of two weights, one with entries that add up to zero, one without entries. The carry-over between tokens reaches over a nopv word, its concepts and the next word: three tokens; a clash needs a fourth. |
| `daemon` | Are answers those of the contexts they are taken for? What brings the daemon down? Does everybody return? | two clients, inputs of none to two contexts with every mixture of answer, no answer, error, overrun and missing context |
| `daemon_alive` (violation) | Does the daemon survive every error of a context? | the same |
| `start` | Do exit status, daemon and socket agree? Does the start return, and are early clients and early signals served? | two starts on one port, two clients, every step may fail |
| `socket` | Do the ends implement the channel of strings? | numbers to the base 3, strings of one to four bytes, so that a size has one or two digits; a network and a buffer smaller than two strings; packets of any length |
| `rank` | Is every word ranked by the computation its method promises, and none passed over? | contexts of none to three words, targets or not, nopv or not, weight zero or not, one repeated; every method, every subgraph |
| `prank` | Is the result that of the power method, is mass kept, does the loop stop as documented? | all 64 directed graphs of three vertices and those of weight two, damping 1/2, up to four iterations (six is the counter's end), two calls with one vector |
| `kb` | Is the graph what its sources mean? What does a cut image leave? Does the text dump lead back? | files of up to three of nine kinds of lines (enough for two relations about one pair and a third type), masks of two bits, so that the third type is one too many; every command line; 18 old graphs, half of them with one name twice, in every mixture of identifiers; images cut in or before each part |
| `search` | Are paths shortest, subgraphs the nearest vertices, and subgraphs of contexts joined as they should be? | all 64 graphs of three vertices beside one that has no edges, and six of four vertices (short cut, diamond, circle, chain, star, loop); limits from none to all; contexts of none to three words with senses in common; depths 1, 2 and 4, the last of which no path exceeds |
| `walk` | Is the dictionary what its files say? Do samplers and draws go by weight, do walks begin where they should? | dictionaries of up to two of seven kinds of lines (a headword twice, concepts outside the graph, weight zero, no concept at all) and of three with a base of two; alternate files of up to two; images with and without `--nopos`, whole or cut, for two kinds of readers and memory that spells a true headword or another; three vertices, one dangling and one component of two; ranks that add up to one or, two of them, to less; none to three buckets; contexts of two vertices, one and two rounds |

The properties, by what they are for:

- *Isolation.* `AloneIsFaithful`, `AnnotationsOfMet` (requests); `OwnWeight` (concepts of nopv words);
  `OwnRanks` (vectors of ranks); `AnswersAligned` (answers of the daemon); `OneDaemon` (ports).
- *Agreement of two records of the same thing.* `TokensAgree` (unique words against tokens, and their
  order), `ExitStatusTrue` (exit status against daemon), `CompleteOrBroken` (return value against answers),
  `StopPolicy` (iterations made against the options), `RelationsKept` and `DictIsFiles` (what is built line
  by line against what the lines mean together), `ConversionKeeps`, `DumpKeepsEdges`, `ImageKeeps`.
- *The result is the one it is named for.* `IsPowerMethod`, `MassKept`, `PathsAreShortest`,
  `SubgraphIsNearest`, `BfsJoinsSenses`, `DfsJoinsSenses`, `SamplerDivides`, `DrawsByWeight`.
- *Nothing undefined is used.* `Divisible` (divisors), `AnswersHaveReason` (no answer from ranks that were
  never set).
- *Failure is contained.* `DiesKilledOrOverrun`, `CutRefused`.
- *Progress.* `AnsweredUnlessPipeFull`, `StopHonoured`, `ClientsReturn`, `StartReturns`,
  `ConnectedEarly`, `SignalNotLost`, `Delivered`, `QueriesEnd`, `DeepWalkEnds`; `AllRanked` says that no
  word is passed over and `Contracts` that a threshold alone ends PageRank.
- *Refinement.* `ImplementsChannel`: `SocketProtocol` implements `StringChannel`.

Some of these are narrower than one would wish, since that is all the code gives. `CutRefused` says
nothing of an image cut behind its columns. `ImageKeeps` says what a dictionary from a cut image still is:
not larger, no concept under a headword that did not have it, one garbled entry at most that has any.
`OwnRanks` says exactly which vector ranks a word, the left-over one of a word before included.
`DiesKilledOrOverrun` has the overrun of the parser among what may end the daemon. `RelationsKept` says which
line loses one of its two edges. `SamplerDivides` and `DrawsByWeight` name the cases that are undefined or
off their weights; `QueriesEnd` is about `show` only where there is a path. Section 5 lists what lies outside.

Each property has a mutant, a plausible mistake in the code under which TLC finds it violated.

**Fairness.** Only what the system schedules is fair: the steps of running threads and processes
(`WF` of `Thread`, `Process`, `Daemon`, `Client`, `Parent`, `Child`), delivery of bytes by TCP, the reset
of connections of a socket that has gone, and the next step of a program of one thread that has something
to do (`DgStep` and `Step` of the searches, `WalkStep`). Nobody has to send a request or a command,
connect, be killed, raise a signal or meet an I/O error. `Ranking`, `CtxParser`, `PageRank` and `KbStore`
state no fairness, since each is one loop of one process whose rounds are counted.

**Deadlock** is not checked in these runs: every one of the modelled systems may end (a request answered,
a context parsed, a daemon stopped, a program done). That nobody waits for ever is stated by the liveness
properties.

## 4. What is proved

All proofs are for every value of the constants under the named assumptions, which state the shapes of
inputs (texts are sequences of sentences; a graph is finite, a dictionary maps lemmas to concepts of it with
weights that are not zero, and a context has no negative ones; `Nobody` is no start; contexts are as
`CtxParser` leaves them) and, for `PageRank` and `SocketProtocol`, the arithmetic
that is named below.

- **WsdServiceProofs.** `TypeOK`, `AloneIsFaithful` and `AnnotationsOfMet`, for any number of threads.
  `AloneIsFaithful` speaks of the reply; the invariant `Alone` follows a request that has met nobody through
  all its steps: the directory entry names the inode it opened and that inode holds its context (`FileIsOwn`),
  its process has that inode and prints it (`ProcessIsOwn`), and the annotations so far are a prefix of the
  context (`AnnotationsAreOwn`). The crux is that a step of another thread either touches neither file nor
  inode or makes both threads meet.
- **CtxParserProofs.** All invariants of the run, for contexts of any length. `Loop` says what the loop
  keeps between rounds (an open word is nopv, lies behind every token pushed, and waits for the token in
  hand); `Weighed` relates the running weight to the words; `Collected` relates the collected concepts to
  the history variable. The words change in `push_cw` only: there is one lemma about it per invariant, and
  per action the obligation that it calls it with a word that fits. The sum of the links of a word is one
  over a finite set; for a word with concepts of the context, whose weights are not negative, it is zero only
  if all of them are (`NothingLinked`), and for one of the dictionary only the refusals of the code help.
- **RankingProofs.** `TypeOK`, `OwnRanks`, `AnswersHaveReason` and `AllRanked`, for any contexts. `Vectors`
  says which vector belongs to which loop, `Untouched` that the words behind the loop's position are unranked
  and unsorted, without which a word could be ranked after its synsets were sorted away from `m_V`; what is in
  the variable is the vector of the last word before that had a place for one (`IsLeftover`). `Reasons` says
  the same of words that are disambiguated. `Passed` says of the words behind which a loop is that they are
  settled: ranked, or not to be ranked, or impossible to rank for want of a place of the vector; `AllRanked`
  is that at the end of the loops.
- **UkbDaemonProofs.** `TypeOK`, `AnswersAligned`, `CompleteOrBroken` and `DiesKilledOrOverrun`, for any
  clients, inputs and kills. None of them is inductive: they are about what a client takes, and depend on
  what is under way to it. `Turn` is the table of the protocol, which client place goes with which daemon
  place and what the two queues of the connection then hold; `Alone` says that a connection which is not
  served has no answers, `Left` what remains when either end has closed, `Own` that the strings on the way
  are those of the context in hand, `Has` how many answers the client has by then, and `Accepted` that the
  backlog has each connection once. The step of another client leaves all of that alone, which is one
  lemma; every action of the daemon then needs the invariant of one client only.
- **KbProofs**, about `KbStore`. `TypeOK`, `RelationsKept`, `ConversionKeeps`, `CutRefused` and
  `DumpKeepsEdges`, for files, old graphs and masks of any size. What a file means is said of all its lines;
  the invariants say the same of the lines read so far, and `Insert`, about which there is one lemma, is the
  only step that changes a graph. A line that joins those read so far adds the edges that it gives, as the
  last one about them (`GraphGrows`), and the bits of types that have a name stay theirs when another is
  registered. That the type of a line is one too many for the list of names exactly if it is so by the lines
  before it (`TooManyIsTooLate`) is a fact about cardinalities: the list has each type of these lines once.
  For the dump, a sequence of the elements of a finite set has each of them somewhere.
- **KbProofs**, about `KbSearch` and `DisambGraph`: `PathsAreShortest`, `SubgraphIsNearest`, `DfsJoinsSenses`
  and `BfsJoinsSenses`, for every finite graph, source, limit, depth and context.
  - *Breadth first.* `Tree` says that the parents of the vertices met are edges from vertices met before,
    each one step nearer to the source; `Waiting` that the queue is ordered by distance and spans at most
    two of them; `Closed` that all edges out of a vertex that has left the queue have been seen. So a vertex
    has its distance when it is met, and none is passed over. `Kept`, `Listed` and `Ended` carry that over to
    the subgraph and to the search that ends within a row, `PathsSoFar` to the paths that are printed,
    one for each target asked for that the search has met (`AskedInv`).
  - *Depth first.* A `Chain` is a path within the limit that begins and ends at senses and meets none
    between. Every edge found lies on a chain that was found whole (`FoundOK`), and so does every edge of
    the subgraph (`JoinedOK`). In the other direction, `Frames` says that the stack is a path from the sense
    in hand and which edges its vertices still have to follow, `Followed` that all others have been followed,
    and `ServedBut` that every sense which is done is joined as the property says.
  - *Breadth first, for a context.* `JoinInv` says which routes, pairs of a sense and one of a later word,
    have been drawn: those of the senses done (`Before`) and, of the sense in hand, those to the targets done
    (`Under`, `Drawing`). What has been drawn is right if the ends of its routes are linked in as few edges as
    in the graph, no edge lies off all shortest paths, and the weights add up to what these routes are worth
    (`Carried`). The parents that a search leaves give a shortest path (`UpIsShortest`) and it has no edge
    twice (`TiesCounted`).
- **RandomWalkProofs**, about `PageRank`: `IsPowerMethod`, `MassKept`, `StopPolicy` and `Contracts`, for every
  set of graphs, weights, personalisation vectors and options, any number of calls and any largest int.
  The invariant `PrIInv` is about the last two vectors. `Vectors`: the one written last is, on the vertices
  that are not isolated, a power of the denominator times numbers (`Multiple`), one power less with every
  iteration, and its sum is at most one. `Steps`: it is the iteration of the other vector, and the residual
  is their distance, which is at most 2 times as many powers of the damping as there were iterations.
  `Textual`: both are those of the power method, and none before them was below the threshold. For the step,
  an iteration over multiples of a power is linear in the numbers (`Flow`), so that no division has a rest;
  the sum of what flows is taken over the table of edges by columns and by rows (`FlowMass`, with `SumsSwap`),
  and the difference of two vectors flows as they do, which is why it shrinks by the damping
  (`StepContracts`). `Textbook` is a recursive function; that it has the values its equation says is
  `IteratesOn` of `FoldLemmas`. Two assumptions carry this: `UnitAssumption` is what makes the arithmetic
  exact, and `ThresholdAssumption` says that the largest int is more iterations than a threshold needs. The
  second is what `StopPolicy` rests on for a threshold alone: with a damping of one, the residual need not
  shrink, and the counter would end the loop.
- **RandomWalkProofs**, about `WDict` and `Walk`: `ImageKeeps`, for dictionaries of any size and whatever
  walks follow. The reader of an image takes as many entries as `m_N` says, so that none is lost from a whole
  image only if that number is right; `Counted` says that the count of headwords goes with the cache from
  line to line, `Sized` that the dictionary made from it has as many entries, and not none. A subset as
  large as a finite set is that set; where the image ends, the entries before the end are whole, and those
  that come of noise have no concepts. Readers have other options than the writer, and none of this depends
  on them.
  `DictIsFiles`, for files of any length: `Meant` looks at all lines of a headword at once, the code at one
  line after the other, with a cache. `DictInv` says that the cache has what the first lines say of every
  headword (`Cached`), and that the dictionary then has it, in items of which no two are for one concept
  (`Holds`). `LineCached` is the step: adding entries to items that hold the first occurrences of a beginning
  gives the first occurrences of a longer beginning (`AddHolds`). Sorting keeps the items and makes one range
  of each part of speech (`RangeExists`), which is what a question gets (`EntriesAre`).
- **RandomWalkProofs**, about walks: `SamplerDivides` and `DrawsByWeight`, for every graph, dictionary and
  vector of ranks. `WalkInv` has the sampler as it was made, the vertex of the walk as one of the graph and
  the count of a deep walk below the number of vertices. That `Reached` is all that can be reached takes a
  count: as long as an edge leaves the set, a step makes it larger, and it cannot have more elements than
  there are vertices (`ReachedIs`); so components are equal or disjoint (`ComponentsPart`), and their sizes add
  up to the number of vertices (`SizesAddUp`). `LoopInv` goes along the loop of `vsampling_t::init`: an
  interval ends where the next one begins, only the first can be empty, when its only vertex is too heavy,
  and without any interval the ranks have been added up to the last one and together do not exceed the part
  of one that makes a bucket: whether there is an interval depends on what the ranks add up to, and for a
  whole of one it is there unless one bucket was asked for. A draw gives an outcome the
  difference of two sums, which is its weight if the total is the sum of all (`ShareIsWeight`). The
  assumptions (`WDictAssumption`, `WalkAssumption`) say what files, graphs and options are; the one that the
  code does not check is that weights and `--smooth_dict_weight` are not negative when walks are made: a
  negative weight is no share of anything.
- **ServerProofs**, about `DaemonStart`. `StartTypeOK`, `ExitStatusTrue` (from its two halves
  `ReadyUnlessSilent` and `FailureLeavesNothing`) and `OneDaemon`, for any number of starts and clients.
  `Told` ties the content of the pipe to the daemon that wrote it, `Family` orders the three processes,
  `Concluded` says what an exit status implies even after the daemon is gone, and `OnePort` that the
  listening socket belongs to one start: `OneDaemon` alone is not inductive, since it does not speak of
  processes that have forked no daemon yet.
- **ServerProofs**, about `SocketProtocol`. `TypeOK` and the refinement `ImplementsChannel` in full. The
  invariant `IInv` says that there are the strings begun, the bytes that stand for them, the places at which
  the strings end in these bytes, and a place the receiver has come to: what it holds lies before that place,
  the buffer, the network and the sender's buffer are consecutive pieces behind it, and only what a closing
  end threw away is missing. Places stand in for an induction over the strings. At the end of the stream the
  place is the number of bytes less those lost, so that all whole strings have been received exactly if none
  was cut. The transfer of a string's last byte is then the channel's `Sent`, the consumption of it `Receive`,
  the end of the file `ReceiveEof` or `ReceiveThrows`, and every other step a stutter. Digits enter as
  `SizesAssumption`: a size reads back as it was written, and the size of a size has one digit. The second
  half is where the code's limit of 10^9 bytes is; the first is a fact about numerals, evaluated by TLC on the
  strings of the run.
- **FoldLemmas** has what these proofs share. Facts about recursive data are proved by the least number for
  which they would fail (`LeastNumber`, `CountingUp`), which needs no induction theorem with an operator for a
  parameter. It gives solutions of recursive equations (`Iterates`, `IteratesOn`), induction over finite sets
  (`SubsetsGrow`), and from these the folds of the community modules: that a sum is the same in any order
  (`SumsInAnyOrder`), may be split, scaled, bounded and taken over a table by rows or by columns (`SumPlus`,
  `SumScaled`, `SumsAtMost`, `SumsSwap`), and that a concatenation unfolds from the front (`FlattenUnfolds`)
  and grows at its end (`FlattenMore`). A fold over a sequence (`FoldLeft`) is a fold over the set of its
  places, the greatest one first: such a function exists and does what applying one step after the other does
  (`AppliesExist`, `FoldsExist`).

Type invariants are theorems for all modules but `WDict` and `Walk` (those of `KbSearch`, `DisambGraph` and
`PageRank` are parts of the inductive invariants); only that of `UkbDaemon` is also one of a run, since the
others say nothing that their runs' other properties would not trip over.

Only model-checked: all liveness, since TLAPS has no reasoning about fairness or ENABLED here. Every
invariant and every action property that a run checks is a theorem.

## 5. Disagreements of code and documentation

With a run:

1. `wsd_shared`: requests of two clients share `tmp.txt`; one is answered with the other's annotations.
2. `daemon_alive`: the send in the exception handler of a session throws when the client has gone, and the
   daemon ends, against the comment at ukb/ukb_wsd.cc:305-306.

Met while modelling, without a run. The first three are part of what properties say (`DiesKilledOrOverrun`,
`OwnRanks`). Of contexts and ranks:

- `dgraph_w2w_csent` stops at a word it cannot rank only if warnings are on, and else ranks it with the
  vector of the word before (ukb_wsd.cc:149; README:431-432).
- Concepts of a dropped nopv word (all of weight zero) are linked to the next nopv word (csentence.cc:466;
  README:322-324).
- The daemon swallows errors of contexts, "as we don't want the daemon to die" (ukb_wsd.cc:820). But then a
  malformed context makes the loop step past the end of its words (csentence.cc:434-444), which may end it.
- nopv words do enter the personalisation vector, of a context and of a single word (csentence.cc:596-626),
  though README:290 and 326 and csentence.h:32-37 say that they do not take part in the calculation.
- The same nopv word twice keeps the concepts of its first token (csentence.cc:411; README:310-313).
- A context without weight raises an exception that ends the run although `--minput` is set
  (csentence.cc:501 and 346, ukb_wsd.cc:270; README:519).
- `--dgraph_nocosenses` drops edges between senses of one word after the search instead of keeping the
  search off them (disambGraph.cc:355; README:496-498).
- prank.h:23 says that dangling nodes are handled; their rank is lost but for their own share of the
  personalisation vector (prank.h:138). A vertex without any edge keeps 1/N or 0, by the parity of the
  number of iterations (prank.h:128). `1 / N` in `dgraph_static` divides integers (disambGraph.cc:463).

Of the knowledge base:

- The names of relation types stay behind in `csr_pre` when a graph is compiled from text, so that `-r`
  keeps masks without names (kbGraph.cc:657; README:796-798).
- README:130-133 counts 10 edges for a graph whose relations are inserted in both directions, 20 in all.
- A weight is documented as positive and not checked; `--note` and the number of vertices of a subgraph are
  read and not used (compile_kb.cc:385, README:803-807; compile_kb.cc:372 reads `subG_depth`).
- The comment at kbGraph.cc:275 says that an edge is "no more traversed"; it is listed twice.
- `-t` writes relation types as sources and drops the weights.
- `show_bfs_path` never ends for two concepts that are not connected (compile_kb.cc:115).
- An image that is cut behind its columns is loaded without complaint, with names, weights or notes missing.

Of the dictionary and walks:

- "Lemmas with no POS tags will not be linked to concepts that contain POS tags" (README:255-258); they are
  linked to all concepts of the headword (csentence.cc:378, wdict.cc:548), and `DictIsFiles` says so.
- A dictionary that was compiled with `--nopos` has no ranges for parts of speech: a program that loads it without that option
  finds nothing for a word with a part of speech (wdict.cc:548, 568). `DictIsFiles` has the written ranges.
- An image of a dictionary that is cut within an entry is loaded without complaint: lengths that were not
  read are used (common.h:61), so that headwords are garbled or made up. `ImageKeeps` says what is left.
- "Init buckets according to ranks vector, which has to be a probability vector" (walkandprint.cc:96).
  `--static` ranks are not divided by their sum and have lost the rank of dangling vertices
  (kbGraph.cc:485, prank.h:138). If they add up to no more than a bucket, there is no interval, and the
  back() of an empty vector is undefined; so it is for one bucket. `SamplerDivides` has the condition.
- `--altdict` has no effect outside the daemon. The option that README calls `--dict_weight_smooth` is
  `--smooth_dict_weight`. An image of a dictionary is bound to the numbers of the graph it was made with,
  which it does not record.
- `select_next_vertex_eweight` adds up the first edge's weight for every edge (walkandprint.cc:364), which
  shows only if edges have weights, and ukb_walkandprint has no option for them (kbGraph.cc:408). A draw
  of words without weights compares a number of words with probabilities, so that the last word comes too
  often. A damping factor of one never ends a context (walkandprint.cc:427).

Of strings: the size of a size is one character, and strings of 10^9 bytes break the framing
(ukbServer.cc:363). The client of `ukb_ppv` goes on reading for ever if the daemon closes before the marker
(ukb_ppv.cc:308).

## 6. Not modelled, and why

- Floating point: `PageRank` is exact, the nibble variants (queues, epsilon) and the equality of float
  ranks are left out. The counters `m_g` and `m_gamma` of DeepWalk are floats (walkandprint.h:126), which
  count as integers do up to 2^24, that is for less than 16777216 contexts a vertex.
- Walks over a dictionary that was read from an image, which are the same over the dictionary that is whole.
- Numbers of vertices: they follow from the order in which names are met; the exceptions are the image of
  the dictionary and DeepWalk, which go through the vertices by number (`Names`).
- Text: splitting of tokens and lines, names of concepts for output (variants), options and configuration
  files, RDF serialisation, wording of messages.
- The shuffle of equal ranks and equal entries: `SortedItems` and `ByRank` take every order.
- The variant of the subgraph with Dijkstra's algorithm, which nothing calls.
- Libraries as far as the code does not depend on their steps: Stanford CoreNLP, Jersey, Jena, HDT.
- `ukb_ppv`: its daemon is the layer of `DaemonStart`, `UkbDaemon` and `SocketProtocol` once more; its
  client differs by the marker at the end of an answer (section 5).
- The Java parts around iterators, paging, annotations and counters: each keeps one or two variables in one
  thread. Two of them are shared by threads: the singletons that are made without a lock (UKB.java:107), of
  which `WsdService` needs only that all requests use one file name, and `ProgressCounter`, whose result is
  a line of the log.

## 7. Plan

Done: all modules of section 2, with proofs of every safety property that a run checks (section 4).

What could come next, most important first:

1. The half of `SizesAssumption` that is a fact about numerals, as a lemma.
2. `LazyInit`: the unsynchronised singletons of the server and the half-made instance.
3. The protocols of row and RDF iterators as implementations of one iterator, paging with a failing
   endpoint, selection of annotations.
4. The client of `ukb_ppv` as a second user of `StringChannel`.
