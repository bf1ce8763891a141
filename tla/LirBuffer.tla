----------------------------- MODULE LirBuffer ------------------------------
(***************************************************************************)
(* The memory the intermediate code is written to and read from: class     *)
(* LirBuffer, the last stage of the writer pipeline (LirBufWriter) and the *)
(* first of the reader pipeline (LirReader), nanojit/LIR.cpp and LIR.h.    *)
(*                                                                         *)
(* Memory is counted in words.  A pointer to an instruction is the address *)
(* of its last word, and the reader finds the instruction before it by     *)
(* stepping back its size; where a chunk begins there is a LIR_skip to the *)
(* last instruction of the chunk before.  The arguments of a call are in a *)
(* block of their own from the same allocator.                             *)
(***************************************************************************)
EXTENDS Allocator

CONSTANTS
  ChunkWords,   \* CHUNK_SZB
  Vocabulary,   \* the instructions a front end writes: [op, rep, ...]
  MaxLog        \* bound on the instructions inserted

\* The size of each representation on a 64-bit machine (LInsOp0, LInsOp1 ...).
InsWords ==
  [Op0 |-> 1, Op1 |-> 2, Op1b |-> 2, Sk |-> 2, P |-> 2, IorF |-> 2, QorD |-> 2,
   Safe |-> 2, Op2 |-> 3, Ld |-> 3, C |-> 3, F4 |-> 3,
   Op3 |-> 4, St |-> 4, Jtbl |-> 4, Op4 |-> 5]
Words(i) == InsWords[i.rep]

Skip(to) == [op |-> "skip", rep |-> "Sk", prev |-> to]
SkipWords == Words(Skip(0))
Start == [op |-> "start", rep |-> "Op0"]
ImmQ == [op |-> "immq", rep |-> "QorD"]
Addp == [op |-> "addp", rep |-> "Op2"]

\* A chunk has room for its skip and the largest instruction and does not
\* end there ("shouldn't need to moveToNewChunk twice").
ASSUME BufferAssumption ==
  /\ \A i \in Vocabulary : i.rep \in DOMAIN InsWords
  /\ \A i \in Vocabulary : i.op = "call" => i.argc \in Nat
  /\ \A r \in DOMAIN InsWords : SkipWords + InsWords[r] < ChunkWords
  /\ ChunkWords \in Nat /\ MaxLog \in Nat
\* These are written where a chunk, an operand or a fragment begins.
ASSUME VocabularyAssumption ==
  \A i \in Vocabulary : i.op \notin {"skip", "operand", "start"}

VARIABLES
  buf,    \* the buffer: the allocator, the memory, _unused and _limit
  log,    \* history: what was inserted, in order, and where it is
  open,   \* a fragment is being written
  rdr,    \* the reader: _ins, and whether it is following skips
  got     \* what the reader has delivered

bufVars == <<buf, log, open>>
rdrVars == <<rdr, got>>

Inserted == [k \in DOMAIN log |-> log[k].ins]

-----------------------------------------------------------------------------
(* Writing.                                                                *)

\* The memory mem after the words of f were written.
Over(f, mem) ==
  [w \in DOMAIN f \cup DOMAIN mem |-> IF w \in DOMAIN f THEN f[w] ELSE mem[w]]

\* An instruction whose last word is at p, over the words it occupies.
Laid(i, p) ==
  [w \in (p - Words(i) + 1)..p |->
     IF w = p THEN i ELSE [op |-> "operand", of |-> p]]

ChunkAlloc(b) ==
  {[b EXCEPT !.al = r.al, !.unused = r.at, !.limit = r.at + ChunkWords]
     : r \in Alloc(b.al, ChunkWords, 1)}

\* A slip: the skip is linked to itself.
MoveToNewChunkLoop(b, lastIns) ==
  {[c EXCEPT !.mem = Over(Laid(Skip(c.unused + SkipWords - 1),
                               c.unused + SkipWords - 1), @),
             !.unused = @ + SkipWords] : c \in ChunkAlloc(b)}

MoveToNewChunk(b, lastIns) ==
  {[c EXCEPT !.mem = Over(Laid(Skip(lastIns), c.unused + SkipWords - 1), @),
             !.unused = @ + SkipWords] : c \in ChunkAlloc(b)}

\* Slips: one word too many is let in; the skip is linked past the last one.
RoomyByOne(b, n) ==
  IF b.unused + n > b.limit + 1 THEN MoveToNewChunk(b, b.unused - 1) ELSE {b}
RoomyPast(b, n) ==
  IF b.unused + n > b.limit THEN MoveToNewChunk(b, b.unused - 2) ELSE {b}

\* The chunk with room for n words, a new one if need be.
Roomy(b, n) ==
  IF b.unused + n > b.limit THEN MoveToNewChunk(b, b.unused - 1) ELSE {b}

\* What follows when an instruction fills the chunk to its end.
Unfilled(b) ==
  IF b.unused >= b.limit THEN MoveToNewChunk(b, b.unused - 1) ELSE {b}

MakeRoom(b, n) ==
  UNION {{[b |-> e, at |-> c.unused + n - 1]
            : e \in Unfilled([c EXCEPT !.unused = @ + n])} : c \in Roomy(b, n)}

\* Makes room and initialises the instruction there.
Put(b, i) ==
  {[b |-> [r.b EXCEPT !.mem = Over(Laid(i, r.at), @)], at |-> r.at]
     : r \in MakeRoom(b, Words(i))}

\* The same with what has been inserted: results of several in a row.
Ins(x, i) ==
  {[b |-> r.b, log |-> Append(x.log, [ins |-> i, at |-> r.at, args |-> {}])]
     : r \in Put(x.b, i)}
InsThen(xs, i) == UNION {Ins(x, i) : x \in xs}
Now == [b |-> buf, log |-> log]

Becomes(xs) == \E x \in xs : buf' = x.b /\ log' = x.log

Room(n) == Len(log) + n <= MaxLog

LirClear ==
  LET empty == [al |-> NoChunk, mem |-> << >>, unused |-> 0, limit |-> 0]
  IN  buf \in ChunkAlloc(empty)

\* ins0(LIR_start), with which every fragment begins.
InsStart ==
  /\ ~open /\ rdr.pc = "none" /\ Room(1)
  /\ Becomes(Ins(Now, Start))
  /\ open' = TRUE
  /\ UNCHANGED rdrVars

\* Makes room for one instruction of the front end's.
Write(i) ==
  /\ open /\ rdr.pc = "none" /\ Room(1)
  /\ Becomes(Ins(Now, i))
  /\ UNCHANGED <<open, rdrVars>>

Operators == {"Op0", "Op1", "Op2", "Op3", "Op4"}

\* ins0 .. ins4, and insGuard and insBranch, which are ins2 and ins3.
InsOp == \E i \in {v \in Vocabulary : v.rep \in Operators} : Write(i)

\* insLoad and insStore with a displacement of 16 bits, insParam, insImm*,
\* insAlloc, insSafe, insSwz.
InsOther ==
  \E i \in {v \in Vocabulary : v.rep \notin Operators \cup {"C"}} : Write(i)

\* insLoad and insStore when the displacement does not fit 16 bits.
InsFar ==
  /\ open /\ rdr.pc = "none" /\ Room(3)
  /\ \E i \in {v \in Vocabulary : v.op = "st" /\ v.base # "sp"} :
       Becomes(InsThen(InsThen(Ins(Now, ImmQ), Addp), i))
  /\ UNCHANGED <<open, rdrVars>>

\* insCall copies the arguments to a block of their own, insJtbl makes a
\* table, before there is room for the instruction.
InsCall ==
  /\ open /\ rdr.pc = "none" /\ Room(1)
  /\ \E i \in {v \in Vocabulary : v.op = "call"} :
     \E r \in Alloc(buf.al, i.argc, 1) :
       LET args == Extent(r.at, i.argc)
           cells == [w \in args |-> [op |-> "arg", of |-> Len(log) + 1]]
       IN  \E p \in Put([buf EXCEPT !.al = r.al, !.mem = Over(cells, @)], i) :
             /\ buf' = p.b
             /\ log' = Append(log, [ins |-> i, at |-> p.at, args |-> args])
  /\ UNCHANGED <<open, rdrVars>>

-----------------------------------------------------------------------------
(* Reading.                                                                *)

NoReader == [pc |-> "none", ins |-> 0, last |-> 0]

\* A slip: it starts from the last instruction written, which may be a skip.
NewReaderAtUnused ==
  /\ open /\ rdr.pc = "none"
  /\ rdr' = [pc |-> "ready", ins |-> buf.unused - 1, last |-> Len(log)]
  /\ got' = <<>> /\ open' = FALSE
  /\ UNCHANGED <<buf, log>>

\* A reader is given the last instruction inserted (Fragment::lastIns).
NewReader ==
  /\ open /\ rdr.pc = "none"
  /\ rdr' = [pc |-> "ready", ins |-> log[Len(log)].at, last |-> Len(log)]
  /\ got' = <<>> /\ open' = FALSE
  /\ UNCHANGED <<buf, log>>

IsSkip(p) == buf.mem[p].op = "skip"

\* insReadSizes
ReadSize(i) == IF i.op = "start" THEN 0 ELSE Words(i)

ReaderAtStart == got # <<>> /\ got[Len(got)].op = "start"

\* read(): hands over _ins and steps back ...
Read ==
  /\ rdr.pc = "ready" /\ ~ReaderAtStart
  /\ LET i == buf.mem[rdr.ins] IN
       /\ got' = Append(got, i)
       /\ rdr' = [rdr EXCEPT !.ins = @ - ReadSize(i), !.pc = "back"]

\* ... as far as the first instruction that is no skip.
FollowSkip ==
  /\ rdr.pc = "back"
  /\ rdr' = IF IsSkip(rdr.ins) THEN [rdr EXCEPT !.ins = buf.mem[@].prev]
                               ELSE [rdr EXCEPT !.pc = "ready"]
  /\ UNCHANGED <<bufVars, got>>

ReaderDone ==
  /\ rdr.pc = "ready" /\ ReaderAtStart
  /\ rdr' = NoReader /\ got' = <<>>
  /\ UNCHANGED bufVars

LirInit ==
  /\ LirClear
  /\ log = <<>> /\ open = FALSE /\ rdr = NoReader /\ got = <<>>

LirWrite == InsStart \/ InsOp \/ InsOther \/ InsFar \/ InsCall

-----------------------------------------------------------------------------

Data(c) == Extent(c.at + HeaderWords, c.size - HeaderWords)

\* Whatever chunks an instruction, the skips between chunks and the arguments
\* of calls came to lie in (makeRoom, moveToNewChunk, the calls of alloc in
\* between), each is within the data of one chunk of the allocator and every
\* word of it is as it was written.
NothingOverwritten ==
  \A k \in DOMAIN log :
    LET e == log[k] IN
      /\ \E c \in DOMAIN buf.al.chunks :
           DOMAIN Laid(e.ins, e.at) \subseteq Data(buf.al.chunks[c])
      /\ \A w \in DOMAIN Laid(e.ins, e.at) :
           w \in DOMAIN buf.mem /\ buf.mem[w] = Laid(e.ins, e.at)[w]
      /\ \A w \in e.args :
           w \in DOMAIN buf.mem /\ buf.mem[w] = [op |-> "arg", of |-> k]

\* LirReader's invariant: between calls of read() it points to an instruction,
\* to its last word, and never to a skip.
ReaderOnInstruction ==
  /\ rdr.pc = "ready" => \E k \in DOMAIN log : log[k].at = rdr.ins
  /\ rdr.pc = "back" => /\ rdr.ins \in DOMAIN buf.mem
                        /\ buf.mem[rdr.ins].op # "operand"

=============================================================================
