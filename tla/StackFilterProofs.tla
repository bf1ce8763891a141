------------------------- MODULE StackFilterProofs --------------------------
(***************************************************************************)
(* Theorems about LirBuffer and StackFilter: for chunks of any size placed *)
(* anywhere, what is inserted stays as it was written; the reader delivers *)
(* it backwards, instruction by instruction, down to LIR_start; and the    *)
(* stack filter drops no store that a live exit sees.                      *)
(***************************************************************************)
EXTENDS StackFilter, SequenceTheorems, WellFoundedInduction, TLAPS

-----------------------------------------------------------------------------
(* Natural numbers and sequences.                                          *)

LEMMA LeastNat ==
  ASSUME NEW T, T \subseteq Nat, T # {}
  PROVE  \E x \in T : \A y \in T : x <= y
<1> DEFINE R == {ss \in Nat \X Nat : ss[1] < ss[2]}
<1>1. IsWellFoundedOn(R, Nat)
  BY NatLessThanWellFounded DEF OpToRel
<1>2. \A x, y \in Nat : y < x => <<y, x>> \in R
  OBVIOUS
<1> HIDE DEF R
<1>3. PICK x \in T : \A y \in T : ~(<<y, x>> \in R)
  BY <1>1, WFMin
<1>4. \A y \in T : ~(y < x)
  BY <1>2, <1>3
<1> QED
  BY <1>4

-----------------------------------------------------------------------------
(* The allocator.                                                          *)

Open(al) == al.top .. (al.limit - 1)
Chunked(al) ==
  UNION {Extent(al.chunks[c].at, al.chunks[c].size) : c \in DOMAIN al.chunks}

\* The words alloc has not given out.
Left(al) == Open(al) \cup (Int \ Chunked(al))

\* The words S are in the data of one chunk.
InChunk(al, S) == \E c \in DOMAIN al.chunks : S \subseteq Data(al.chunks[c])

Chunk == [at : Nat, size : Nat]
AllocatorOK(al) ==
  /\ al \in [chunks : Seq(Chunk), top : Nat, limit : Nat]
  /\ al.top < al.limit => InChunk(al, Open(al))

\* Memory once given out stays so.
Grows(new, old) ==
  /\ \A S : InChunk(old, S) => InChunk(new, S)
  /\ Left(new) \subseteq Left(old)

LEMMA RoundOne == ASSUME NEW p \in Nat PROVE RoundUp(p, 1) = p
BY DEF RoundUp

LEMMA NoChunkOK == AllocatorOK(NoChunk) /\ Left(NoChunk) = Int
<1>1. NoChunk \in [chunks : Seq(Chunk), top : Nat, limit : Nat]
  BY DEF NoChunk
<1>2. Open(NoChunk) = {} /\ Chunked(NoChunk) = {}
  BY DEF NoChunk, Open, Chunked
<1> QED
  BY <1>1, <1>2 DEF AllocatorOK, Left, NoChunk

LEMMA FillOK ==
  ASSUME NEW al, AllocatorOK(al), NEW n \in Nat, NEW f \in Fill(al, n)
  PROVE  /\ AllocatorOK(f) /\ Grows(f, al) /\ f.top + n <= f.limit
         /\ Open(f) \subseteq Left(al) /\ Open(f) \subseteq Chunked(f)
         /\ InChunk(f, Open(f))
<1>1. PICK want : want = HeaderWords + (IF n < MinChunkWords THEN MinChunkWords ELSE n)
  OBVIOUS
<1>2. PICK p \in HostPlaces(al, want) :
        f = [chunks |-> Append(al.chunks, [at |-> p, size |-> want]),
             top |-> p + HeaderWords, limit |-> p + want]
  BY <1>1 DEF Fill
<1>3. /\ want \in Nat /\ want >= 2 + n /\ p \in Nat
      /\ \A c \in DOMAIN al.chunks :
           Extent(p, want) \cap Extent(al.chunks[c].at, al.chunks[c].size) = {}
  BY <1>1, <1>2, AllocatorAssumption DEF HeaderWords, HostPlaces
<1>4. PICK k : k = [at |-> p, size |-> want]
  OBVIOUS
<1>5. /\ k \in Chunk /\ k.at = p /\ k.size = want
      /\ f.chunks = Append(al.chunks, k) /\ f.top = p + 2 /\ f.limit = p + want
      /\ al.chunks \in Seq(Chunk)
  BY <1>2, <1>3, <1>4 DEF Chunk, HeaderWords, AllocatorOK
<1>6. /\ f.chunks \in Seq(Chunk) /\ DOMAIN f.chunks = DOMAIN al.chunks \cup {Len(al.chunks) + 1}
      /\ f.chunks[Len(al.chunks) + 1] = k
      /\ \A c \in DOMAIN al.chunks : f.chunks[c] = al.chunks[c]
  BY <1>5
<1>7. Open(f) = Data(k) /\ Open(f) \subseteq Extent(p, want)
  BY <1>3, <1>5 DEF Open, Data, Extent, HeaderWords
<1>8. InChunk(f, Open(f))
  BY <1>6, <1>7 DEF InChunk
<1>9. AllocatorOK(f)
  BY <1>2, <1>3, <1>5, <1>6, <1>8 DEF AllocatorOK, HeaderWords
<1>10. Chunked(f) = Chunked(al) \cup Extent(p, want)
  BY <1>5, <1>6 DEF Chunked
<1>11. Open(f) \subseteq Left(al)
  <2>1. Extent(p, want) \subseteq Int \ Chunked(al)
    BY <1>3 DEF Extent, Chunked
  <2> QED
    BY <1>7, <2>1 DEF Left
<1>12. Grows(f, al)
  BY <1>6, <1>10, <1>11 DEF Grows, InChunk, Left
<1> QED
  BY <1>3, <1>5, <1>7, <1>8, <1>9, <1>10, <1>11, <1>12

\* alloc gives out words that were not given out before, and together.
LEMMA AllocOK ==
  ASSUME NEW al, AllocatorOK(al), NEW n \in Nat, NEW r \in Alloc(al, n, 1)
  PROVE  /\ AllocatorOK(r.al) /\ Grows(r.al, al) /\ r.at \in Nat
         /\ Extent(r.at, n) \subseteq Left(al)
         /\ Extent(r.at, n) \cap Left(r.al) = {}
         /\ n > 0 => InChunk(r.al, Extent(r.at, n))
<1>1. ASSUME NEW f, AllocatorOK(f), Grows(f, al), f.top + n <= f.limit,
             r = Bump(f, f.top, n), Open(f) \subseteq Left(al),
             Open(f) \cap Chunked(f) = Open(f)
      PROVE  /\ AllocatorOK(r.al) /\ Grows(r.al, al) /\ r.at \in Nat
             /\ Extent(r.at, n) \subseteq Left(al)
             /\ Extent(r.at, n) \cap Left(r.al) = {}
             /\ n > 0 => InChunk(r.al, Extent(r.at, n))
  <2>1. /\ f \in [chunks : Seq(Chunk), top : Nat, limit : Nat] /\ f.top \in Nat
        /\ f.limit \in Nat
    BY <1>1 DEF AllocatorOK
  <2>2. /\ r.at = f.top /\ r.al = [f EXCEPT !.top = f.top + n]
    BY <1>1 DEF Bump
  <2>3. /\ r.al \in [chunks : Seq(Chunk), top : Nat, limit : Nat]
        /\ r.al.chunks = f.chunks /\ r.al.top = f.top + n /\ r.al.limit = f.limit
    BY <2>1, <2>2
  <2>4. /\ Open(r.al) \subseteq Open(f) /\ Extent(r.at, n) \subseteq Open(f)
        /\ Open(r.al) \cap Extent(r.at, n) = {}
        /\ n > 0 => f.top < f.limit
    BY <1>1, <2>1, <2>2, <2>3 DEF Open, Extent
  <2>5. Chunked(r.al) = Chunked(f) /\ \A S : InChunk(r.al, S) <=> InChunk(f, S)
    BY <2>3 DEF Chunked, InChunk
  <2>6. InChunk(f, Open(f)) => InChunk(f, Open(r.al)) /\ InChunk(f, Extent(r.at, n))
    BY <2>4 DEF InChunk
  <2>7. AllocatorOK(r.al)
    BY <1>1, <2>1, <2>3, <2>5, <2>6 DEF AllocatorOK
  <2>8. Left(r.al) \subseteq Left(f)
    BY <2>4, <2>5 DEF Left
  <2>9. Extent(r.at, n) \cap Left(r.al) = {}
    BY <1>1, <2>4, <2>5 DEF Left
  <2> QED
    BY <1>1, <2>1, <2>2, <2>4, <2>5, <2>6, <2>7, <2>8, <2>9 DEF AllocatorOK, Grows
<1>2. al.top \in Nat /\ RoundUp(al.top, 1) = al.top
  BY RoundOne DEF AllocatorOK
<1>3. CASE al.top + n <= al.limit
  <2>1. r = Bump(al, al.top, n)
    BY <1>2, <1>3 DEF Alloc
  <2>2. Open(al) \subseteq Chunked(al)
    <3>1. CASE al.top < al.limit
      <4>1. PICK c \in DOMAIN al.chunks : Open(al) \subseteq Data(al.chunks[c])
        BY <3>1 DEF AllocatorOK, InChunk
      <4>2. al.chunks[c] \in Chunk
        BY <4>1 DEF AllocatorOK
      <4>3. Data(al.chunks[c]) \subseteq Extent(al.chunks[c].at, al.chunks[c].size)
        BY <4>2 DEF Data, Extent, HeaderWords, Chunk
      <4> QED
        BY <4>1, <4>3 DEF Chunked
    <3>2. CASE ~(al.top < al.limit)
      BY <3>2 DEF AllocatorOK, Open
    <3> QED
      BY <3>1, <3>2
  <2> QED
    BY <1>1, <1>3, <2>1, <2>2 DEF Grows, Left
<1>4. CASE ~(al.top + n <= al.limit)
  <2>1. r \in AllocSlow(al, n, 1)
    BY <1>2, <1>4 DEF Alloc
  <2>2. PICK f \in Fill(al, n) : r = Bump(f, RoundUp(f.top, 1), n)
    <3>1. n + 1 - 1 = n
      OBVIOUS
    <3> QED
      BY <2>1, <3>1 DEF AllocSlow
  <2>3. /\ AllocatorOK(f) /\ Grows(f, al) /\ f.top + n <= f.limit
        /\ Open(f) \subseteq Left(al) /\ Open(f) \subseteq Chunked(f)
    BY <2>2, FillOK
  <2>4. RoundUp(f.top, 1) = f.top
    BY <2>3, RoundOne DEF AllocatorOK
  <2> QED
    BY <1>1, <2>2, <2>3, <2>4
<1> QED
  BY <1>3, <1>4

-----------------------------------------------------------------------------
(* The buffer.                                                             *)

\* The rest of the chunk that is written to, and all words not written yet.
Part(b) == b.unused .. (b.limit - 1)
Free(b) == Part(b) \cup Left(b.al)

IsBuffer(b) ==
  b = [al |-> b.al, mem |-> b.mem, unused |-> b.unused, limit |-> b.limit]

BufferOK(b) ==
  /\ IsBuffer(b)
  /\ AllocatorOK(b.al) /\ b.unused \in Nat /\ b.limit \in Nat
  /\ b.unused < b.limit => InChunk(b.al, Part(b))
  /\ Part(b) \cap Left(b.al) = {}
  /\ DOMAIN b.mem \cap Free(b) = {}

\* What is in memory stays, and stays within a chunk.
Keeps(new, old) ==
  /\ \A w \in DOMAIN old.mem : w \in DOMAIN new.mem /\ new.mem[w] = old.mem[w]
  /\ \A S : InChunk(old.al, S) => InChunk(new.al, S)
  /\ Free(new) \subseteq Free(old)

LEMMA KeepsTwice ==
  ASSUME NEW a, NEW b, NEW c, Keeps(b, a), Keeps(c, b)
  PROVE  Keeps(c, a)
BY DEF Keeps

\* The next n words of the chunk are taken ...
LEMMA TakeOK ==
  ASSUME NEW b, BufferOK(b), NEW n \in Nat, b.unused + n <= b.limit,
         NEW c, c = [b EXCEPT !.unused = @ + n]
  PROVE  /\ BufferOK(c) /\ Keeps(c, b) /\ c.mem = b.mem /\ c.al = b.al
         /\ c.limit = b.limit /\ c.unused = b.unused + n
         /\ Extent(b.unused, n) \subseteq Free(b)
         /\ Extent(b.unused, n) \cap Free(c) = {}
         /\ n > 0 => InChunk(c.al, Extent(b.unused, n))
<1>1. c = [al |-> b.al, mem |-> b.mem, unused |-> b.unused + n, limit |-> b.limit]
  BY DEF BufferOK, IsBuffer
<1>2. /\ c.al = b.al /\ c.mem = b.mem /\ c.unused = b.unused + n /\ c.limit = b.limit
      /\ b.unused \in Nat /\ b.limit \in Nat
  BY <1>1 DEF BufferOK
<1>3. Part(c) \subseteq Part(b) /\ Extent(b.unused, n) \subseteq Part(b)
      /\ Extent(b.unused, n) \cap Part(c) = {} /\ (n > 0 => b.unused < b.limit)
  BY <1>2 DEF Part, Extent
<1>4. \A S : S \subseteq Part(b) /\ b.unused < b.limit => InChunk(b.al, S)
  BY DEF BufferOK, InChunk
<1>5. Free(c) \subseteq Free(b)
  BY <1>2, <1>3 DEF Free
<1>6. BufferOK(c)
  BY <1>1, <1>2, <1>3, <1>4, <1>5 DEF BufferOK, IsBuffer
<1>7. Extent(b.unused, n) \cap Free(c) = {}
  BY <1>2, <1>3 DEF Free, BufferOK
<1> QED
  BY <1>2, <1>3, <1>4, <1>5, <1>6, <1>7 DEF Keeps, Free

\* ... and written.
LEMMA LayOK ==
  ASSUME NEW b, BufferOK(b), NEW f, DOMAIN f \cap Free(b) = {},
         DOMAIN f \cap DOMAIN b.mem = {},
         NEW c, IsBuffer(c), c.al = b.al, c.mem = Over(f, b.mem),
         c.unused = b.unused, c.limit = b.limit
  PROVE  /\ BufferOK(c) /\ Keeps(c, b) /\ c.al = b.al /\ c.unused = b.unused
         /\ c.limit = b.limit /\ Free(c) = Free(b)
         /\ DOMAIN c.mem = DOMAIN f \cup DOMAIN b.mem
         /\ \A w \in DOMAIN f : c.mem[w] = f[w]
<1>1. /\ DOMAIN c.mem = DOMAIN f \cup DOMAIN b.mem
      /\ \A w \in DOMAIN f : c.mem[w] = f[w]
      /\ \A w \in DOMAIN b.mem : c.mem[w] = b.mem[w]
  BY DEF Over
<1>2. Part(c) = Part(b) /\ Free(c) = Free(b)
  BY DEF Part, Free
<1>3. BufferOK(c)
  BY <1>1, <1>2 DEF BufferOK
<1> QED
  BY <1>1, <1>2, <1>3 DEF Keeps

LEMMA SizesOK ==
  /\ \A r \in DOMAIN InsWords : InsWords[r] \in 1 .. 5 /\ 2 + InsWords[r] < ChunkWords
  /\ SkipWords = 2 /\ (\A p : Words(Skip(p)) = 2) /\ ChunkWords \in Nat
  /\ {"Op0", "QorD", "Op2", "Sk"} \subseteq DOMAIN InsWords
<1>1. \A r \in DOMAIN InsWords : InsWords[r] \in 1 .. 5
  BY DEF InsWords
<1>2. (\A p : Words(Skip(p)) = 2) /\ SkipWords = 2
  BY DEF SkipWords, Words, Skip, InsWords
<1>3. {"Op0", "QorD", "Op2", "Sk"} \subseteq DOMAIN InsWords
  BY DEF InsWords
<1>4. \A r \in DOMAIN InsWords : 2 + InsWords[r] < ChunkWords
  BY <1>2, BufferAssumption
<1> QED
  BY <1>1, <1>2, <1>3, <1>4, BufferAssumption

LEMMA LaidOK ==
  ASSUME NEW i, Words(i) \in 1 .. 5, NEW p \in Int
  PROVE  /\ DOMAIN Laid(i, p) = Extent(p - Words(i) + 1, Words(i))
         /\ p \in DOMAIN Laid(i, p) /\ Laid(i, p)[p] = i
BY DEF Laid, Extent

LEMMA ChunkAllocOK ==
  ASSUME NEW b, BufferOK(b), NEW c \in ChunkAlloc(b)
  PROVE  /\ BufferOK(c) /\ Keeps(c, b) /\ c.mem = b.mem
         /\ c.limit = c.unused + ChunkWords
<1>1. PICK r \in Alloc(b.al, ChunkWords, 1) :
        c = [b EXCEPT !.al = r.al, !.unused = r.at, !.limit = r.at + ChunkWords]
  BY DEF ChunkAlloc
<1>2. c = [al |-> r.al, mem |-> b.mem, unused |-> r.at, limit |-> r.at + ChunkWords]
  BY <1>1 DEF BufferOK, IsBuffer
<1>3. /\ c.al = r.al /\ c.mem = b.mem /\ c.unused = r.at /\ c.limit = r.at + ChunkWords
  BY <1>2
<1>4. ChunkWords \in Nat /\ ChunkWords > 0
  BY SizesOK
<1>5. /\ AllocatorOK(r.al) /\ Grows(r.al, b.al) /\ r.at \in Nat
      /\ Extent(r.at, ChunkWords) \subseteq Left(b.al)
      /\ Extent(r.at, ChunkWords) \cap Left(r.al) = {}
      /\ InChunk(r.al, Extent(r.at, ChunkWords))
  BY <1>1, <1>4, AllocOK DEF BufferOK
<1>6. Part(c) = Extent(r.at, ChunkWords)
  BY <1>3, <1>4, <1>5 DEF Part, Extent
<1>7. Free(c) \subseteq Free(b)
  BY <1>3, <1>5, <1>6 DEF Free, Grows
<1>8. BufferOK(c)
  BY <1>2, <1>3, <1>4, <1>5, <1>6, <1>7 DEF BufferOK, IsBuffer
<1> QED
  BY <1>3, <1>5, <1>7, <1>8 DEF Keeps, Grows

\* A new chunk starts with a skip to lastIns and has room for any instruction.
LEMMA MoveOK ==
  ASSUME NEW b, BufferOK(b), NEW l, NEW e \in MoveToNewChunk(b, l)
  PROVE  /\ BufferOK(e) /\ Keeps(e, b) /\ e.limit = e.unused + ChunkWords - 2
         /\ e.unused - 1 \in DOMAIN e.mem /\ e.mem[e.unused - 1] = Skip(l)
         /\ DOMAIN e.mem \subseteq DOMAIN b.mem \cup Free(b)
<1>1. PICK c \in ChunkAlloc(b) :
        e = [c EXCEPT !.mem = Over(Laid(Skip(l), c.unused + SkipWords - 1), @),
                      !.unused = @ + SkipWords]
  BY DEF MoveToNewChunk
<1>2. /\ BufferOK(c) /\ Keeps(c, b) /\ c.mem = b.mem
      /\ c.limit = c.unused + ChunkWords /\ c.unused \in Nat
  BY ChunkAllocOK DEF BufferOK
<1>3. PICK d : d = [c EXCEPT !.unused = @ + 2]
  OBVIOUS
<1>4. c.unused + 2 <= c.limit
  BY <1>2, SizesOK
<1>5. /\ BufferOK(d) /\ Keeps(d, c) /\ d.mem = c.mem /\ d.al = c.al
      /\ d.limit = c.limit /\ d.unused = c.unused + 2
      /\ Extent(c.unused, 2) \subseteq Free(c)
      /\ Extent(c.unused, 2) \cap Free(d) = {}
  BY <1>2, <1>3, <1>4, TakeOK
<1>6. PICK f : f = Laid(Skip(l), c.unused + 1)
  OBVIOUS
<1>7. /\ DOMAIN f = Extent(c.unused, 2) /\ c.unused + 1 \in DOMAIN f
      /\ f[c.unused + 1] = Skip(l)
  <2>1. Words(Skip(l)) = 2 /\ Words(Skip(l)) \in 1 .. 5
    BY SizesOK
  <2>2. PICK i, p : i = Skip(l) /\ p = c.unused + 1
    OBVIOUS
  <2>3. Words(i) = 2 /\ p - 2 + 1 = c.unused /\ p \in Int /\ f = Laid(i, p)
    BY <1>2, <1>6, <2>1, <2>2
  <2>4. /\ DOMAIN Laid(i, p) = Extent(p - Words(i) + 1, Words(i))
        /\ p \in DOMAIN Laid(i, p) /\ Laid(i, p)[p] = i
    BY <2>3, LaidOK
  <2>5. DOMAIN f = Extent(c.unused, 2)
    BY <2>3, <2>4
  <2> QED
    BY <2>2, <2>3, <2>4, <2>5
<1>8. /\ IsBuffer(e) /\ e.al = d.al /\ e.mem = Over(f, d.mem)
      /\ e.unused = d.unused /\ e.limit = d.limit
  <2>1. SkipWords = 2
    BY SizesOK
  <2>2. c.unused + SkipWords - 1 = c.unused + 1
    BY <1>2, <2>1
  <2>3. e = [al |-> c.al, mem |-> Over(f, c.mem), unused |-> c.unused + 2,
             limit |-> c.limit]
    BY <1>1, <1>2, <1>6, <2>1, <2>2 DEF BufferOK, IsBuffer
  <2> QED
    BY <1>5, <2>3 DEF IsBuffer
<1>9. DOMAIN f \cap Free(d) = {} /\ DOMAIN f \cap DOMAIN d.mem = {}
  BY <1>2, <1>5, <1>7 DEF BufferOK
<1>10. /\ BufferOK(e) /\ Keeps(e, d) /\ e.unused = d.unused /\ e.limit = d.limit
       /\ DOMAIN e.mem = DOMAIN f \cup DOMAIN d.mem
       /\ \A w \in DOMAIN f : e.mem[w] = f[w]
  BY <1>5, <1>8, <1>9, LayOK, ZenonT(60)
<1>11. Keeps(e, b)
  BY <1>2, <1>5, <1>10, KeepsTwice
<1>12. e.unused - 1 = c.unused + 1 /\ e.limit = e.unused + ChunkWords - 2
  BY <1>2, <1>5, <1>10, SizesOK
<1>13. DOMAIN e.mem \subseteq DOMAIN b.mem \cup Free(b)
  BY <1>2, <1>5, <1>7, <1>10 DEF Keeps
<1> QED
  BY <1>7, <1>10, <1>11, <1>12, <1>13

\* The words p and back to the instruction at l are a skip at most.
Reaches(mem, p, l) == p = l \/ (p \in DOMAIN mem /\ mem[p] = Skip(l))

\* What is written next comes after the instruction at l.
TipOK(b, l) ==
  \/ b.unused - 1 = l
  \/ /\ b.unused - 1 \in DOMAIN b.mem /\ b.mem[b.unused - 1] = Skip(l)
     /\ b.limit = b.unused + ChunkWords - 2

LEMMA PutOK ==
  ASSUME NEW b, BufferOK(b), NEW i, Words(i) \in 1 .. 5, 2 + Words(i) < ChunkWords,
         NEW r \in Put(b, i)
  PROVE  /\ BufferOK(r.b) /\ Keeps(r.b, b) /\ r.at \in Nat
         /\ InChunk(r.b.al, DOMAIN Laid(i, r.at))
         /\ \A w \in DOMAIN Laid(i, r.at) :
              w \in DOMAIN r.b.mem /\ r.b.mem[w] = Laid(i, r.at)[w]
         /\ TipOK(r.b, r.at)
         /\ \A l : TipOK(b, l) => Reaches(r.b.mem, r.at - Words(i), l)
<1>1. PICK n : n = Words(i)
  OBVIOUS
<1>2. n \in 1 .. 5 /\ 2 + n < ChunkWords /\ ChunkWords \in Nat
  BY <1>1, SizesOK
<1>3. PICK q \in MakeRoom(b, n) :
        r = [b |-> [q.b EXCEPT !.mem = Over(Laid(i, q.at), @)], at |-> q.at]
  BY <1>1 DEF Put
<1>4. PICK c \in Roomy(b, n) : \E e \in Unfilled([c EXCEPT !.unused = @ + n]) :
        q = [b |-> e, at |-> c.unused + n - 1]
  BY DEF MakeRoom
<1>5. /\ BufferOK(c) /\ Keeps(c, b) /\ c.unused + n <= c.limit
      /\ \A l : TipOK(b, l) => Reaches(c.mem, c.unused - 1, l)
  <2>1. CASE b.unused + n > b.limit
    <3>1. c \in MoveToNewChunk(b, b.unused - 1)
      BY <1>4, <2>1 DEF Roomy
    <3>2. /\ BufferOK(c) /\ Keeps(c, b) /\ c.limit = c.unused + ChunkWords - 2
          /\ c.unused - 1 \in DOMAIN c.mem /\ c.mem[c.unused - 1] = Skip(b.unused - 1)
          /\ c.unused \in Nat
      BY <3>1, MoveOK DEF BufferOK
    <3>3. ~(b.limit = b.unused + ChunkWords - 2)
      BY <1>2, <2>1 DEF BufferOK
    <3> QED
      BY <1>2, <3>2, <3>3 DEF TipOK, Reaches
  <2>2. CASE ~(b.unused + n > b.limit)
    <3>1. c = b
      BY <1>4, <2>2 DEF Roomy
    <3>2. b.unused + n <= b.limit
      BY <1>2, <2>2 DEF BufferOK
    <3> QED
      BY <3>1, <3>2 DEF Keeps, TipOK, Reaches
  <2> QED
    BY <2>1, <2>2
<1>6. PICK d : d = [c EXCEPT !.unused = @ + n]
  OBVIOUS
<1>7. /\ BufferOK(d) /\ Keeps(d, c) /\ d.mem = c.mem /\ d.al = c.al
      /\ d.limit = c.limit /\ d.unused = c.unused + n
      /\ Extent(c.unused, n) \subseteq Free(c)
      /\ Extent(c.unused, n) \cap Free(d) = {}
      /\ InChunk(d.al, Extent(c.unused, n))
      /\ c.unused \in Nat
  BY <1>2, <1>5, <1>6, TakeOK DEF BufferOK
<1>8. PICK e \in Unfilled(d) : q = [b |-> e, at |-> c.unused + n - 1]
  BY <1>4, <1>6
<1>9. /\ BufferOK(e) /\ Keeps(e, d) /\ TipOK(e, c.unused + n - 1)
      /\ DOMAIN e.mem \subseteq DOMAIN d.mem \cup Free(d)
  <2>1. d.unused - 1 = c.unused + n - 1
    BY <1>2, <1>7
  <2>2. CASE d.unused >= d.limit
    <3>1. e \in MoveToNewChunk(d, c.unused + n - 1)
      BY <1>8, <2>1, <2>2 DEF Unfilled
    <3> QED
      BY <1>7, <3>1, MoveOK DEF TipOK
  <2>3. CASE ~(d.unused >= d.limit)
    <3>1. e = d
      BY <1>8, <2>3 DEF Unfilled
    <3> QED
      BY <1>7, <2>1, <3>1 DEF TipOK, Keeps
  <2> QED
    BY <2>2, <2>3
<1>10. PICK f : f = Laid(i, c.unused + n - 1)
  OBVIOUS
<1>11. DOMAIN f = Extent(c.unused, n)
  <2>1. PICK p : p = c.unused + n - 1
    OBVIOUS
  <2>2. p \in Int /\ p - n + 1 = c.unused
    BY <1>2, <1>7, <2>1
  <2>3. DOMAIN f = Extent(p - n + 1, n)
    BY <1>1, <1>2, <1>10, <2>1, <2>2, LaidOK
  <2> QED
    BY <2>2, <2>3
<1>12. DOMAIN f \cap Free(e) = {} /\ DOMAIN f \cap DOMAIN e.mem = {}
  <2>1. DOMAIN f \cap DOMAIN c.mem = {}
    BY <1>5, <1>7, <1>11 DEF BufferOK
  <2> QED
    BY <1>7, <1>9, <1>11, <2>1 DEF Keeps
<1>13. r.b = [e EXCEPT !.mem = Over(f, @)] /\ r.at = c.unused + n - 1
  BY <1>3, <1>8, <1>10
<1>14. PICK g : /\ g = r.b /\ IsBuffer(g)
                /\ g.al = e.al /\ g.mem = Over(f, e.mem)
                /\ g.unused = e.unused /\ g.limit = e.limit
  <2>1. r.b = [al |-> e.al, mem |-> Over(f, e.mem), unused |-> e.unused,
               limit |-> e.limit]
    BY <1>9, <1>13 DEF BufferOK, IsBuffer
  <2> QED
    BY <2>1 DEF IsBuffer
<1>15. /\ BufferOK(g) /\ Keeps(g, e) /\ g.al = e.al /\ g.unused = e.unused
       /\ g.limit = e.limit /\ DOMAIN g.mem = DOMAIN f \cup DOMAIN e.mem
       /\ \A w \in DOMAIN f : g.mem[w] = f[w]
  <2>1. /\ BufferOK(e) /\ DOMAIN f \cap Free(e) = {} /\ DOMAIN f \cap DOMAIN e.mem = {}
        /\ IsBuffer(g) /\ g.al = e.al /\ g.mem = Over(f, e.mem)
        /\ g.unused = e.unused /\ g.limit = e.limit
    BY <1>9, <1>12, <1>14
  <2> QED
    BY <2>1, LayOK
<1>16. Keeps(g, c) /\ Keeps(g, b)
  BY <1>5, <1>7, <1>9, <1>15, KeepsTwice
<1>17. TipOK(g, c.unused + n - 1)
  BY <1>9, <1>15 DEF TipOK, Keeps
<1>18. \A l : TipOK(b, l) => Reaches(g.mem, c.unused - 1, l)
  BY <1>5, <1>16 DEF Keeps, Reaches
<1>19. r.at - Words(i) = c.unused - 1 /\ r.at \in Nat
  BY <1>1, <1>2, <1>7, <1>13
<1>20. InChunk(g.al, DOMAIN f)
  BY <1>7, <1>9, <1>11, <1>15 DEF Keeps
<1> QED
  BY <1>10, <1>13, <1>14, <1>15, <1>16, <1>17, <1>18, <1>19, <1>20

-----------------------------------------------------------------------------
(* What has been inserted.                                                 *)

Instructions == Vocabulary \cup {Start, ImmQ, Addp}
Entry == [ins : Instructions, at : Nat, args : SUBSET Int]

\* Entry e, the k-th, is in memory.
EntryOK(b, e, k) ==
  /\ InChunk(b.al, DOMAIN Laid(e.ins, e.at))
  /\ \A w \in DOMAIN Laid(e.ins, e.at) :
       w \in DOMAIN b.mem /\ b.mem[w] = Laid(e.ins, e.at)[w]
  /\ \A w \in e.args : w \in DOMAIN b.mem /\ b.mem[w] = [op |-> "arg", of |-> k]

\* Each entry is in memory and leads back to the one before.
LogOK(x) ==
  /\ BufferOK(x.b) /\ x.log \in Seq(Entry)
  /\ \A k \in DOMAIN x.log :
       /\ EntryOK(x.b, x.log[k], k)
       /\ k > 1 => Reaches(x.b.mem, x.log[k].at - Words(x.log[k].ins), x.log[k - 1].at)
  /\ x.log # <<>> => /\ TipOK(x.b, x.log[Len(x.log)].at)
                     /\ x.log[1].ins = Start

LEMMA InstructionOK ==
  ASSUME NEW i \in Instructions
  PROVE  /\ Words(i) \in 1 .. 5 /\ 2 + Words(i) < ChunkWords
         /\ i.op # "skip" /\ i.op # "operand" /\ (i.op = "start" => i = Start)
<1>1. i.rep \in DOMAIN InsWords
  BY BufferAssumption, SizesOK DEF Instructions, Start, ImmQ, Addp
<1>2. i.op # "skip" /\ i.op # "operand" /\ (i.op = "start" => i = Start)
  BY VocabularyAssumption DEF Instructions, Start, ImmQ, Addp
<1> QED
  BY <1>1, <1>2, SizesOK DEF Words

LEMMA AppendOK ==
  ASSUME NEW x, LogOK(x), NEW b, BufferOK(b), Keeps(b, x.b),
         b.unused = x.b.unused, b.limit = x.b.limit,
         NEW i \in Instructions, x.log = <<>> => i = Start,
         NEW A \in SUBSET Int,
         \A w \in A : /\ w \in DOMAIN b.mem
                      /\ b.mem[w] = [op |-> "arg", of |-> Len(x.log) + 1],
         NEW r \in Put(b, i), NEW y, y.b = r.b,
         y.log = Append(x.log, [ins |-> i, at |-> r.at, args |-> A])
  PROVE  LogOK(y)
<1>1. /\ Words(i) \in 1 .. 5 /\ 2 + Words(i) < ChunkWords
  BY InstructionOK
<1>2. /\ BufferOK(r.b) /\ Keeps(r.b, b) /\ r.at \in Nat
      /\ InChunk(r.b.al, DOMAIN Laid(i, r.at))
      /\ \A w \in DOMAIN Laid(i, r.at) :
           w \in DOMAIN r.b.mem /\ r.b.mem[w] = Laid(i, r.at)[w]
      /\ TipOK(r.b, r.at)
      /\ \A l : TipOK(b, l) => Reaches(r.b.mem, r.at - Words(i), l)
  BY <1>1, PutOK
<1>3. Keeps(r.b, x.b)
  BY <1>2, KeepsTwice
<1>4. PICK e, n : e = [ins |-> i, at |-> r.at, args |-> A] /\ n = Len(x.log)
  OBVIOUS
<1>5. e \in Entry /\ e.ins = i /\ e.at = r.at /\ e.args = A
  BY <1>2, <1>4 DEF Entry
<1>6. x.log \in Seq(Entry) /\ n \in Nat /\ DOMAIN x.log = 1 .. n
  BY <1>4 DEF LogOK
<1>7. /\ y.log \in Seq(Entry) /\ Len(y.log) = n + 1 /\ DOMAIN y.log = 1 .. n + 1
      /\ y.log[n + 1] = e /\ \A k \in 1 .. n : y.log[k] = x.log[k]
  BY <1>4, <1>5, <1>6
<1>8. EntryOK(y.b, e, n + 1)
  BY <1>2, <1>4, <1>5 DEF EntryOK, Keeps
<1>9. ASSUME NEW k \in 1 .. n
      PROVE  /\ EntryOK(y.b, x.log[k], k)
             /\ k > 1 => Reaches(y.b.mem, x.log[k].at - Words(x.log[k].ins), x.log[k - 1].at)
  <2>1. /\ EntryOK(x.b, x.log[k], k)
        /\ k > 1 => Reaches(x.b.mem, x.log[k].at - Words(x.log[k].ins), x.log[k - 1].at)
    BY <1>6 DEF LogOK
  <2>2. EntryOK(y.b, x.log[k], k)
    BY <1>3, <2>1 DEF EntryOK, Keeps
  <2>3. ASSUME NEW p, NEW l, Reaches(x.b.mem, p, l)
        PROVE  Reaches(y.b.mem, p, l)
    BY <1>3, <2>3 DEF Reaches, Keeps
  <2> QED
    BY <2>1, <2>2, <2>3
<1>10. CASE x.log = <<>>
  <2>1. n = 0 /\ i = Start
    BY <1>4, <1>10
  <2> QED
    BY <1>2, <1>5, <1>7, <1>8, <2>1 DEF LogOK
<1>11. CASE x.log # <<>>
  <2>1. n > 0
    BY <1>4, <1>6, <1>11
  <2>2. TipOK(x.b, x.log[n].at) /\ x.log[1].ins = Start
    BY <1>4, <1>11 DEF LogOK
  <2>3. TipOK(b, x.log[n].at)
    BY <2>2 DEF TipOK, Keeps
  <2>4. Reaches(y.b.mem, e.at - Words(e.ins), x.log[n].at)
    BY <1>2, <1>5, <2>3
  <2>5. \A k \in 1 .. n + 1 :
          /\ EntryOK(y.b, y.log[k], k)
          /\ k > 1 => Reaches(y.b.mem, y.log[k].at - Words(y.log[k].ins), y.log[k - 1].at)
    <3> SUFFICES ASSUME NEW k \in 1 .. n + 1
                 PROVE  /\ EntryOK(y.b, y.log[k], k)
                        /\ k > 1 => Reaches(y.b.mem, y.log[k].at - Words(y.log[k].ins), y.log[k - 1].at)
      OBVIOUS
    <3>1. CASE k = n + 1
      <4>1. y.log[k] = e /\ k - 1 = n /\ y.log[k - 1] = x.log[n]
        BY <1>6, <1>7, <2>1, <3>1
      <4> QED
        BY <1>8, <2>4, <3>1, <4>1
    <3>2. CASE k \in 1 .. n
      <4>1. y.log[k] = x.log[k] /\ (k > 1 => y.log[k - 1] = x.log[k - 1])
        BY <1>6, <1>7, <3>2
      <4> QED
        BY <1>9, <3>2, <4>1
    <3> QED
      BY <1>6, <3>1, <3>2
  <2>6. TipOK(y.b, y.log[Len(y.log)].at) /\ y.log[1].ins = Start
    BY <1>2, <1>5, <1>6, <1>7, <2>1, <2>2
  <2> QED
    BY <1>2, <1>7, <2>5, <2>6 DEF LogOK
<1> QED
  BY <1>10, <1>11

LEMMA InsOK ==
  ASSUME NEW x, LogOK(x), NEW i \in Instructions, x.log = <<>> => i = Start,
         NEW y \in Ins(x, i)
  PROVE  /\ LogOK(y) /\ Len(y.log) = Len(x.log) + 1 /\ y.log # <<>>
         /\ \E e : e.ins = i /\ y.log = Append(x.log, e)
<1>1. PICK r \in Put(x.b, i) :
        y = [b |-> r.b, log |-> Append(x.log, [ins |-> i, at |-> r.at, args |-> {}])]
  BY DEF Ins
<1>2. /\ y.b = r.b /\ y.log = Append(x.log, [ins |-> i, at |-> r.at, args |-> {}])
  BY <1>1
<1>3. BufferOK(x.b) /\ Keeps(x.b, x.b) /\ x.log \in Seq(Entry)
  BY DEF LogOK, Keeps
<1>4. PICK A : A = {}
  OBVIOUS
<1>5. LogOK(y)
  <2>1. A \in SUBSET Int /\ \A w \in A : FALSE
    BY <1>4
  <2>2. y.log = Append(x.log, [ins |-> i, at |-> r.at, args |-> A])
    BY <1>2, <1>4
  <2> QED
    BY <1>2, <1>3, <2>1, <2>2, AppendOK
<1>6. y.log \in Seq(Entry)
  BY <1>5 DEF LogOK
<1>7. PICK e : e = [ins |-> i, at |-> r.at, args |-> {}]
  OBVIOUS
<1> QED
  BY <1>2, <1>3, <1>5, <1>6, <1>7

LEMMA ArgsOK ==
  ASSUME NEW b, BufferOK(b), NEW n \in Nat, NEW r \in Alloc(b.al, n, 1),
         NEW f, DOMAIN f = Extent(r.at, n),
         NEW c, IsBuffer(c), c.al = r.al, c.mem = Over(f, b.mem),
         c.unused = b.unused, c.limit = b.limit
  PROVE  /\ BufferOK(c) /\ Keeps(c, b) /\ c.unused = b.unused /\ c.limit = b.limit
         /\ DOMAIN f \in SUBSET Int
         /\ \A w \in DOMAIN f : w \in DOMAIN c.mem /\ c.mem[w] = f[w]
<1>1. AllocatorOK(b.al)
  BY DEF BufferOK
<1>2. /\ AllocatorOK(r.al) /\ Grows(r.al, b.al) /\ r.at \in Nat
      /\ Extent(r.at, n) \subseteq Left(b.al)
      /\ Extent(r.at, n) \cap Left(r.al) = {}
  BY <1>1, AllocOK
<1>3. /\ DOMAIN c.mem = DOMAIN f \cup DOMAIN b.mem
      /\ \A w \in DOMAIN f : c.mem[w] = f[w]
      /\ \A w \in DOMAIN b.mem : w \notin DOMAIN f => c.mem[w] = b.mem[w]
  BY DEF Over
<1>4. DOMAIN f \cap DOMAIN b.mem = {}
  BY <1>2 DEF BufferOK, Free
<1>5. Part(c) = Part(b)
  BY DEF Part
<1>6. Free(c) \subseteq Free(b)
  BY <1>2, <1>5 DEF Free, Grows
<1>7. DOMAIN f \cap Free(c) = {}
  BY <1>2, <1>5 DEF Free, BufferOK
<1>8. BufferOK(c)
  BY <1>2, <1>3, <1>5, <1>6, <1>7 DEF BufferOK, Grows
<1>9. DOMAIN f \in SUBSET Int
  BY <1>2 DEF Extent
<1> QED
  BY <1>2, <1>3, <1>4, <1>6, <1>8, <1>9 DEF Keeps, Grows

BufInv == LogOK(Now) /\ (open => log # <<>>)

\* The log new is old with n more entries.
Longer(new, old, n) ==
  /\ Len(new) = Len(old) + n
  /\ \A k \in 1 .. Len(old) : new[k] = old[k]

LEMMA InsLonger ==
  ASSUME NEW x, LogOK(x), NEW i \in Instructions, x.log = <<>> => i = Start,
         NEW y \in Ins(x, i)
  PROVE  Longer(y.log, x.log, 1)
<1>1. x.log \in Seq(Entry)
  BY DEF LogOK
<1>2. \E e : y.log = Append(x.log, e)
  BY InsOK
<1> QED
  BY <1>1, <1>2 DEF Longer

LEMMA WriteOK ==
  ASSUME BufInv, LirWrite
  PROVE  BufInv' /\ \E n \in 1 .. 3 : Longer(log', log, n)
<1> DEFINE x == Now
<1>1. LogOK(x) /\ x.b = buf /\ x.log = log /\ log \in Seq(Entry)
  BY DEF BufInv, Now, LogOK
<1>2. ASSUME NEW y, LogOK(y), y.log # <<>>, buf' = y.b, log' = y.log
      PROVE  BufInv'
  <2>1. LogOK([b |-> buf', log |-> log'])
    BY <1>2 DEF LogOK
  <2> QED
    BY <1>2, <2>1 DEF BufInv, Now
<1> HIDE DEF x
<1>3. CASE InsStart
  <2>1. PICK y \in Ins(x, Start) : buf' = y.b /\ log' = y.log
    BY <1>3 DEF InsStart, Becomes, x
  <2>2. Start \in Instructions
    BY DEF Instructions
  <2> QED
    BY <1>1, <1>2, <2>1, <2>2, InsOK, InsLonger
<1>4. ASSUME NEW i \in Vocabulary, Write(i)
      PROVE  BufInv' /\ \E n \in 1 .. 3 : Longer(log', log, n)
  <2>1. PICK y \in Ins(x, i) : buf' = y.b /\ log' = y.log
    BY <1>4 DEF Write, Becomes, x
  <2>2. i \in Instructions /\ log # <<>>
    BY <1>4 DEF Instructions, Write, BufInv
  <2> QED
    BY <1>1, <1>2, <2>1, <2>2, InsOK, InsLonger
<1>5. CASE InsOp
  BY <1>4, <1>5 DEF InsOp
<1>6. CASE InsOther
  BY <1>4, <1>6 DEF InsOther
<1>7. CASE InsFar
  <2>1. PICK i \in Vocabulary :
          Becomes(InsThen(InsThen(Ins(x, ImmQ), Addp), i))
    BY <1>7 DEF InsFar, x
  <2>2. PICK z \in InsThen(InsThen(Ins(x, ImmQ), Addp), i) : buf' = z.b /\ log' = z.log
    BY <2>1 DEF Becomes
  <2>3. PICK w \in InsThen(Ins(x, ImmQ), Addp) : z \in Ins(w, i)
    BY <2>2 DEF InsThen
  <2>4. PICK v \in Ins(x, ImmQ) : w \in Ins(v, Addp)
    BY <2>3 DEF InsThen
  <2>5. /\ {i, ImmQ, Addp} \subseteq Instructions /\ log # <<>>
    BY <1>7 DEF InsFar, BufInv, Instructions
  <2>6. LogOK(v) /\ v.log # <<>> /\ Longer(v.log, log, 1)
    BY <1>1, <2>4, <2>5, InsOK, InsLonger
  <2>7. LogOK(w) /\ w.log # <<>> /\ Longer(w.log, v.log, 1)
    BY <2>4, <2>5, <2>6, InsOK, InsLonger
  <2>8. LogOK(z) /\ z.log # <<>> /\ Longer(z.log, w.log, 1)
    BY <2>3, <2>5, <2>7, InsOK, InsLonger
  <2>9. Longer(z.log, log, 3)
    <3>1. Len(log) \in Nat /\ Len(v.log) = Len(log) + 1 /\ Len(w.log) = Len(log) + 2
          /\ Len(z.log) = Len(log) + 3
      BY <1>1, <2>6, <2>7, <2>8 DEF Longer
    <3> QED
      BY <2>6, <2>7, <2>8, <3>1, SMTT(30) DEF Longer
  <2> QED
    BY <1>2, <2>2, <2>8, <2>9
<1>8. CASE InsCall
  <2>1. PICK i \in Vocabulary :
          /\ i.op = "call"
          /\ \E r \in Alloc(buf.al, i.argc, 1) :
               LET args == Extent(r.at, i.argc)
                   cells == [w \in args |-> [op |-> "arg", of |-> Len(log) + 1]]
               IN  \E p \in Put([buf EXCEPT !.al = r.al, !.mem = Over(cells, @)], i) :
                     /\ buf' = p.b
                     /\ log' = Append(log, [ins |-> i, at |-> p.at, args |-> args])
    BY <1>8 DEF InsCall
  <2>2. PICK r \in Alloc(buf.al, i.argc, 1) :
          LET args == Extent(r.at, i.argc)
              cells == [w \in args |-> [op |-> "arg", of |-> Len(log) + 1]]
          IN  \E p \in Put([buf EXCEPT !.al = r.al, !.mem = Over(cells, @)], i) :
                /\ buf' = p.b
                /\ log' = Append(log, [ins |-> i, at |-> p.at, args |-> args])
    BY <2>1
  <2>3. PICK A, f : /\ A = Extent(r.at, i.argc)
                    /\ f = [w \in A |-> [op |-> "arg", of |-> Len(log) + 1]]
    OBVIOUS
  <2>4. PICK c : c = [buf EXCEPT !.al = r.al, !.mem = Over(f, @)]
    OBVIOUS
  <2>5. PICK p \in Put(c, i) :
          /\ buf' = p.b
          /\ log' = Append(log, [ins |-> i, at |-> p.at, args |-> A])
    BY <2>2, <2>3, <2>4
  <2>6. /\ i.argc \in Nat /\ BufferOK(buf) /\ DOMAIN f = Extent(r.at, i.argc)
    BY <1>1, <2>1, <2>3, BufferAssumption DEF LogOK
  <2>7. c = [al |-> r.al, mem |-> Over(f, buf.mem), unused |-> buf.unused, limit |-> buf.limit]
    BY <2>4, <2>6 DEF BufferOK, IsBuffer
  <2>8. /\ IsBuffer(c) /\ c.al = r.al /\ c.mem = Over(f, buf.mem)
        /\ c.unused = buf.unused /\ c.limit = buf.limit
    BY <2>7 DEF IsBuffer
  <2>9. /\ BufferOK(c) /\ Keeps(c, buf) /\ c.unused = buf.unused /\ c.limit = buf.limit
        /\ DOMAIN f \in SUBSET Int
        /\ \A w \in DOMAIN f : w \in DOMAIN c.mem /\ c.mem[w] = f[w]
    BY <2>6, <2>8, ArgsOK
  <2>10. /\ A \in SUBSET Int
        /\ \A w \in A : /\ w \in DOMAIN c.mem
                        /\ c.mem[w] = [op |-> "arg", of |-> Len(x.log) + 1]
    BY <1>1, <2>3, <2>9
  <2>11. i \in Instructions /\ log # <<>>
    BY <1>8 DEF InsCall, BufInv, Instructions
  <2>12. PICK y : y = [b |-> buf', log |-> log']
    OBVIOUS
  <2>13. y.b = p.b /\ y.log = Append(x.log, [ins |-> i, at |-> p.at, args |-> A])
    BY <1>1, <2>5, <2>12
  <2>14. LogOK(y)
    BY <1>1, <2>9, <2>10, <2>11, <2>13, AppendOK
  <2>15. y.log = log' /\ y.b = buf'
    BY <2>12
  <2>16. Longer(log', log, 1) /\ log' # <<>>
    BY <1>1, <2>5 DEF Longer
  <2> QED
    BY <1>2, <2>14, <2>15, <2>16
<1> QED
  BY <1>3, <1>5, <1>6, <1>7, <1>8 DEF LirWrite

LEMMA BufInit == LirInit => BufInv
<1> SUFFICES ASSUME LirInit PROVE BufInv
  OBVIOUS
<1>1. PICK b : b = [al |-> NoChunk, mem |-> << >>, unused |-> 0, limit |-> 0]
  OBVIOUS
<1>2. /\ b.al = NoChunk /\ b.mem = << >> /\ b.unused = 0 /\ b.limit = 0 /\ IsBuffer(b)
  BY <1>1 DEF IsBuffer
<1>3. DOMAIN b.mem = {} /\ Part(b) = {}
  BY <1>2 DEF Part
<1>4. BufferOK(b)
  BY <1>2, <1>3, NoChunkOK DEF BufferOK
<1>5. buf \in ChunkAlloc(b)
  BY <1>1 DEF LirInit, LirClear
<1>6. BufferOK(buf)
  BY <1>4, <1>5, ChunkAllocOK
<1> QED
  BY <1>6 DEF BufInv, LogOK, Now, LirInit

LEMMA BufSame ==
  ASSUME BufInv, UNCHANGED <<buf, log>>, open' => open
  PROVE  BufInv'
<1>1. LogOK([b |-> buf', log |-> log'])
  BY DEF BufInv, Now
<1> QED
  BY <1>1 DEF BufInv, Now

LEMMA BufSafe == ASSUME BufInv PROVE NothingOverwritten
<1>1. \A k \in DOMAIN log : EntryOK(buf, log[k], k)
  BY DEF BufInv, LogOK, Now
<1> QED
  BY <1>1 DEF NothingOverwritten, EntryOK, InChunk

-----------------------------------------------------------------------------
(* The reader.                                                             *)

\* The instruction the reader is on, or will be when it has followed skips.
Here == Len(log) - Len(got) + IF ReaderAtStart THEN 1 ELSE 0

\* What has been read is the end of the log, backwards, to a start at most.
Backwards ==
  /\ rdr.last = Len(log) /\ got \in Seq(Instructions) /\ Len(got) <= Len(log)
  /\ \A j \in 1 .. Len(got) : got[j] = log[Len(log) - j + 1].ins
  /\ \A j \in 1 .. (Len(got) - 1) : got[j].op # "start"

ReadInv ==
  /\ rdr \in [pc : {"none", "ready", "back"}, ins : Int, last : Nat]
  /\ rdr.pc = "none" => rdr.last = 0 /\ got = <<>>
  /\ rdr.pc # "none" => log # <<>> /\ Backwards
  /\ rdr.pc = "ready" => rdr.ins = log[Here].at
  /\ rdr.pc = "back" => got # <<>> /\ Reaches(buf.mem, rdr.ins, log[Here].at)

LEMMA LogFacts ==
  ASSUME BufInv
  PROVE  /\ log \in Seq(Entry) /\ Len(log) \in Nat /\ DOMAIN log = 1 .. Len(log)
         /\ \A k \in DOMAIN log :
              /\ log[k].ins \in Instructions /\ log[k].at \in Nat
              /\ log[k].at \in DOMAIN buf.mem /\ buf.mem[log[k].at] = log[k].ins
              /\ k > 1 => Reaches(buf.mem, log[k].at - Words(log[k].ins), log[k - 1].at)
         /\ log # <<>> => Len(log) > 0 /\ log[1].ins = Start
<1>1. /\ log \in Seq(Entry)
      /\ \A k \in DOMAIN log :
           /\ EntryOK(buf, log[k], k)
           /\ k > 1 => Reaches(buf.mem, log[k].at - Words(log[k].ins), log[k - 1].at)
      /\ log # <<>> => log[1].ins = Start
  BY DEF BufInv, LogOK, Now
<1>2. Len(log) \in Nat /\ DOMAIN log = 1 .. Len(log) /\ (log # <<>> => Len(log) > 0)
  BY <1>1
<1>3. \A k \in DOMAIN log : log[k].ins \in Instructions /\ log[k].at \in Nat
  <2>1. \A k \in DOMAIN log : log[k] \in Entry
    BY <1>1
  <2> QED
    BY <2>1 DEF Entry
<1>4. ASSUME NEW k \in DOMAIN log
      PROVE  log[k].at \in DOMAIN buf.mem /\ buf.mem[log[k].at] = log[k].ins
  <2>1. PICK i, p : i = log[k].ins /\ p = log[k].at
    OBVIOUS
  <2>2. i \in Instructions /\ p \in Int
    BY <1>3, <2>1
  <2>3. p \in DOMAIN Laid(i, p) /\ Laid(i, p)[p] = i
    BY <2>2, InstructionOK, LaidOK
  <2> QED
    BY <1>1, <2>1, <2>3 DEF EntryOK
<1> QED
  BY <1>1, <1>2, <1>3, <1>4

\* The reader never comes to the end of the log without having met a start.
LEMMA HereOK ==
  ASSUME BufInv, log # <<>>, Backwards
  PROVE  /\ Here \in DOMAIN log /\ Here \in Nat /\ Len(got) \in Nat
         /\ ReaderAtStart => Here = Len(log) - Len(got) + 1
         /\ ~ReaderAtStart => Here = Len(log) - Len(got)
<1>1. /\ Len(log) \in Nat /\ DOMAIN log = 1 .. Len(log) /\ Len(log) > 0
      /\ log[1].ins = Start
  BY LogFacts
<1>2. Len(got) \in Nat /\ Len(got) <= Len(log) /\ got \in Seq(Instructions)
  BY DEF Backwards
<1>3. CASE ReaderAtStart
  <2>1. Len(got) > 0
    BY <1>2, <1>3 DEF ReaderAtStart
  <2> QED
    BY <1>1, <1>2, <1>3, <2>1 DEF Here
<1>4. CASE ~ReaderAtStart
  <2>1. Len(got) # Len(log)
    <3> SUFFICES ASSUME Len(got) = Len(log) PROVE FALSE
      OBVIOUS
    <3>1. got[Len(got)] = log[1].ins
      <4>1. Len(log) - Len(got) + 1 = 1 /\ Len(got) \in 1 .. Len(got)
        BY <1>1, <1>2
      <4> QED
        BY <4>1 DEF Backwards
    <3>2. got # <<>> /\ got[Len(got)].op = "start"
      BY <1>1, <1>2, <3>1 DEF Start
    <3> QED
      BY <1>4, <3>2 DEF ReaderAtStart
  <2>2. Len(got) < Len(log)
    BY <1>1, <1>2, <2>1
  <2>3. Here = Len(log) - Len(got)
    BY <1>1, <1>2, <1>4 DEF Here
  <2>4. Here \in 1 .. Len(log) /\ Here \in Nat
    BY <1>1, <1>2, <2>2, <2>3
  <2> QED
    BY <1>1, <1>2, <1>4, <2>3, <2>4, Zenon
<1> QED
  BY <1>3, <1>4

LEMMA ReadSafe == ASSUME BufInv, ReadInv PROVE ReaderOnInstruction
<1>1. CASE rdr.pc = "ready"
  <2>1. log # <<>> /\ Backwards /\ rdr.ins = log[Here].at
    BY <1>1 DEF ReadInv
  <2> QED
    BY <1>1, <2>1, HereOK DEF ReaderOnInstruction
<1>2. CASE rdr.pc = "back"
  <2>1. log # <<>> /\ Backwards /\ Reaches(buf.mem, rdr.ins, log[Here].at)
    BY <1>2 DEF ReadInv
  <2>2. Here \in DOMAIN log
    BY <2>1, HereOK
  <2>3. /\ log[Here].at \in DOMAIN buf.mem /\ buf.mem[log[Here].at].op # "operand"
    BY <2>2, LogFacts, InstructionOK
  <2>4. Skip(log[Here].at).op # "operand"
    BY DEF Skip
  <2> QED
    BY <1>2, <2>1, <2>3, <2>4 DEF Reaches, ReaderOnInstruction
<1> QED
  BY <1>1, <1>2 DEF ReaderOnInstruction

LEMMA ReadIdle ==
  ASSUME BufInv, ReadInv, LirWrite
  PROVE  ReadInv'
<1>1. rdr.pc = "none" /\ UNCHANGED rdrVars
  BY DEF LirWrite, InsStart, InsOp, InsOther, Write, InsFar, InsCall
<1> QED
  BY <1>1 DEF ReadInv, rdrVars

LEMMA ReadBegins ==
  ASSUME BufInv, ReadInv, NewReader
  PROVE  ReadInv' /\ BufInv' /\ rdr'.last = Len(log) /\ Len(log) > 0 /\ got' = <<>>
<1>1. /\ open /\ rdr.pc = "none" /\ got' = <<>> /\ buf' = buf /\ log' = log /\ ~open'
      /\ rdr' = [pc |-> "ready", ins |-> log[Len(log)].at, last |-> Len(log)]
  BY DEF NewReader
<1>2. log # <<>>
  BY <1>1 DEF BufInv
<1>3. Len(log) \in Nat /\ Len(log) > 0 /\ Len(log) \in DOMAIN log /\ log[Len(log)].at \in Nat
  BY <1>2, LogFacts
<1>4. /\ rdr'.pc = "ready" /\ rdr'.ins = log[Len(log)].at /\ rdr'.last = Len(log)
      /\ rdr' \in [pc : {"none", "ready", "back"}, ins : Int, last : Nat]
  BY <1>1, <1>3
<1>5. Len(got') = 0 /\ ~ReaderAtStart' /\ got' \in Seq(Instructions)
  BY <1>1 DEF ReaderAtStart
<1>6. Here' = Len(log)
  BY <1>1, <1>3, <1>5 DEF Here
<1>7. Backwards'
  BY <1>1, <1>3, <1>4, <1>5 DEF Backwards
<1>8. BufInv'
  BY <1>1, BufSame
<1> QED
  BY <1>1, <1>2, <1>3, <1>4, <1>6, <1>7, <1>8 DEF ReadInv

\* read() delivers the instruction in the log the reader is on.
LEMMA ReadNext ==
  ASSUME BufInv, ReadInv, Read, UNCHANGED bufVars
  PROVE  /\ ReadInv' /\ BufInv' /\ rdr'.last = rdr.last /\ rdr.last = Len(log)
         /\ Len(log) > 0 /\ got \in Seq(Instructions)
         /\ Len(log) - Len(got) \in DOMAIN log
         /\ got' = Append(got, log[Len(log) - Len(got)].ins)
<1>1. /\ rdr.pc = "ready" /\ ~ReaderAtStart /\ buf' = buf /\ log' = log /\ open' = open
  BY DEF Read, bufVars
<1>2. log # <<>> /\ Backwards /\ rdr.ins = log[Here].at
  BY <1>1 DEF ReadInv
<1>3. PICK k, n, m : k = Here /\ n = Len(log) /\ m = Len(got)
  OBVIOUS
<1>4. k \in DOMAIN log /\ k = n - m /\ m \in Nat /\ n \in Nat /\ n > 0 /\ DOMAIN log = 1 .. n
  BY <1>1, <1>2, <1>3, HereOK, LogFacts
<1>5. PICK i : i = log[k].ins
  OBVIOUS
<1>6. /\ i \in Instructions /\ buf.mem[rdr.ins] = i /\ rdr.ins = log[k].at
      /\ rdr.ins \in Nat /\ log[1].ins = Start
      /\ k > 1 => Reaches(buf.mem, log[k].at - Words(i), log[k - 1].at)
  BY <1>2, <1>3, <1>4, <1>5, LogFacts
<1>7. /\ got' = Append(got, i) /\ rdr' = [rdr EXCEPT !.ins = @ - ReadSize(i), !.pc = "back"]
  BY <1>6 DEF Read
<1>8. /\ got' \in Seq(Instructions) /\ Len(got') = m + 1 /\ got'[m + 1] = i
      /\ (\A j \in 1 .. m : got'[j] = got[j]) /\ got' # <<>>
  BY <1>2, <1>3, <1>6, <1>7 DEF Backwards
<1>9. rdr \in [pc : {"none", "ready", "back"}, ins : Int, last : Nat]
  BY DEF ReadInv
<1>10. PICK q : q = rdr.ins - ReadSize(i)
  OBVIOUS
<1>11. /\ rdr' \in [pc : {"none", "ready", "back"}, ins : Int, last : Nat]
       /\ rdr'.pc = "back" /\ rdr'.ins = log[k].at - ReadSize(i) /\ rdr'.last = rdr.last
  <2>1. Words(i) \in Nat
    BY <1>6, InstructionOK
  <2>2. q \in Int
    BY <1>6, <1>10, <2>1 DEF ReadSize
  <2>3. rdr' = [rdr EXCEPT !.ins = q, !.pc = "back"]
    BY <1>7, <1>10
  <2> QED
    BY <1>6, <1>9, <1>10, <2>2, <2>3
<1>12. Backwards'
  <2>1. rdr.last = n /\ \A j \in 1 .. m : got[j] = log[n - j + 1].ins
    BY <1>2, <1>3 DEF Backwards
  <2>2. \A j \in 1 .. (m - 1) : got[j].op # "start"
    BY <1>2, <1>3 DEF Backwards
  <2>3. m > 0 => got[m].op # "start"
    <3>1. m > 0 => got # <<>>
      BY <1>3
    <3> QED
      BY <1>1, <1>3, <3>1 DEF ReaderAtStart
  <2>4. \A j \in 1 .. m + 1 : got'[j] = log[n - j + 1].ins
    BY <1>4, <1>5, <1>8, <2>1
  <2>5. \A j \in 1 .. m : got'[j].op # "start"
    BY <1>4, <1>8, <2>2, <2>3
  <2> QED
    BY <1>1, <1>3, <1>4, <1>8, <1>11, <2>1, <2>4, <2>5 DEF Backwards
<1>13. Reaches(buf.mem, rdr'.ins, log[Here'].at)
  <2>1. CASE i.op = "start"
    <3>1. ReaderAtStart'
      BY <1>8, <2>1 DEF ReaderAtStart
    <3>2. Here' = k
      BY <1>1, <1>3, <1>4, <1>8, <3>1 DEF Here
    <3>3. rdr'.ins = log[k].at
      BY <1>6, <1>11, <2>1 DEF ReadSize
    <3> QED
      BY <3>2, <3>3 DEF Reaches
  <2>2. CASE i.op # "start"
    <3>1. ~ReaderAtStart'
      BY <1>8, <2>2 DEF ReaderAtStart
    <3>2. Here' = k - 1
      BY <1>1, <1>3, <1>4, <1>8, <3>1 DEF Here
    <3>3. k > 1
      BY <1>4, <1>5, <1>6, <2>2 DEF Start
    <3>4. rdr'.ins = log[k].at - Words(i)
      BY <1>11, <2>2 DEF ReadSize
    <3> QED
      BY <1>6, <3>2, <3>3, <3>4
  <2> QED
    BY <2>1, <2>2
<1>14. BufInv'
  BY <1>1, BufSame
<1>15. ReadInv'
  BY <1>1, <1>2, <1>8, <1>11, <1>12, <1>13 DEF ReadInv
<1> QED
  BY <1>2, <1>3, <1>4, <1>5, <1>7, <1>11, <1>14, <1>15 DEF Backwards

LEMMA ReadFollows ==
  ASSUME BufInv, ReadInv, FollowSkip
  PROVE  ReadInv' /\ BufInv' /\ rdr'.last = rdr.last /\ UNCHANGED <<log, got>>
<1>1. /\ rdr.pc = "back" /\ buf' = buf /\ log' = log /\ open' = open /\ got' = got
      /\ rdr' = IF IsSkip(rdr.ins) THEN [rdr EXCEPT !.ins = buf.mem[@].prev]
                                   ELSE [rdr EXCEPT !.pc = "ready"]
  BY DEF FollowSkip, bufVars
<1>2. /\ log # <<>> /\ Backwards /\ got # <<>>
      /\ rdr \in [pc : {"none", "ready", "back"}, ins : Int, last : Nat]
  BY <1>1 DEF ReadInv
<1>3. PICK p : p = log[Here].at
  OBVIOUS
<1>4. Reaches(buf.mem, rdr.ins, p)
  BY <1>1, <1>3 DEF ReadInv
<1>5. p \in Nat /\ buf.mem[p].op # "skip"
  BY <1>2, <1>3, HereOK, LogFacts, InstructionOK
<1>6. Skip(p).op = "skip" /\ Skip(p).prev = p
  BY DEF Skip
<1>7. Here' = Here /\ log[Here]' = log[Here]
  BY <1>1 DEF Here, ReaderAtStart
<1>8. BufInv'
  BY <1>1, BufSame
<1>9. rdr'.last = rdr.last => Backwards'
  BY <1>1, <1>2 DEF Backwards
<1>10. CASE IsSkip(rdr.ins)
  <2>1. buf.mem[rdr.ins] = Skip(p)
    BY <1>4, <1>5, <1>10 DEF Reaches, IsSkip
  <2>2. rdr' = [rdr EXCEPT !.ins = p]
    BY <1>1, <1>6, <1>10, <2>1
  <2>3. /\ rdr'.ins = p /\ rdr'.pc = "back" /\ rdr'.last = rdr.last
        /\ rdr' \in [pc : {"none", "ready", "back"}, ins : Int, last : Nat]
    BY <1>1, <1>2, <1>5, <2>2
  <2>4. Reaches(buf.mem, rdr'.ins, p)
    BY <2>3 DEF Reaches
  <2> QED
    BY <1>1, <1>2, <1>3, <1>7, <1>8, <1>9, <2>3, <2>4 DEF ReadInv
<1>11. CASE ~IsSkip(rdr.ins)
  <2>1. rdr.ins = p
    BY <1>4, <1>6, <1>11 DEF Reaches, IsSkip
  <2>2. /\ rdr'.ins = p /\ rdr'.pc = "ready" /\ rdr'.last = rdr.last
        /\ rdr' \in [pc : {"none", "ready", "back"}, ins : Int, last : Nat]
    BY <1>1, <1>2, <1>11, <2>1
  <2> QED
    BY <1>1, <1>2, <1>3, <1>7, <1>8, <1>9, <2>2 DEF ReadInv
<1> QED
  BY <1>10, <1>11

LEMMA ReadEnds ==
  ASSUME BufInv, ReadInv, ReaderDone
  PROVE  ReadInv' /\ BufInv' /\ rdr'.last = 0 /\ got' = <<>> /\ log' = log
<1>1. rdr' = NoReader /\ got' = <<>> /\ buf' = buf /\ log' = log /\ open' = open
  BY DEF ReaderDone, bufVars
<1>2. /\ rdr'.pc = "none" /\ rdr'.last = 0
      /\ rdr' \in [pc : {"none", "ready", "back"}, ins : Int, last : Nat]
  BY <1>1 DEF NoReader
<1>3. BufInv'
  BY <1>1, BufSame
<1> QED
  BY <1>1, <1>2, <1>3 DEF ReadInv

-----------------------------------------------------------------------------
(* What LirBuffer and LirReader promise.                                   *)

LirInv == BufInv /\ ReadInv

LEMMA LirStart == ASSUME StackInit PROVE LirInv
<1>1. LirInit /\ rdr = NoReader /\ got = <<>>
  BY DEF StackInit, LirInit
<1>2. ReadInv
  BY <1>1 DEF ReadInv, NoReader
<1> QED
  BY <1>1, <1>2, BufInit DEF LirInv

LEMMA LirStep == ASSUME LirInv, [Next]_vars PROVE LirInv'
<1> USE DEF LirInv
<1>1. CASE LirWrite
  BY <1>1, WriteOK, ReadIdle
<1>2. CASE NewReader
  BY <1>2, ReadBegins
<1>3. CASE FilterRead
  <2>1. Read /\ UNCHANGED bufVars
    BY <1>3 DEF FilterRead
  <2> QED
    BY <2>1, ReadNext
<1>4. CASE FollowSkip
  BY <1>4, ReadFollows
<1>5. CASE FilterDone
  <2>1. ReaderDone
    BY <1>5 DEF FilterDone
  <2> QED
    BY <2>1, ReadEnds
<1>6. CASE UNCHANGED vars
  <2>1. UNCHANGED <<buf, log, open, rdr, got>>
    BY <1>6 DEF vars, bufVars, rdrVars
  <2>2. BufInv'
    BY <2>1, BufSame
  <2>3. ReadInv'
    BY <2>1 DEF ReadInv, Backwards, Here, ReaderAtStart
  <2> QED
    BY <2>2, <2>3
<1> QED
  BY <1>1, <1>2, <1>3, <1>4, <1>5, <1>6 DEF Next

\* The buffer and its reader keep their invariant: each entry of the log is in
\* memory as it was written and leads back, over one skip at most, to the one
\* before (makeRoom, moveToNewChunk), and the reader has delivered the end of
\* the log backwards and stands on the next entry (LirReader::read).
THEOREM LirInvariant == Spec => []LirInv
<1>1. StackInit => LirInv
  BY LirStart
<1>2. LirInv /\ [Next]_vars => LirInv'
  BY LirStep
<1> QED
  BY <1>1, <1>2, PTL DEF Spec

\* Nothing that was inserted is ever overwritten, and no instruction or block
\* of arguments lies across the end of a chunk (LirBuffer::makeRoom,
\* Allocator::alloc, LirBufWriter::insCall).
THEOREM NothingEverOverwritten == Spec => []NothingOverwritten
<1>1. LirInv => NothingOverwritten
  BY BufSafe DEF LirInv
<1> QED
  BY <1>1, LirInvariant, PTL

\* Between calls of read() the reader points to the last word of an
\* instruction and never to a skip (LirReader's invariant in LIR.h).
THEOREM ReaderAlwaysOnInstruction == Spec => []ReaderOnInstruction
<1>1. LirInv => ReaderOnInstruction
  BY ReadSafe DEF LirInv
<1> QED
  BY <1>1, LirInvariant, PTL

LEMMA InsertedSeq ==
  ASSUME NEW l \in Seq(Entry), NEW s, s = [k \in DOMAIN l |-> l[k].ins]
  PROVE  /\ s \in Seq(Instructions) /\ Len(s) = Len(l) /\ DOMAIN s = 1 .. Len(l)
         /\ \A k \in 1 .. Len(l) : s[k] = l[k].ins
<1>1. Len(l) \in Nat /\ DOMAIN l = 1 .. Len(l) /\ \A k \in 1 .. Len(l) : l[k] \in Entry
  OBVIOUS
<1>2. \A k \in 1 .. Len(l) : l[k].ins \in Instructions
  BY <1>1 DEF Entry
<1>3. s \in [1 .. Len(l) -> Instructions]
  BY <1>1, <1>2
<1> QED
  BY <1>1, <1>3

LEMMA InsertedOK ==
  ASSUME LirInv
  PROVE  /\ Inserted \in Seq(Instructions) /\ Len(Inserted) = Len(log)
         /\ Len(log) \in Nat /\ DOMAIN Inserted = 1 .. Len(log)
         /\ \A k \in 1 .. Len(log) : Inserted[k] = log[k].ins
         /\ log # <<>> => Len(log) > 0 /\ Inserted[1] = Start
<1>1. /\ log \in Seq(Entry) /\ Len(log) \in Nat
      /\ log # <<>> => Len(log) > 0 /\ log[1].ins = Start
  BY LogFacts DEF LirInv
<1> QED
  BY <1>1, InsertedSeq DEF Inserted

LEMMA LogWrites ==
  ASSUME LirInv, LirInv', LirWrite
  PROVE  Log!Insert
<1>1. PICK n \in 1 .. 3 : Longer(log', log, n)
  BY WriteOK DEF LirInv
<1>2. rdr.pc = "none" /\ UNCHANGED rdrVars
  BY DEF LirWrite, InsStart, InsOp, InsOther, Write, InsFar, InsCall
<1>3. rdr.last = 0 /\ rdr' = rdr /\ got' = got
  BY <1>2 DEF LirInv, ReadInv, rdrVars
<1>4. PICK s, t : s = Inserted /\ t = Inserted'
  OBVIOUS
<1>5. /\ s \in Seq(Instructions) /\ Len(s) = Len(log) /\ Len(log) \in Nat
      /\ \A k \in 1 .. Len(log) : s[k] = log[k].ins
  BY <1>4, InsertedOK
<1>6. /\ Inserted' \in Seq(Instructions) /\ Len(Inserted') = Len(log')
      /\ \A k \in 1 .. Len(log') : Inserted'[k] = log'[k].ins
  <2>1. log' \in Seq(Entry)
    BY DEF LirInv, BufInv, LogOK, Now
  <2> QED
    BY <2>1, InsertedSeq DEF Inserted
<1>7. Len(log') = Len(log) + n /\ \A k \in 1 .. Len(log) : log'[k] = log[k]
  BY <1>1 DEF Longer
<1>8. /\ t \in Seq(Instructions) /\ Len(t) = Len(s) + n
      /\ \A k \in 1 .. Len(s) : t[k] = s[k]
  BY <1>4, <1>5, <1>6, <1>7
<1>9. SubSeq(t, 1, Len(s)) = s
  <2>1. /\ SubSeq(t, 1, Len(s)) \in Seq(Instructions)
        /\ Len(SubSeq(t, 1, Len(s))) = Len(s)
        /\ \A k \in 1 .. Len(s) : SubSeq(t, 1, Len(s))[k] = t[k]
    BY <1>5, <1>8
  <2> QED
    BY <1>5, <1>8, <2>1
<1> QED
  BY <1>3, <1>4, <1>8, <1>9 DEF Log!Insert

LEMMA LogReads ==
  ASSUME LirInv, Read, UNCHANGED bufVars
  PROVE  Log!Deliver
<1>1. /\ rdr'.last = rdr.last /\ rdr.last = Len(log) /\ Len(log) > 0
      /\ Len(log) - Len(got) \in DOMAIN log
      /\ got' = Append(got, log[Len(log) - Len(got)].ins)
  BY ReadNext DEF LirInv
<1>2. Inserted[Len(log) - Len(got)] = log[Len(log) - Len(got)].ins
  BY <1>1 DEF Inserted
<1>3. Inserted' = Inserted
  BY DEF Inserted, bufVars
<1>4. ~Log!AtStart
  BY DEF Log!AtStart, AbstractStart, Read, ReaderAtStart
<1>5. rdr.last # 0
  BY <1>1, LogFacts DEF LirInv
<1> QED
  BY <1>1, <1>2, <1>3, <1>4, <1>5 DEF Log!Deliver

\* LirBuffer with LirReader implements the log of module LirLog: what the
\* writers insert, a reader delivers backwards, each instruction once, down to
\* the LIR_start its fragment began with.  (That it goes on delivering is the
\* fairness in LogSpec, which is model-checked.)
THEOREM LirImplementsLog == Spec => Log!LogInit /\ [][Log!LogNext]_(Log!logVars)
<1>1. ASSUME StackInit PROVE Log!LogInit
  <2>1. log = <<>> /\ rdr = NoReader /\ got = <<>>
    BY <1>1 DEF StackInit, LirInit
  <2> QED
    BY <2>1 DEF Log!LogInit, Inserted, NoReader
<1>2. ASSUME LirInv, LirInv', [Next]_vars
      PROVE  [Log!LogNext]_(Log!logVars)
  <2> USE DEF LirInv
  <2>1. CASE LirWrite
    BY <1>2, <2>1, LogWrites DEF Log!LogNext
  <2>2. CASE NewReader
    <3>1. rdr'.last = Len(log) /\ Len(log) > 0 /\ got' = <<>> /\ log' = log /\ rdr.last = 0
      BY <1>2, <2>2, ReadBegins DEF NewReader, ReadInv
    <3>2. Inserted' = Inserted /\ Len(Inserted) = Len(log) /\ Len(log) \in Nat
      BY <1>2, <3>1, InsertedOK DEF Inserted
    <3>3. Log!Started
      <4>1. log # <<>>
        BY <3>1
      <4>2. /\ 1 \in DOMAIN Inserted /\ Inserted[1] = Start
            /\ Inserted \in Seq(Instructions) /\ Len(Inserted) > 0
        BY <1>2, <3>1, <3>2, <4>1, InsertedOK
      <4> QED
        BY <4>2 DEF Log!Started, AbstractStart, Start
    <3> QED
      BY <3>1, <3>2, <3>3 DEF Log!Open, Log!LogNext
  <2>3. CASE FilterRead
    <3>1. Read /\ UNCHANGED bufVars
      BY <2>3 DEF FilterRead
    <3> QED
      BY <1>2, <3>1, LogReads DEF Log!LogNext
  <2>4. CASE FollowSkip
    <3>1. rdr'.last = rdr.last /\ log' = log /\ got' = got
      BY <1>2, <2>4, ReadFollows
    <3> QED
      BY <3>1 DEF Log!logVars, Inserted
  <2>5. CASE FilterDone
    <3>1. ReaderDone
      BY <2>5 DEF FilterDone
    <3>2. rdr'.last = 0 /\ got' = <<>> /\ log' = log
      BY <1>2, <3>1, ReadEnds
    <3>3. rdr.pc = "ready" /\ ReaderAtStart
      BY <3>1 DEF ReaderDone
    <3>4. rdr.last # 0
      <4>1. rdr.last = Len(log) /\ log # <<>>
        BY <1>2, <3>3 DEF ReadInv, Backwards
      <4> QED
        BY <1>2, <4>1, LogFacts
    <3>5. Log!AtStart
      BY <3>3 DEF Log!AtStart, AbstractStart, ReaderAtStart
    <3> QED
      BY <3>2, <3>4, <3>5 DEF Log!Close, Log!LogNext, Inserted
  <2>6. CASE UNCHANGED vars
    BY <2>6 DEF vars, bufVars, rdrVars, Log!logVars, Inserted
  <2> QED
    BY <1>2, <2>1, <2>2, <2>3, <2>4, <2>5, <2>6 DEF Next
<1> QED
  BY <1>1, <1>2, LirInvariant, PTL DEF Spec

-----------------------------------------------------------------------------
(* BitSet is a set of natural numbers.                                     *)

\* g are the powers of 2 as far as n.
Powers(g, n) ==
  /\ g \in [0 .. n -> Nat] /\ g[0] = 1
  /\ \A k \in 1 .. n : g[k] = 2 * g[k - 1]

LEMMA PowersExist == \A n \in Nat : \E g : Powers(g, n)
<1> DEFINE T == {n \in Nat : ~ \E g : Powers(g, n)}
<1> SUFFICES ASSUME T # {} PROVE FALSE
  OBVIOUS
<1>1. PICK x \in T : \A y \in T : x <= y
  BY LeastNat
<1>2. CASE x = 0
  <2>1. Powers([k \in 0 .. 0 |-> 1], 0)
    BY DEF Powers
  <2> QED
    BY <1>1, <1>2, <2>1
<1>3. CASE x # 0
  <2>1. x - 1 \in Nat /\ x - 1 \notin T /\ x \in Nat
    BY <1>1, <1>3
  <2>2. PICK g : Powers(g, x - 1)
    BY <2>1
  <2>3. Powers([k \in 0 .. x |-> IF k = x THEN 2 * g[x - 1] ELSE g[k]], x)
    <3>1. PICK h : h = [k \in 0 .. x |-> IF k = x THEN 2 * g[x - 1] ELSE g[k]]
      OBVIOUS
    <3>2. /\ g \in [0 .. (x - 1) -> Nat] /\ g[0] = 1
          /\ \A k \in 1 .. (x - 1) : g[k] = 2 * g[k - 1]
      BY <2>2 DEF Powers
    <3>3. h \in [0 .. x -> Nat] /\ h[x] = 2 * g[x - 1]
      BY <2>1, <3>1, <3>2
    <3>4. \A k \in 0 .. (x - 1) : h[k] = g[k]
      BY <2>1, <3>1
    <3>5. ASSUME NEW k \in 1 .. x PROVE h[k] = 2 * h[k - 1]
      <4>1. k - 1 \in 0 .. (x - 1) /\ h[k - 1] = g[k - 1]
        BY <2>1, <3>4
      <4>2. CASE k = x
        BY <3>3, <4>1, <4>2
      <4>3. CASE k # x
        <5>1. k \in 1 .. (x - 1) /\ k \in 0 .. (x - 1)
          BY <2>1, <4>3
        <5> QED
          BY <3>2, <3>4, <4>1, <5>1
      <4> QED
        BY <4>2, <4>3
    <3>6. h[0] = 1
      BY <2>1, <3>2, <3>4
    <3>7. Powers(h, x)
      BY <3>3, <3>5, <3>6 DEF Powers
    <3> QED
      BY <3>1, <3>7
  <2> QED
    BY <1>1, <2>3
<1> QED
  BY <1>2, <1>3

LEMMA PowersUnique ==
  ASSUME NEW n \in Nat, NEW m \in Nat, NEW g, NEW h, Powers(g, n), Powers(h, m),
         NEW k \in Nat, k <= n, k <= m
  PROVE  g[k] = h[k]
<1> DEFINE T == {j \in Nat : j <= n /\ j <= m /\ g[j] # h[j]}
<1> SUFFICES ASSUME T # {} PROVE FALSE
  OBVIOUS
<1>1. PICK x \in T : \A y \in T : x <= y
  BY LeastNat
<1>2. x # 0 /\ x \in Nat /\ x <= n /\ x <= m /\ g[x] # h[x]
  BY <1>1 DEF Powers
<1>3. x - 1 \notin T
  BY <1>1, <1>2
<1>4. g[x - 1] = h[x - 1]
  BY <1>2, <1>3
<1> QED
  BY <1>2, <1>4 DEF Powers

LEMMA Power2OK ==
  /\ Power2[0] = 1
  /\ \A n \in Nat \ {0} : Power2[n] = 2 * Power2[n - 1]
<1> DEFINE Def(f) == f = [n \in Nat |-> IF n = 0 THEN 1 ELSE 2 * f[n - 1]]
           G(n) == CHOOSE g : Powers(g, n)
           F == [n \in Nat |-> G(n)[n]]
<1>1. \A n \in Nat : Powers(G(n), n)
  BY PowersExist
<1>2. F[0] = 1
  BY <1>1 DEF Powers
<1>3. ASSUME NEW n \in Nat, n # 0 PROVE F[n] = 2 * F[n - 1]
  <2>1. n - 1 \in Nat /\ n - 1 <= n
    BY <1>3
  <2>2. Powers(G(n), n) /\ Powers(G(n - 1), n - 1)
    BY <1>1, <2>1
  <2> HIDE DEF G
  <2>3. G(n)[n - 1] = G(n - 1)[n - 1]
    BY <2>1, <2>2, PowersUnique
  <2>4. G(n)[n] = 2 * G(n)[n - 1]
    BY <1>3, <2>2 DEF Powers
  <2> QED
    BY <2>1, <2>3, <2>4
<1>4. Def(F)
  <2> HIDE DEF G
  <2>1. \A n \in Nat : F[n] = IF n = 0 THEN 1 ELSE 2 * F[n - 1]
    BY <1>2, <1>3
  <2> QED
    BY <2>1
<1>5. Def(Power2)
  <2>1. Power2 = CHOOSE f : Def(f)
    BY DEF Power2
  <2> HIDE DEF F, Def
  <2> QED
    BY <1>4, <2>1
<1> HIDE DEF F, G
<1>6. \A n \in Nat : Power2[n] = IF n = 0 THEN 1 ELSE 2 * Power2[n - 1]
  BY <1>5
<1> QED
  BY <1>6

LEMMA Power2Large == \A n \in Nat : Power2[n] \in Nat /\ Power2[n] > n
<1> DEFINE T == {n \in Nat : ~(Power2[n] \in Nat /\ Power2[n] > n)}
<1> SUFFICES ASSUME T # {} PROVE FALSE
  OBVIOUS
<1>1. PICK x \in T : \A y \in T : x <= y
  BY LeastNat
<1>2. x \in Nat \ {0}
  BY <1>1, Power2OK
<1>3. x - 1 \in Nat /\ x - 1 \notin T
  BY <1>1, <1>2
<1>4. Power2[x - 1] \in Nat /\ Power2[x - 1] > x - 1 /\ Power2[x] = 2 * Power2[x - 1]
  BY <1>2, <1>3, Power2OK
<1>5. Power2[x] \in Nat /\ Power2[x] > x
  BY <1>2, <1>4
<1> QED
  BY <1>1, <1>5

LEMMA GrownOK ==
  ASSUME NEW cap \in Nat \ {0}, NEW w \in Nat
  PROVE  GrownCap(cap, w) \in Nat /\ GrownCap(cap, w) > w
<1> DEFINE enough == {n \in 1 .. (w + 1) : cap * Power2[n] > w}
<1>1. w + 1 \in enough
  <2>1. PICK p : p = Power2[w + 1]
    OBVIOUS
  <2>2. p \in Nat /\ p > w
    BY <2>1, Power2Large
  <2>3. cap * p >= p
    BY <2>2
  <2>4. cap * p > w /\ w + 1 \in 1 .. (w + 1)
    BY <2>2, <2>3
  <2> QED
    BY <2>1, <2>4
<1>2. enough \subseteq Nat
  OBVIOUS
<1>3. \E n \in enough : \A m \in enough : n <= m
  <2> HIDE DEF enough
  <2> QED
    BY <1>1, <1>2, LeastNat
<1>4. PICK n : n = CHOOSE k \in enough : \A m \in enough : k <= m
  OBVIOUS
<1>5. n \in enough
  <2> HIDE DEF enough
  <2> QED
    BY <1>3, <1>4
<1>6. GrownCap(cap, w) = cap * Power2[n]
  BY <1>4 DEF GrownCap
<1>7. Power2[n] \in Nat
  BY <1>5, Power2Large
<1> QED
  BY <1>5, <1>6, <1>7

BitsOK(s) ==
  /\ s = [cap |-> s.cap, bits |-> s.bits]
  /\ s.cap \in Nat \ {0} /\ s.bits \in [0 .. (s.cap - 1) -> SUBSET Nat]
Members(s) == {i \in Nat : GetBit(s, i)}

LEMMA WordOfBit ==
  ASSUME NEW i \in Nat
  PROVE  /\ Bitnum2word(i) \in Nat /\ Bitnum2mask(i) \in Nat
         /\ i = WordBits * Bitnum2word(i) + Bitnum2mask(i)
BY BitSetAssumption DEF Bitnum2word, Bitnum2mask

\* BitSet holds a set of numbers, however many bits a word has, however few
\* words it began with and however far it grew (BitSet::set, get, grow, reset).
THEOREM BitSetIsSet ==
  /\ BitsOK(NewBits) /\ Members(NewBits) = {}
  /\ \A s : BitsOK(s) =>
       /\ BitsOK(ResetBits(s)) /\ Members(ResetBits(s)) = {}
       /\ \A i \in Nat : /\ BitsOK(SetBit(s, i))
                         /\ Members(SetBit(s, i)) = Members(s) \cup {i}
<1>1. ASSUME NEW s, s.cap \in Nat \ {0}, s = [cap |-> s.cap, bits |-> Zeros(s.cap)]
      PROVE  BitsOK(s) /\ Members(s) = {}
  <2>1. s.bits = Zeros(s.cap) /\ s.bits \in [0 .. (s.cap - 1) -> SUBSET Nat]
    BY <1>1 DEF Zeros
  <2>2. ASSUME NEW i \in Nat PROVE ~GetBit(s, i)
    <3>1. Bitnum2word(i) \in Nat
      BY WordOfBit
    <3> QED
      BY <1>1, <2>1, <3>1 DEF GetBit, Zeros
  <2> QED
    BY <1>1, <2>1, <2>2 DEF BitsOK, Members
<1>2. BitsOK(NewBits) /\ Members(NewBits) = {}
  <2>1. /\ NewBits.cap \in Nat \ {0}
        /\ NewBits = [cap |-> NewBits.cap, bits |-> Zeros(NewBits.cap)]
    BY BitSetAssumption DEF NewBits
  <2> QED
    BY <1>1, <2>1
<1>3. ASSUME NEW s, BitsOK(s)
      PROVE  BitsOK(ResetBits(s)) /\ Members(ResetBits(s)) = {}
  <2>1. ResetBits(s) = [cap |-> s.cap, bits |-> Zeros(s.cap)] /\ s.cap \in Nat \ {0}
    BY <1>3 DEF BitsOK, ResetBits
  <2>2. PICK t : t = ResetBits(s)
    OBVIOUS
  <2>3. t.cap \in Nat \ {0} /\ t = [cap |-> t.cap, bits |-> Zeros(t.cap)]
    BY <2>1, <2>2
  <2> QED
    BY <1>1, <2>2, <2>3
<1>4. ASSUME NEW s, BitsOK(s), NEW i \in Nat
      PROVE  BitsOK(SetBit(s, i)) /\ Members(SetBit(s, i)) = Members(s) \cup {i}
  <2>1. PICK w, m : w = Bitnum2word(i) /\ m = Bitnum2mask(i)
    OBVIOUS
  <2>2. w \in Nat /\ m \in Nat /\ i = WordBits * w + m
    BY <2>1, WordOfBit
  <2>3. /\ s.cap \in Nat \ {0} /\ s.bits \in [0 .. (s.cap - 1) -> SUBSET Nat]
        /\ s = [cap |-> s.cap, bits |-> s.bits]
    BY <1>4 DEF BitsOK
  <2>4. PICK t : t = IF w >= s.cap THEN Grow(s, w) ELSE s
    OBVIOUS
  <2>5. /\ BitsOK(t) /\ w < t.cap
        /\ \A v \in Nat : v < s.cap => v < t.cap /\ t.bits[v] = s.bits[v]
        /\ \A v \in Nat : ~(v < s.cap) /\ v < t.cap => t.bits[v] = {}
    <3>1. CASE w >= s.cap
      <4>1. PICK c : c = GrownCap(s.cap, w)
        OBVIOUS
      <4>2. c \in Nat /\ c > w
        BY <2>2, <2>3, <4>1, GrownOK
      <4>3. t = [cap |-> c, bits |-> [v \in 0..(c - 1) |->
                                       IF v < s.cap THEN s.bits[v] ELSE {}]]
        BY <2>4, <3>1, <4>1 DEF Grow
      <4>4. t.cap = c /\ t.bits = [v \in 0..(c - 1) |->
                                    IF v < s.cap THEN s.bits[v] ELSE {}]
        BY <4>3
      <4>5. t.bits \in [0 .. (c - 1) -> SUBSET Nat]
        BY <2>3, <4>2, <4>4
      <4> QED
        BY <2>2, <2>3, <3>1, <4>2, <4>3, <4>4, <4>5 DEF BitsOK
    <3>2. CASE ~(w >= s.cap)
      BY <1>4, <2>2, <2>3, <2>4, <3>2
    <3> QED
      BY <3>1, <3>2
  <2>6. SetBit(s, i) = [t EXCEPT !.bits[w] = @ \cup {m}]
    BY <2>1, <2>4 DEF SetBit
  <2>7. PICK u : u = SetBit(s, i)
    OBVIOUS
  <2>8. /\ t.cap \in Nat \ {0} /\ t.bits \in [0 .. (t.cap - 1) -> SUBSET Nat]
        /\ t = [cap |-> t.cap, bits |-> t.bits] /\ w \in 0 .. (t.cap - 1)
    BY <2>2, <2>5 DEF BitsOK
  <2>9. /\ u = [cap |-> t.cap, bits |-> [t.bits EXCEPT ![w] = @ \cup {m}]]
    BY <2>6, <2>7, <2>8
  <2>10. /\ u.cap = t.cap /\ u.bits = [t.bits EXCEPT ![w] = @ \cup {m}]
         /\ u = [cap |-> u.cap, bits |-> u.bits]
    BY <2>9
  <2>11. /\ u.bits \in [0 .. (t.cap - 1) -> SUBSET Nat]
         /\ u.bits[w] = t.bits[w] \cup {m}
         /\ \A v \in 0 .. (t.cap - 1) : v # w => u.bits[v] = t.bits[v]
    BY <2>2, <2>8, <2>10
  <2>12. BitsOK(u)
    BY <2>8, <2>10, <2>11 DEF BitsOK
  <2>13. ASSUME NEW j \in Nat
         PROVE  GetBit(u, j) <=> (j = i \/ GetBit(s, j))
    <3>1. PICK v, n : v = Bitnum2word(j) /\ n = Bitnum2mask(j)
      OBVIOUS
    <3>2. v \in Nat /\ n \in Nat /\ j = WordBits * v + n
      BY <3>1, WordOfBit
    <3>3. (v = w /\ n = m) <=> j = i
      BY <2>1, <2>2, <3>1, <3>2
    <3>4. GetBit(u, j) <=> v < t.cap /\ n \in u.bits[v]
      BY <2>10, <3>1 DEF GetBit
    <3>5. GetBit(s, j) <=> v < s.cap /\ n \in s.bits[v]
      BY <3>1 DEF GetBit
    <3>6. GetBit(s, j) <=> v < t.cap /\ n \in t.bits[v]
      BY <2>5, <3>2, <3>5
    <3>7. CASE v = w
      BY <2>5, <2>11, <3>3, <3>4, <3>6, <3>7
    <3>8. CASE v # w
      <4>1. v < t.cap => u.bits[v] = t.bits[v]
        BY <2>8, <2>11, <3>2, <3>8
      <4> QED
        BY <3>3, <3>4, <3>6, <3>8, <4>1
    <3> QED
      BY <3>7, <3>8
  <2> QED
    BY <2>7, <2>12, <2>13 DEF Members
<1> QED
  BY <1>2, <1>3, <1>4

-----------------------------------------------------------------------------
(* The stack filter.                                                       *)

\* What is read at m stores to entry d.
StoreTo(m, d) == IsStackStore(got[m]) /\ got[m].d = d

\* A live guard is passed on, and top is that of the last one read.
LiveRight ==
  /\ live \subseteq kept /\ kept \subseteq DOMAIN got
  /\ \A g \in live : IsGuard(got[g])
  /\ \/ live = {} /\ top = 0
     \/ \E g \in live : top = got[g].top /\ \A h \in live : h <= g

\* A bit stands for a store read since the last live guard.
BitsRight ==
  \A d \in Nat : d < top /\ top - d \in Members(stk) =>
    \E m \in DOMAIN got : StoreTo(m, d) /\ \A g \in live : g < m

\* Why what is read at m was dropped: no live guard comes after it in the
\* fragment, or the next one has its entry above the top, or a later store
\* to the entry was seen and there is no live guard between.
NoGuardAfter(m) == \A g \in live : m < g
AboveTop(m) ==
  \E g \in live : /\ g < m /\ got[g].top <= got[m].d
                  /\ \A h \in live : h < m => h <= g
StoredAgain(m) ==
  \E o \in DOMAIN got : /\ o < m /\ StoreTo(o, got[m].d)
                        /\ \A g \in live : ~(o < g /\ g < m)
DroppedRight ==
  \A m \in DOMAIN got \ kept :
    IsStackStore(got[m]) /\ (NoGuardAfter(m) \/ AboveTop(m) \/ StoredAgain(m))

FilterInv == BitsOK(stk) /\ top \in Nat /\ LiveRight /\ BitsRight /\ DroppedRight

LEMMA StackOpsOK ==
  ASSUME NEW i \in Instructions
  PROVE  /\ IsStackStore(i) => i.d \in Nat
         /\ IsGuard(i) => i.top \in Nat
         /\ ~(IsGuard(i) /\ IsStackStore(i))
BY StackAssumption DEF Instructions, Start, ImmQ, Addp, IsStackStore, IsGuard

LEMMA FilterEmpty ==
  ASSUME stk' = NewBits, top' = 0, kept' = {}, live' = {}, got' = <<>>
  PROVE  FilterInv'
<1>1. BitsOK(stk') /\ DOMAIN got' = {}
  BY BitSetIsSet
<1> QED
  BY <1>1 DEF FilterInv, LiveRight, BitsRight, DroppedRight

LEMMA FilterSame ==
  ASSUME FilterInv, UNCHANGED filterVars, UNCHANGED got
  PROVE  FilterInv'
BY DEF FilterInv, LiveRight, BitsRight, DroppedRight, filterVars, StoreTo,
       NoGuardAfter, AboveTop, StoredAgain, Members

LEMMA FilterStep ==
  ASSUME LirInv, FilterInv, FilterRead
  PROVE  FilterInv'
<1>1. PICK i, n : i = log[Len(log) - Len(got)].ins /\ n = Len(got) + 1
  OBVIOUS
<1>2. /\ got \in Seq(Instructions) /\ got' = Append(got, i) /\ i \in Instructions
  <2>1. Read /\ UNCHANGED bufVars
    BY DEF FilterRead
  <2>2. /\ got \in Seq(Instructions) /\ Len(log) - Len(got) \in DOMAIN log
        /\ got' = Append(got, i)
    BY <1>1, <2>1, ReadNext DEF LirInv
  <2> QED
    BY <1>1, <2>2, LogFacts DEF LirInv
<1>3. /\ n \in Nat /\ n > 0 /\ DOMAIN got = 1 .. (n - 1) /\ DOMAIN got' = 1 .. n
      /\ Len(got') = n /\ got'[n] = i /\ \A m \in DOMAIN got : got'[m] = got[m]
  BY <1>1, <1>2
<1>4. /\ live \subseteq DOMAIN got /\ kept \subseteq DOMAIN got
      /\ live \subseteq kept /\ \A g \in live : IsGuard(got[g])
      /\ \/ live = {} /\ top = 0
         \/ \E g \in live : top = got[g].top /\ \A h \in live : h <= g
      /\ BitsOK(stk) /\ top \in Nat
  BY DEF FilterInv, LiveRight
<1>5. /\ IsStackStore(i) => i.d \in Nat
      /\ IsGuard(i) => i.top \in Nat
      /\ ~(IsGuard(i) /\ IsStackStore(i))
  BY <1>2, StackOpsOK
<1>6. \A g \in live : g < n /\ g \in Nat
  BY <1>3, <1>4
<1>7. ASSUME NEW m \in DOMAIN got, NEW d PROVE StoreTo(m, d)' <=> StoreTo(m, d)
  BY <1>3 DEF StoreTo
<1>8. ASSUME live' \subseteq live \cup {n}, live \subseteq live',
             NEW m \in DOMAIN got \ kept
      PROVE  /\ IsStackStore(got'[m])
             /\ (NoGuardAfter(m) \/ AboveTop(m) \/ StoredAgain(m))'
  <2>1. /\ IsStackStore(got[m]) /\ got'[m] = got[m] /\ m < n /\ m \in Nat /\ n \in Nat
        /\ NoGuardAfter(m) \/ AboveTop(m) \/ StoredAgain(m)
    BY <1>3 DEF FilterInv, DroppedRight
  <2>2. ASSUME NoGuardAfter(m) PROVE NoGuardAfter(m)'
    BY <1>8, <2>1, <2>2 DEF NoGuardAfter
  <2>3. ASSUME AboveTop(m) PROVE AboveTop(m)'
    <3>1. PICK g \in live : /\ g < m /\ got[g].top <= got[m].d
                            /\ \A h \in live : h < m => h <= g
      BY <2>3 DEF AboveTop
    <3>2. g \in live' /\ got'[g] = got[g]
      BY <1>3, <1>4, <1>8, <3>1
    <3>3. \A h \in live' : h < m => h <= g
      BY <1>8, <2>1, <3>1
    <3> QED
      BY <2>1, <3>1, <3>2, <3>3 DEF AboveTop
  <2>4. ASSUME StoredAgain(m) PROVE StoredAgain(m)'
    <3>1. PICK o \in DOMAIN got : /\ o < m /\ StoreTo(o, got[m].d)
                                  /\ \A g \in live : ~(o < g /\ g < m)
      BY <2>4 DEF StoredAgain
    <3>2. PICK d : d = got[m].d
      OBVIOUS
    <3>3. o \in DOMAIN got' /\ StoreTo(o, d)' /\ got'[m].d = d
      BY <1>3, <1>7, <2>1, <3>1, <3>2
    <3>4. \A g \in live' : ~(o < g /\ g < m)
      BY <1>8, <2>1, <3>1
    <3> QED
      BY <3>1, <3>3, <3>4 DEF StoredAgain
  <2> QED
    BY <2>1, <2>2, <2>3, <2>4
<1>9. ASSUME BitsRight, UNCHANGED <<stk, top, live>> PROVE BitsRight'
  <2> SUFFICES ASSUME NEW d \in Nat, d < top, top - d \in Members(stk)
               PROVE  \E m \in DOMAIN got' : StoreTo(m, d)' /\ \A g \in live : g < m
    BY <1>9 DEF BitsRight, Members
  <2>1. PICK m \in DOMAIN got : StoreTo(m, d) /\ \A g \in live : g < m
    BY <1>9 DEF BitsRight
  <2>2. m \in DOMAIN got' /\ StoreTo(m, d)'
    BY <1>3, <1>7, <2>1
  <2> QED
    BY <2>1, <2>2
<1>10. BitsRight /\ top \in Nat /\ BitsOK(stk)
  BY DEF FilterInv
<1>11. ASSUME kept' = kept \cup {n}, UNCHANGED live
       PROVE  DroppedRight'
  <2>1. DOMAIN got' \ kept' = DOMAIN got \ kept
    BY <1>3, <1>4, <1>11
  <2> QED
    BY <1>8, <1>11, <2>1 DEF DroppedRight
<1>12. ASSUME kept' = kept \/ kept' = kept \cup {n}, UNCHANGED <<top, live>>
       PROVE  LiveRight'
  BY <1>3, <1>4, <1>12 DEF LiveRight
\* The store is passed on.
<1>13. CASE IsStackStore(i) /\ ~Dropped(i.d) /\ FilterStore(i) /\ UNCHANGED <<top, live>>
  <2>1. stk' = SetBit(stk, top - i.d) /\ kept' = kept \cup {n}
    BY <1>3, <1>13 DEF FilterStore, PassOn
  <2>2. i.d \in Nat /\ i.d < top /\ top - i.d \in Nat
    BY <1>5, <1>10, <1>13 DEF Dropped
  <2>3. BitsOK(stk') /\ Members(stk') = Members(stk) \cup {top - i.d}
    BY <1>10, <2>1, <2>2, BitSetIsSet
  <2>4. BitsRight'
    <3> SUFFICES ASSUME NEW d \in Nat, d < top, top - d \in Members(stk')
                 PROVE  \E m \in DOMAIN got' : StoreTo(m, d)' /\ \A g \in live : g < m
      BY <1>13 DEF BitsRight, Members
    <3>1. CASE top - d \in Members(stk)
      <4>1. PICK m \in DOMAIN got : StoreTo(m, d) /\ \A g \in live : g < m
        BY <1>10, <3>1 DEF BitsRight
      <4>2. m \in DOMAIN got' /\ StoreTo(m, d)'
        BY <1>3, <1>7, <4>1
      <4> QED
        BY <4>1, <4>2
    <3>2. CASE top - d = top - i.d
      <4>1. d = i.d
        BY <1>10, <2>2, <3>2
      <4>2. StoreTo(n, d)' /\ n \in DOMAIN got'
        BY <1>3, <1>13, <4>1 DEF StoreTo
      <4> QED
        BY <1>6, <4>2
    <3> QED
      BY <2>3, <3>1, <3>2
  <2> QED
    BY <1>10, <1>11, <1>12, <1>13, <2>1, <2>3, <2>4 DEF FilterInv
\* The store is dropped.
<1>14. CASE IsStackStore(i) /\ Dropped(i.d) /\ FilterStore(i) /\ UNCHANGED <<top, live>>
  <2>1. stk' = stk /\ kept' = kept /\ top' = top /\ live' = live
    BY <1>14 DEF FilterStore
  <2>2. i.d \in Nat /\ (i.d >= top \/ (i.d < top /\ top - i.d \in Members(stk)))
    BY <1>5, <1>10, <1>14 DEF Dropped, Members
  <2>3. (NoGuardAfter(n) \/ AboveTop(n) \/ StoredAgain(n))'
    <3>1. CASE live = {}
      BY <2>1, <3>1 DEF NoGuardAfter
    <3>2. CASE live # {} /\ i.d >= top
      <4>1. PICK g \in live : top = got[g].top /\ \A h \in live : h <= g
        BY <1>4, <3>2
      <4>2. g < n /\ got'[g] = got[g] /\ got'[n] = i
        BY <1>3, <1>4, <1>6, <4>1
      <4>3. got'[g].top <= got'[n].d
        BY <1>10, <2>2, <3>2, <4>1, <4>2
      <4> QED
        BY <2>1, <4>1, <4>2, <4>3 DEF AboveTop
    <3>3. CASE i.d < top /\ top - i.d \in Members(stk)
      <4>1. PICK m \in DOMAIN got : StoreTo(m, i.d) /\ \A g \in live : g < m
        BY <1>10, <2>2, <3>3 DEF BitsRight
      <4>2. PICK d : d = i.d
        OBVIOUS
      <4>3. m \in DOMAIN got' /\ m < n /\ StoreTo(m, d)' /\ got'[n].d = d
        BY <1>3, <1>7, <4>1, <4>2
      <4>4. \A g \in live' : ~(m < g /\ g < n)
        <5>1. m \in Nat
          BY <1>3, <4>1
        <5> QED
          BY <1>6, <2>1, <4>1, <5>1
      <4> QED
        BY <4>3, <4>4 DEF StoredAgain
    <3> QED
      BY <2>2, <3>1, <3>2, <3>3
  <2>4. DroppedRight'
    <3>1. DOMAIN got' \ kept' = (DOMAIN got \ kept) \cup {n}
      BY <1>3, <1>4, <2>1
    <3> QED
      BY <1>3, <1>8, <1>14, <2>1, <2>3, <3>1 DEF DroppedRight
  <2> QED
    BY <1>9, <1>10, <1>12, <2>1, <2>4 DEF FilterInv
<1>15. CASE IsGuard(i) /\ FilterLiveGuard(i)
  <2>1. /\ stk' = ResetBits(stk) /\ top' = i.top /\ kept' = kept \cup {n}
        /\ live' = live \cup {n}
    BY <1>3, <1>15 DEF FilterLiveGuard, PassOn
  <2>2. BitsOK(stk') /\ Members(stk') = {} /\ top' \in Nat
    BY <1>5, <1>10, <1>15, <2>1, BitSetIsSet
  <2>3. BitsRight'
    BY <2>2 DEF BitsRight, Members
  <2>4. LiveRight'
    BY <1>3, <1>4, <1>6, <1>15, <2>1 DEF LiveRight
  <2>5. DroppedRight'
    <3>1. DOMAIN got' \ kept' = DOMAIN got \ kept
      BY <1>3, <1>4, <2>1
    <3> QED
      BY <1>8, <2>1, <3>1 DEF DroppedRight
  <2> QED
    BY <2>2, <2>3, <2>4, <2>5 DEF FilterInv
<1>16. CASE FilterPass(i)
  <2>1. /\ kept' = kept \cup {n} /\ UNCHANGED <<stk, top, live>>
    BY <1>3, <1>16 DEF FilterPass, PassOn
  <2> QED
    BY <1>9, <1>10, <1>11, <1>12, <2>1 DEF FilterInv
<1> QED
  <2>1. \/ IsStackStore(i) /\ FilterStore(i) /\ UNCHANGED <<top, live>>
        \/ IsGuard(i) /\ FilterLiveGuard(i)
        \/ FilterPass(i)
    BY <1>3 DEF FilterRead
  <2> QED
    BY <1>13, <1>14, <1>15, <1>16, <2>1

FilterAlways == LirInv /\ FilterInv

\* The filter keeps its invariant: a bit is set for an entry only when it is
\* stored to again before the next live guard, and every store that was
\* dropped had one of the three reasons StackFilter::read has to drop it.
THEOREM FilterInvariant == Spec => []FilterAlways
<1>1. ASSUME StackInit PROVE FilterAlways
  <2>1. stk = NewBits /\ top = 0 /\ kept = {} /\ live = {} /\ got = <<>>
    BY <1>1 DEF StackInit, LirInit
  <2>2. BitsOK(stk) /\ DOMAIN got = {}
    BY <2>1, BitSetIsSet
  <2>3. FilterInv
    BY <2>1, <2>2 DEF FilterInv, LiveRight, BitsRight, DroppedRight
  <2> QED
    BY <1>1, <2>3, LirStart DEF FilterAlways
<1>2. ASSUME FilterAlways, [Next]_vars PROVE FilterAlways'
  <2>1. LirInv /\ FilterInv /\ LirInv'
    BY <1>2, LirStep DEF FilterAlways
  <2>2. CASE LirWrite /\ UNCHANGED filterVars
    <3>1. UNCHANGED got
      BY <2>2 DEF LirWrite, InsStart, InsOp, InsOther, Write, InsFar, InsCall, rdrVars
    <3> QED
      BY <2>1, <2>2, <3>1, FilterSame DEF FilterAlways
  <2>3. CASE NewReader /\ UNCHANGED filterVars
    <3>1. UNCHANGED got
      BY <2>1, <2>3 DEF NewReader, LirInv, ReadInv
    <3> QED
      BY <2>1, <2>3, <3>1, FilterSame DEF FilterAlways
  <2>4. CASE FilterRead
    BY <2>1, <2>4, FilterStep DEF FilterAlways
  <2>5. CASE FollowSkip /\ UNCHANGED filterVars
    BY <2>1, <2>5, FilterSame DEF FollowSkip, FilterAlways
  <2>6. CASE FilterDone
    BY <2>1, <2>6, FilterEmpty DEF FilterDone, ReaderDone, FilterAlways
  <2>7. CASE UNCHANGED vars
    BY <2>1, <2>7, FilterSame DEF vars, rdrVars, filterVars, FilterAlways
  <2> QED
    BY <1>2, <2>2, <2>3, <2>4, <2>5, <2>6, <2>7 DEF Next
<1> QED
  BY <1>1, <1>2, PTL DEF Spec

LEMMA LeastStore ==
  ASSUME NEW A, A \subseteq Nat, A # {}, NEW x,
         x = CHOOSE m \in A : \A o \in A : m <= o
  PROVE  x \in A /\ \A o \in A : x <= o
BY LeastNat

\* The first store that is passed on is the first there is.
LEMMA FilterSafe == ASSUME FilterAlways PROVE ExitsSeeTheirStack
<1>1. /\ live \subseteq kept /\ kept \subseteq DOMAIN got
      /\ (\A g \in live : IsGuard(got[g])) /\ DroppedRight
      /\ got \in Seq(Instructions)
  <2>1. got \in Seq(Instructions)
    <3>1. ReadInv
      BY DEF FilterAlways, LirInv
    <3>2. CASE rdr.pc = "none"
      <4>1. got = <<>>
        BY <3>1, <3>2 DEF ReadInv
      <4> QED
        BY <4>1
    <3>3. CASE rdr.pc # "none"
      BY <3>1, <3>3 DEF ReadInv, Backwards
    <3> QED
      BY <3>2, <3>3
  <2> QED
    BY <2>1 DEF FilterAlways, FilterInv, LiveRight
<1>2. DOMAIN got \subseteq Nat /\ \A m \in DOMAIN got : got[m] \in Instructions
  BY <1>1
<1>3. ASSUME NEW n \in live, NEW d \in 0 .. (got[n].top - 1), ~Popped(n, d)
      PROVE  LastStore(kept, n, d) = LastStore(DOMAIN got, n, d)
  <2>1. PICK A, K : /\ A = {m \in DOMAIN got : n < m /\ IsStackStore(got[m]) /\ got[m].d = d}
                    /\ K = {m \in kept : n < m /\ IsStackStore(got[m]) /\ got[m].d = d}
    OBVIOUS
  <2>2. K \subseteq A /\ A \subseteq Nat /\ n \in Nat /\ n \in DOMAIN got
    BY <1>1, <1>2, <2>1
  <2>3. /\ LastStore(DOMAIN got, n, d) = IF A = {} THEN 0 ELSE CHOOSE m \in A : \A o \in A : m <= o
        /\ LastStore(kept, n, d) = IF K = {} THEN 0 ELSE CHOOSE m \in K : \A o \in K : m <= o
    BY <2>1 DEF LastStore
  <2>4. CASE A = {}
    BY <2>2, <2>3, <2>4
  <2>5. CASE A # {}
    <3>1. PICK x : x = CHOOSE m \in A : \A o \in A : m <= o
      OBVIOUS
    <3>2. x \in A /\ x \in Nat /\ \A o \in A : x <= o
      BY <2>2, <2>5, <3>1, LeastStore
    <3>3. /\ LastStore(DOMAIN got, n, d) = x /\ x # 0 /\ n < x
          /\ x \in DOMAIN got /\ IsStackStore(got[x]) /\ got[x].d = d
      BY <2>1, <2>2, <2>3, <2>5, <3>1, <3>2
    <3>4. x \in kept
      <4> SUFFICES ASSUME x \notin kept PROVE FALSE
        OBVIOUS
      <4>1. NoGuardAfter(x) \/ AboveTop(x) \/ StoredAgain(x)
        BY <1>1, <3>3 DEF DroppedRight
      <4>2. got[n].top \in Nat /\ d < got[n].top /\ d \in Nat
        BY <1>1, <1>2, <2>2, StackOpsOK
      <4>3. ~NoGuardAfter(x)
        BY <2>2, <3>2, <3>3 DEF NoGuardAfter
      <4>4. ~AboveTop(x)
        <5> SUFFICES ASSUME NEW g \in live, g < x, got[g].top <= got[x].d,
                            \A h \in live : h < x => h <= g
                     PROVE  FALSE
          BY DEF AboveTop
        <5>1. n <= g /\ g \in Nat
          BY <1>1, <1>2, <3>3
        <5>2. g # n
          BY <3>3, <4>2
        <5>3. n < g
          BY <2>2, <5>1, <5>2
        <5> QED
          BY <1>3, <3>3, <5>3 DEF Popped
      <4>5. ~StoredAgain(x)
        <5> SUFFICES ASSUME NEW o \in DOMAIN got, o < x, StoreTo(o, got[x].d),
                            \A g \in live : ~(o < g /\ g < x)
                     PROVE  FALSE
          BY DEF StoredAgain
        <5>1. IsStackStore(got[o]) /\ got[o].d = d /\ o \in Nat
          BY <1>2, <3>3 DEF StoreTo
        <5>2. o # n
          BY <1>1, <1>2, <2>2, <5>1, StackOpsOK
        <5>3. n < o
          BY <2>2, <3>3, <5>1, <5>2
        <5>4. o \in A
          BY <2>1, <5>1, <5>3
        <5> QED
          BY <3>2, <5>1, <5>4
      <4> QED
        BY <4>1, <4>3, <4>4, <4>5
    <3>5. x \in K
      BY <2>1, <3>3, <3>4
    <3>6. PICK y : y = CHOOSE m \in K : \A o \in K : m <= o
      OBVIOUS
    <3>7. K \subseteq Nat /\ K # {}
      BY <2>2, <3>5
    <3>8. y \in K /\ \A o \in K : y <= o
      BY <3>6, <3>7, LeastStore
    <3>9. y = x
      BY <2>2, <3>2, <3>5, <3>8
    <3> QED
      BY <2>3, <3>3, <3>6, <3>7, <3>9
  <2> QED
    BY <2>4, <2>5
<1> QED
  BY <1>1, <1>3 DEF ExitsSeeTheirStack

\* Once a fragment is read, every live exit has been passed on and finds in
\* each entry of the stack below its top what the fragment stores there: no
\* store that an exit sees is dropped (StackFilter::read), for fragments of any
\* length with any number of guards, however the bits of the set are laid out.
THEOREM ExitsAlwaysSeeTheirStack == Spec => []ExitsSeeTheirStack
<1>1. FilterAlways => ExitsSeeTheirStack
  BY FilterSafe
<1> QED
  BY <1>1, FilterInvariant, PTL

=============================================================================
