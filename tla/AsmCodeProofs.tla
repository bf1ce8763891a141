--------------------------- MODULE AsmCodeProofs ----------------------------
(***************************************************************************)
(* Theorems about AsmCode, for any sequence of compilations, failed ones   *)
(* included, and for any sizes: nothing is leaked, code is emitted to      *)
(* writable memory and within its block, exits apart from the main code,   *)
(* headers are written in writable memory only, and finished code can run. *)
(***************************************************************************)
EXTENDS AsmCode, CodeAllocProofs

-----------------------------------------------------------------------------
(* The inductive invariant.                                                *)

Compiling == {"gen", "genPage", "prologue", "prologuePage"}
Failed == {"freeList", "freeExit", "freeCode", "markAll"}

Buf == [start : Nat, end : Nat, ip : Nat]
Sound(p) == p \in Buf /\ p.start <= p.ip /\ p.ip <= p.end

AsmTypes ==
  /\ pc \in Compiling \cup Failed \cup {"idle", "keepExit", "keepCode", "mark", "release"}
  /\ pc # "idle" => frag \in Client
  /\ here # NULL => Sound(here)
  /\ there # NULL => Sound(there)
  /\ want \in 0 .. MinAllocSize
  /\ entry \subseteq Client
  /\ releases \in Nat

\* Which buffers there are.  What is kept of a block has code in it.
BuffersRight ==
  /\ pc \in Compiling \cup {"keepExit", "keepCode", "freeList", "freeExit", "freeCode"}
       => here # NULL
  /\ pc \in {"gen", "prologue", "keepExit", "freeList", "freeExit"} /\ there # NULL
       => Extent(here) # Extent(there)
  /\ inExit => there # NULL
  /\ inExit /\ pc \in Compiling => pc \in {"gen", "genPage"}
  /\ pc \in {"keepExit", "freeExit"} => there # NULL
  /\ pc \in Compiling \cup {"keepExit"} /\ there # NULL /\ ~inExit
       => there.ip < there.end
  /\ pc = "keepExit" => ~inExit
  /\ pc \in {"keepExit", "keepCode"} => here.ip < here.end

\* The ranges that are held are the buffers in use.
RangesAreBuffers ==
  \A f \in Client : range[f] = IF f = frag THEN {Extent(p) : p \in Filling} ELSE {}

\* A fragment has code when it is finished, and while it is compiled.
CodeIsFinished ==
  /\ \A f \in Client : f # frag \/ pc = "idle" => (code[f] = <<>> <=> f \notin entry)
  /\ pc # "idle" => frag \notin entry
  /\ pc = "mark" => code[frag] # <<>>
  /\ pc \in {"freeExit", "freeCode", "markAll"} => code[frag] = <<>>
  /\ freeing # NULL => /\ pc \in {"freeList", "release"} /\ freeing = frag
                       /\ code[frag] # <<>>

\* The chunks of the blocks S.
ChunksOf(S) == {hdr[b].terminator : b \in S}

\* Buffers are in chunks that can be written; the code of finished fragments
\* is in chunks that can be run, or that the fragment being compiled has blocks
\* in, which it will mark in the end.
Writable(c) == \A r \in range[c] : hdr[GetBlock(r)].terminator \notin isExec
Executable == \A f \in entry : ChunksOf(Elements(code[f])) \subseteq isExec
WillExecute(c) ==
  \A f \in entry : ChunksOf(Elements(code[f]))
                      \subseteq isExec \cup ChunksOf(Owned(range, code, c))
ProtectionRight ==
  /\ pc \in Compiling => Writable(frag)
  /\ pc \in {"idle", "release"} => Executable
  /\ pc \in Compiling \cup {"keepExit", "keepCode", "mark"} => WillExecute(frag)

\* While no finished code has been freed, every block that may be filled has
\* room for a jump after a page break and the sequence that caused it.
Room == HeaderSpaceFor(2) + MinAllocSize
RoomLeft ==
  releases = 0 =>
    /\ FreeRoom(hdr, heapblocks, Room)
    /\ pc # "release"
    /\ pc # "idle" => \A r \in range[frag] : r.end - r.start >= Room
    /\ pc \in Compiling \cup {"freeList"} =>
         \A b \in Elements(code[frag]) : Size(hdr, b) >= Room
    /\ Emitting => Fits(want)

\* Headers are aligned, so that holes are where their blocks start.
Aligned == \A b \in DOMAIN hdr : b % PtrSize = 0

AsmInv ==
  /\ IInv /\ AllHeld /\ AsmTypes /\ BuffersRight /\ RangesAreBuffers
  /\ CodeIsFinished /\ ProtectionRight /\ RoomLeft /\ Aligned

-----------------------------------------------------------------------------
(* Buffers and the blocks they are.                                        *)

LEMMA ExtentOK ==
  ASSUME NEW p, Sound(p)
  PROVE  /\ Extent(p) \in [start : Nat, end : Nat] /\ p # NULL
         /\ Extent(p).start = p.start /\ Extent(p).end = p.end
         /\ p.start \in Nat /\ p.end \in Nat /\ p.ip \in p.start .. p.end
BY NoBufferAssumption DEF Sound, Buf, Extent

LEMMA BufferOK ==
  ASSUME NEW r \in [start : Nat, end : Nat], NEW u \in Nat, r.start + u <= r.end
  PROVE  /\ Sound(Buffer(r, u)) /\ Buffer(r, u) # NULL /\ Extent(Buffer(r, u)) = r
         /\ Buffer(r, u).start = r.start /\ Buffer(r, u).ip = r.end - u
<1>1. Buffer(r, u) \in Buf /\ Extent(Buffer(r, u)) = r
  BY DEF Buffer, Buf, Extent
<1> QED
  BY <1>1, NoBufferAssumption DEF Buffer, Sound, Buf

\* The sizes of CodeAlloc and those of the buffers.
LEMMA RoomOK ==
  /\ Room \in Nat /\ MinAllocSize \in Nat /\ HeaderSpaceFor(2) \in Nat
  /\ Room <= BytesPerAlloc - HeaderSpaceFor(2)
  /\ JumpSize \in Nat /\ JumpSize <= MinAllocSize
  /\ \A n \in 0 .. MinAllocSize : n + JumpSize <= Room
BY SizesAssumption, JumpAssumption, BufferAssumption DEF Room, HeaderSpaceFor

\* A range lies where its block is, and is aligned as its block is.
LEMMA RangeAligned ==
  ASSUME AsmInv, NEW c \in Client, NEW r \in range[c]
  PROVE  r.start % PtrSize = 0
<1>1. /\ GetBlock(r) \in InUse(hdr, heapblocks) /\ GetBlock(r) \in Nat
      /\ Start(GetBlock(r)) = r.start
  BY RangeBlock DEF AsmInv
<1>2. GetBlock(r) % PtrSize = 0 /\ SizeofMinBlock % PtrSize = 0
  BY <1>1, BufferAssumption DEF AsmInv, Aligned, InUse
<1> QED
  BY <1>1, <1>2, MultipleSum, SizesAssumption DEF Start

-----------------------------------------------------------------------------
(* What a step leaves alone.                                               *)

FinishedStays ==
  \A f \in entry \cap entry' :
    /\ code'[f] = code[f]
    /\ \A i \in DOMAIN code[f] :
         /\ code[f][i] \in DOMAIN hdr'
         /\ RangeOf(hdr', code[f][i]) = RangeOf(hdr, code[f][i])

\* A step about blocks of fragment c leaves the code of all others alone.
LEMMA OthersStay ==
  ASSUME IInv, NEW c \in Client, NEW S, S \subseteq Owned(range, code, c),
         Steady(InUse(hdr, heapblocks) \ S),
         \A d \in Client \ {c} : code'[d] = code[d]
  PROVE  /\ \A d \in Client \ {c} : \A x \in Elements(code[d]) :
              /\ x \in InUse(hdr', heapblocks')
              /\ hdr'[x].higher = hdr[x].higher
              /\ hdr'[x].terminator = hdr[x].terminator
         /\ entry \subseteq Client /\ c \notin entry \cap entry' => FinishedStays
<1>1. ASSUME NEW d \in Client \ {c}, NEW x \in Elements(code[d])
      PROVE  /\ x \in InUse(hdr', heapblocks')
             /\ hdr'[x].higher = hdr[x].higher
             /\ hdr'[x].terminator = hdr[x].terminator
  <2>1. x \in Owned(range, code, d) /\ x \in InUse(hdr, heapblocks)
    BY <1>1 DEF IInv, Holding, ListsRight, Owned
  <2>2. x \notin Owned(range, code, c)
    BY <1>1, <2>1 DEF IInv, Holding, OwnedOnce
  <2> QED
    BY <2>1, <2>2 DEF Steady
<1>2. ASSUME entry \subseteq Client, c \notin entry \cap entry'
      PROVE  FinishedStays
  <2> SUFFICES ASSUME NEW f \in entry \cap entry', NEW i \in DOMAIN code[f]
               PROVE  /\ code[f][i] \in DOMAIN hdr'
                      /\ RangeOf(hdr', code[f][i]) = RangeOf(hdr, code[f][i])
    BY <1>2 DEF FinishedStays
  <2>1. code[f][i] \in Elements(code[f]) /\ f \in Client \ {c}
    BY <1>2 DEF Elements
  <2> QED
    BY <1>1, <2>1 DEF InUse, RangeOf
<1> QED
  BY <1>1, <1>2

\* alloc without a limit, as the Assembler calls it.
Allocated(f, r) ==
  /\ r \in [start : Nat, end : Nat] /\ r \notin range[f] /\ Fresh(f) = r
  /\ range' = [range EXCEPT ![f] = @ \cup {r}]
  /\ isExec' = isExec \ {hdr'[GetBlock(r)].terminator}
  /\ r.end - r.start >= MinAllocSize
  /\ releases = 0 => /\ r.end - r.start >= Room
                     /\ FreeRoom(hdr', heapblocks', Room)
  /\ Steady(InUse(hdr, heapblocks))
  /\ IInv' /\ AllHeld' /\ Aligned'
  /\ code' = code /\ freeing = NULL /\ freeing' = NULL

LEMMA AllocOK ==
  ASSUME AsmInv, NEW f \in Client, Alloc(f)
  PROVE  \E r : Allocated(f, r)
<1> USE RoomOK, BufferAssumption
<1>1. PICK K \in Nat : /\ K <= BytesPerAlloc - HeaderSpaceFor(2)
                       /\ FreeRoom(hdr, heapblocks, K)
                       /\ releases = 0 => K = Room
  <2>1. CASE releases = 0
    BY <2>1 DEF AsmInv, RoomLeft
  <2>2. CASE releases # 0
    <3>1. 0 <= BytesPerAlloc - HeaderSpaceFor(2) /\ 0 \in Nat
      BY SizesAssumption DEF HeaderSpaceFor
    <3>2. FreeRoom(hdr, heapblocks, 0)
      BY SomeRoom DEF AsmInv, IInv, HeapOK
    <3> QED
      BY <2>2, <3>1, <3>2
  <2> QED
    BY <2>1, <2>2
<1>2. /\ Kept /\ Steady(InUse(hdr, heapblocks)) /\ FreeRoom(hdr', heapblocks', K)
      /\ code' = code /\ freeing = NULL /\ freeing' = NULL
      /\ \E r : Taken(f, r, K)
      /\ \A x \in DOMAIN hdr' :
           x \in DOMAIN hdr \/ \E m \in ChunkBase : x \in {m, Terminator(m)}
  BY <1>1, AllocStep DEF AsmInv, Alloc
<1>3. PICK r : Taken(f, r, K)
  BY <1>2
<1>4. IInv' /\ AllHeld'
  BY <1>2 DEF AsmInv, Kept
<1>5. Aligned'
  <2>1. ASSUME NEW x \in DOMAIN hdr'
        PROVE  x % PtrSize = 0
    <3>1. CASE x \in DOMAIN hdr
      BY <3>1 DEF AsmInv, Aligned
    <3>2. ASSUME NEW m \in ChunkBase, x \in {m, Terminator(m)}
          PROVE  x % PtrSize = 0
      <4>1. /\ m \in Int /\ m % PtrSize = 0 /\ BytesPerAlloc % PtrSize = 0
            /\ BytesPerAlloc \in Int /\ SizeofMinBlock \in Int
            /\ SizeofMinBlock % PtrSize = 0 /\ PtrSize \in Nat \ {0}
        BY ChunkAssumption, SizesAssumption
      <4>2. PICK e \in Int : e = m + BytesPerAlloc
        BY <4>1
      <4>3. e % PtrSize = 0
        BY <4>1, <4>2, MultipleSum
      <4>4. Terminator(m) = e - SizeofMinBlock
        BY <4>1, <4>2 DEF Terminator
      <4>5. (e - SizeofMinBlock) % PtrSize = 0
        BY <4>1, <4>3, MultipleSum
      <4> QED
        BY <3>2, <4>1, <4>4, <4>5, Zenon
    <3> QED
      BY <1>2, <3>1, <3>2
  <2> QED
    BY <2>1 DEF Aligned
<1>6. range \in [Client -> SUBSET [start : Nat, end : Nat]]
  BY DEF AsmInv, IInv, Holding, HoldingTyped
<1>7. Fresh(f) = r
  <2>1. range'[f] = range[f] \cup {r} /\ r \notin range[f]
    BY <1>3, <1>6 DEF Taken
  <2> QED
    BY <2>1 DEF Fresh
<1>8. r.end - r.start >= MinAllocSize
  <2>1. r \in range'[f]
    BY <1>3, <1>6 DEF Taken
  <2> QED
    BY <1>4, <2>1 DEF IInv, Holding, RangesRight
<1>9. releases = 0 => r.end - r.start >= Room /\ FreeRoom(hdr', heapblocks', Room)
  BY <1>1, <1>2, <1>3 DEF Taken
<1>10. Allocated(f, r)
  BY <1>2, <1>3, <1>4, <1>5, <1>7, <1>8, <1>9 DEF Taken, Allocated
<1> QED
  BY <1>10

\* It makes its chunk writable, which will be marked again.
LEMMA AllocProtects ==
  ASSUME AsmInv, NEW f \in Client, NEW r, Allocated(f, r),
         Writable(f), WillExecute(f), entry' = entry
  PROVE  Writable(f)' /\ WillExecute(f)'
<1>1. range \in [Client -> SUBSET [start : Nat, end : Nat]]
  BY DEF AsmInv, IInv, Holding, HoldingTyped
<1>2. /\ range'[f] = range[f] \cup {r} /\ code' = code
      /\ isExec' = isExec \ {hdr'[GetBlock(r)].terminator}
  BY <1>1 DEF Allocated
<1>3. AllOwned(range, code) \subseteq InUse(hdr, heapblocks)
  BY OwnedInUse DEF AsmInv, IInv
<1>4. \A c \in Client : \A x \in Owned(range, code, c) :
        hdr'[x].terminator = hdr[x].terminator
  BY <1>3 DEF AllOwned, Allocated, Steady
<1>5. Writable(f)'
  <2> SUFFICES ASSUME NEW q \in range'[f]
               PROVE  hdr'[GetBlock(q)].terminator \notin isExec'
    BY DEF Writable
  <2>1. CASE q = r
    BY <2>1, <1>2
  <2>2. CASE q \in range[f]
    <3>1. GetBlock(q) \in Owned(range, code, f)
      BY <2>2 DEF Owned
    <3> QED
      BY <2>2, <3>1, <1>2, <1>4 DEF Writable
  <2> QED
    BY <2>1, <2>2, <1>2
<1>6. WillExecute(f)'
  <2> SUFFICES ASSUME NEW g \in entry, NEW x \in Elements(code[g])
               PROVE  \/ hdr'[x].terminator \in isExec'
                      \/ \E y \in Owned(range', code', f) :
                           hdr'[x].terminator = hdr'[y].terminator
    BY <1>2 DEF WillExecute, ChunksOf
  <2>1. g \in Client /\ x \in Owned(range, code, g)
    BY DEF AsmInv, AsmTypes, Owned
  <2>2. hdr'[x].terminator = hdr[x].terminator
    BY <2>1, <1>4
  <2>3. GetBlock(r) \in Owned(range', code', f)
    BY <1>2 DEF Owned
  <2>4. CASE hdr[x].terminator \in isExec
    BY <2>2, <2>3, <2>4, <1>2
  <2>5. ASSUME NEW y \in Owned(range, code, f), hdr[x].terminator = hdr[y].terminator
        PROVE  \E z \in Owned(range', code', f) :
                 hdr'[x].terminator = hdr'[z].terminator
    <3>1. y \in Owned(range', code', f)
      BY <2>5, <1>2 DEF Owned
    <3> QED
      BY <2>2, <2>5, <3>1, <1>4
  <2>6. hdr[x].terminator \in isExec \cup ChunksOf(Owned(range, code, f))
    BY DEF WillExecute, ChunksOf
  <2> QED
    BY <2>4, <2>5, <2>6 DEF ChunksOf
<1> QED
  BY <1>5, <1>6

\* What a step must do.
Right == AsmInv' /\ FinishedStays

LEMMA BeginAssemblyOK ==
  ASSUME AsmInv, NEW f \in Client, BeginAssembly(f), UNCHANGED releases
  PROVE  Right
<1>1. /\ pc = "idle" /\ pc' = "gen" /\ f \notin entry /\ Alloc(f)
      /\ frag' = f /\ here' = Buffer(Fresh(f), 0) /\ there' = NULL
      /\ inExit' = FALSE /\ want' = 0 /\ error' = FALSE /\ entry' = entry
  BY DEF BeginAssembly
<1>2. PICK r : Allocated(f, r)
  BY <1>1, AllocOK
<1>3. /\ Sound(here') /\ here' # NULL /\ Extent(here') = r
      /\ here'.start = r.start /\ here'.ip = r.end
  BY <1>1, <1>2, RoomOK, BufferOK DEF Allocated
<1>4. /\ \A g \in Client : range[g] = {} /\ (code[g] = <<>> <=> g \notin entry)
      /\ freeing = NULL /\ code[f] = <<>> /\ entry \subseteq Client
  BY <1>1 DEF AsmInv, RangesAreBuffers, CodeIsFinished, Filling, AsmTypes
<1>5. /\ \A g \in Client : range'[g] = IF g = f THEN {r} ELSE {}
      /\ range \in [Client -> SUBSET [start : Nat, end : Nat]]
  BY <1>2, <1>4 DEF Allocated, AsmInv, IInv, Holding, HoldingTyped
<1>6. AsmTypes'
  <2>1. releases \in Nat
    BY DEF AsmInv, AsmTypes
  <2> QED
    BY <1>1, <1>3, <1>4, <2>1, RoomOK DEF AsmTypes, Compiling
<1>7. BuffersRight'
  BY <1>1, <1>3 DEF BuffersRight
<1>8. RangesAreBuffers'
  <2>1. Filling' = {here'}
    BY <1>1, <1>3 DEF Filling
  <2> QED
    BY <1>1, <1>3, <1>5, <2>1 DEF RangesAreBuffers
<1>9. CodeIsFinished'
  BY <1>1, <1>2, <1>4 DEF CodeIsFinished, Allocated
<1>10. ProtectionRight'
  <2>1. Writable(f) /\ WillExecute(f)
    BY <1>1, <1>4 DEF AsmInv, ProtectionRight, Executable, Writable, WillExecute
  <2>2. Writable(f)' /\ WillExecute(f)'
    BY <1>1, <1>2, <2>1, AllocProtects
  <2> QED
    BY <1>1, <2>2 DEF ProtectionRight, Writable, WillExecute, Compiling
<1>11. RoomLeft'
  <2> SUFFICES ASSUME releases = 0
               PROVE  /\ FreeRoom(hdr', heapblocks', Room)
                      /\ \A q \in range'[f] : q.end - q.start >= Room
                      /\ \A b \in Elements(code'[f]) : Size(hdr', b) >= Room
                      /\ here'.start + 0 <= here'.ip
    BY <1>1 DEF RoomLeft, Fits, Emitting
  <2>1. Elements(code'[f]) = {}
    BY <1>2, <1>4 DEF Allocated, Elements
  <2>2. here'.start + 0 <= here'.ip
    BY <1>3 DEF Sound, Buf
  <2>3. FreeRoom(hdr', heapblocks', Room) /\ r.end - r.start >= Room
    BY <1>2 DEF Allocated
  <2> QED
    BY <1>5, <2>1, <2>2, <2>3
<1>12. FinishedStays
  <2>1. /\ Steady(InUse(hdr, heapblocks) \ {}) /\ code' = code
        /\ f \notin entry \cap entry'
    BY <1>1, <1>2 DEF Allocated, Steady
  <2> QED
    BY <1>4, <2>1, OthersStay DEF AsmInv
<1> QED
  BY <1>2, <1>6, <1>7, <1>8, <1>9, <1>10, <1>11, <1>12 DEF Right, AsmInv, Allocated

\* What the fragment being compiled holds is what it is filling.
LEMMA FillingHeld ==
  ASSUME AsmInv, pc # "idle"
  PROVE  /\ frag \in Client /\ range[frag] = {Extent(p) : p \in Filling}
         /\ \A g \in Client \ {frag} : range[g] = {}
         /\ range \in [Client -> SUBSET [start : Nat, end : Nat]]
         /\ entry \subseteq Client /\ frag \notin entry
BY DEF AsmInv, RangesAreBuffers, AsmTypes, CodeIsFinished, IInv, Holding, HoldingTyped

\* A step that allocates a block for the fragment being compiled.
LEMMA AllocMore ==
  ASSUME AsmInv, pc \in Compiling, NEW r, Allocated(frag, r),
         frag' = frag, entry' = entry, releases' = releases
  PROVE  /\ CodeIsFinished' \/ pc' \notin Compiling
         /\ ProtectionRight' \/ pc' \notin Compiling
         /\ FinishedStays
         /\ range'[frag] = range[frag] \cup {r}
         /\ \A g \in Client \ {frag} : range'[g] = {}
         /\ releases = 0 =>
              /\ \A q \in range'[frag] : q.end - q.start >= Room
              /\ \A b \in Elements(code'[frag]) : Size(hdr', b) >= Room
<1>1. /\ frag \in Client /\ pc # "idle" /\ frag \notin entry /\ entry \subseteq Client
      /\ range'[frag] = range[frag] \cup {r}
      /\ \A g \in Client \ {frag} : range'[g] = {}
  BY FillingHeld DEF Compiling, Allocated
<1>2. CodeIsFinished' \/ pc' \notin Compiling
  BY <1>1 DEF AsmInv, CodeIsFinished, Allocated, Compiling
<1>3. ProtectionRight' \/ pc' \notin Compiling
  <2>1. Writable(frag) /\ WillExecute(frag)
    BY DEF AsmInv, ProtectionRight
  <2>2. Writable(frag)' /\ WillExecute(frag)'
    BY <1>1, <2>1, AllocProtects
  <2> QED
    BY <2>2 DEF ProtectionRight, Compiling
<1>4. FinishedStays
  <2>1. /\ Steady(InUse(hdr, heapblocks) \ {}) /\ code' = code
        /\ frag \notin entry \cap entry'
    BY <1>1 DEF Allocated, Steady
  <2> QED
    BY <1>1, <2>1, OthersStay DEF AsmInv
<1>5. ASSUME releases = 0
      PROVE  /\ \A q \in range'[frag] : q.end - q.start >= Room
             /\ \A b \in Elements(code'[frag]) : Size(hdr', b) >= Room
  <2>1. \A q \in range'[frag] : q.end - q.start >= Room
    BY <1>1, <1>5 DEF AsmInv, RoomLeft, Allocated
  <2>2. ASSUME NEW b \in Elements(code'[frag])
        PROVE  Size(hdr', b) >= Room
    <3>1. b \in Elements(code[frag]) /\ b \in InUse(hdr, heapblocks)
      BY <1>1 DEF Allocated, AsmInv, IInv, Holding, ListsRight
    <3>2. Size(hdr, b) >= Room
      BY <1>5, <3>1 DEF AsmInv, RoomLeft
    <3> QED
      BY <3>1, <3>2 DEF Allocated, Steady, Size
  <2> QED
    BY <2>1, <2>2
<1> QED
  BY <1>1, <1>2, <1>3, <1>4, <1>5

LEMMA NewBlockOK ==
  ASSUME AsmInv, NewBlock, UNCHANGED releases
  PROVE  Right
<1>1. /\ pc \in {"genPage", "prologuePage"} /\ Alloc(frag)
      /\ here' = Buffer(Fresh(frag), JumpSize)
      /\ pc' = IF pc = "genPage" THEN "gen" ELSE "prologue"
      /\ UNCHANGED <<frag, there, inExit, want, error, entry, releases>>
  BY DEF NewBlock, Paging
<1>2. /\ pc \in Compiling /\ pc # "idle" /\ pc' \in {"gen", "prologue"}
      /\ pc' \in Compiling
  BY <1>1 DEF Compiling
<1>3. frag \in Client /\ range[frag] = {Extent(p) : p \in {there} \ {NULL}}
  BY <1>1, <1>2, FillingHeld DEF Filling
<1>4. PICK r : Allocated(frag, r)
  BY <1>1, <1>3, AllocOK
<1>5. /\ Sound(here') /\ here' # NULL /\ Extent(here') = r
      /\ here'.start = r.start /\ here'.ip = r.end - JumpSize
  <2>1. r.start + JumpSize <= r.end
    BY <1>4, RoomOK DEF Allocated
  <2> QED
    BY <1>1, <1>4, <2>1, RoomOK, BufferOK DEF Allocated
<1>6. /\ CodeIsFinished' /\ ProtectionRight' /\ FinishedStays
      /\ range'[frag] = range[frag] \cup {r}
      /\ \A g \in Client \ {frag} : range'[g] = {}
      /\ releases = 0 =>
           /\ \A q \in range'[frag] : q.end - q.start >= Room
           /\ \A b \in Elements(code'[frag]) : Size(hdr', b) >= Room
  BY <1>1, <1>2, <1>4, AllocMore
<1>7. AsmTypes'
  BY <1>1, <1>2, <1>5 DEF AsmInv, AsmTypes, Compiling
<1>8. there # NULL => Extent(there) # r
  BY <1>3, <1>4 DEF Allocated
<1>9. BuffersRight'
  BY <1>1, <1>2, <1>5, <1>8 DEF AsmInv, BuffersRight, Compiling
<1>10. RangesAreBuffers'
  <2>1. Filling' = {here', there} \ {NULL}
    BY <1>1, <1>2 DEF Filling
  <2>2. {Extent(p) : p \in {here', there} \ {NULL}}
          = {r} \cup {Extent(p) : p \in {there} \ {NULL}}
    BY <1>5
  <2> QED
    BY <1>1, <1>3, <1>6, <2>1, <2>2 DEF RangesAreBuffers
<1>11. RoomLeft'
  <2>1. ASSUME releases = 0
        PROVE  here'.start + want <= here'.ip
    <3>1. want \in 0 .. MinAllocSize /\ r.end - r.start >= Room
      BY <1>4, <2>1 DEF AsmInv, AsmTypes, Allocated
    <3>2. want + JumpSize <= Room /\ r.start \in Nat /\ r.end \in Nat
      BY <1>4, <3>1, RoomOK DEF Allocated
    <3> QED
      BY <1>5, <3>1, <3>2, RoomOK
  <2>2. releases = 0 => FreeRoom(hdr', heapblocks', Room)
    BY <1>4 DEF Allocated
  <2> QED
    BY <1>1, <1>2, <1>6, <2>1, <2>2 DEF RoomLeft, Fits
<1> QED
  BY <1>4, <1>6, <1>7, <1>9, <1>10, <1>11 DEF Right, AsmInv, Allocated

LEMMA LeaveTraceFirstOK ==
  ASSUME AsmInv, LeaveTraceFirst, UNCHANGED releases
  PROVE  Right
<1>1. /\ pc = "gen" /\ ~inExit /\ want = 0 /\ there = NULL /\ Alloc(frag)
      /\ there' = here /\ here' = Buffer(Fresh(frag), 0) /\ inExit' = TRUE
      /\ UNCHANGED <<pc, frag, want, error, entry, releases>>
  BY DEF LeaveTraceFirst, LeaveTrace
<1>2. pc \in Compiling /\ pc' \in Compiling /\ pc' = "gen"
  BY <1>1 DEF Compiling
<1>3. here # NULL /\ Sound(here)
  BY <1>2 DEF AsmInv, BuffersRight, AsmTypes
<1>4. frag \in Client /\ range[frag] = {Extent(here)}
  <2>1. Filling = {here}
    BY <1>1, <1>3 DEF Filling
  <2> QED
    BY <1>1, <2>1, FillingHeld
<1>5. PICK r : Allocated(frag, r)
  BY <1>1, <1>4, AllocOK
<1>6. /\ Sound(here') /\ here' # NULL /\ Extent(here') = r
      /\ here'.start = r.start /\ here'.ip = r.end
  BY <1>1, <1>5, RoomOK, BufferOK DEF Allocated
<1>7. /\ CodeIsFinished' /\ ProtectionRight' /\ FinishedStays
      /\ range'[frag] = range[frag] \cup {r}
      /\ \A g \in Client \ {frag} : range'[g] = {}
      /\ releases = 0 =>
           /\ \A q \in range'[frag] : q.end - q.start >= Room
           /\ \A b \in Elements(code'[frag]) : Size(hdr', b) >= Room
  BY <1>1, <1>2, <1>5, AllocMore
<1>8. AsmTypes'
  BY <1>1, <1>3, <1>4, <1>6 DEF AsmInv, AsmTypes
<1>9. Extent(here) # r
  BY <1>4, <1>5 DEF Allocated
<1>10. BuffersRight'
  BY <1>1, <1>3, <1>6, <1>9 DEF BuffersRight, Compiling
<1>11. RangesAreBuffers'
  <2>1. Filling' = {here', here}
    BY <1>1, <1>3, <1>6 DEF Filling
  <2>2. {Extent(p) : p \in {here', here}} = {r, Extent(here)}
    BY <1>6
  <2> QED
    BY <1>1, <1>4, <1>7, <2>1, <2>2 DEF RangesAreBuffers
<1>12. RoomLeft'
  <2>1. here'.start + want <= here'.ip
    BY <1>1, <1>6 DEF Sound, Buf
  <2>2. releases = 0 => FreeRoom(hdr', heapblocks', Room)
    BY <1>5 DEF Allocated
  <2> QED
    BY <1>1, <1>2, <1>7, <2>1, <2>2 DEF RoomLeft, Fits
<1> QED
  BY <1>5, <1>7, <1>8, <1>10, <1>11, <1>12 DEF Right, AsmInv, Allocated

-----------------------------------------------------------------------------
(* Steps of the code generator that leave the allocator alone.             *)

LEMMA HeapSame ==
  ASSUME AsmInv, UNCHANGED vars
  PROVE  /\ IInv' /\ AllHeld' /\ Aligned' /\ FinishedStays
         /\ \A c : /\ (Writable(c)' <=> Writable(c))
                   /\ entry' = entry => (WillExecute(c)' <=> WillExecute(c))
         /\ entry' = entry => (Executable' <=> Executable)
<1>1. /\ hdr' = hdr /\ heapblocks' = heapblocks /\ availblocks' = availblocks
      /\ isExec' = isExec /\ code' = code /\ range' = range
      /\ freeing' = freeing /\ chunks' = chunks
  BY DEF vars
<1>2. IInv' /\ AllHeld' /\ Aligned'
  BY <1>1 DEF AsmInv, IInv, AllHeld, Aligned
<1>3. FinishedStays
  <2> SUFFICES ASSUME NEW f \in entry, NEW i \in DOMAIN code[f]
               PROVE  code[f][i] \in DOMAIN hdr
    BY <1>1 DEF FinishedStays
  <2>1. f \in Client /\ code[f][i] \in Elements(code[f])
    BY DEF AsmInv, AsmTypes, Elements
  <2> QED
    BY <2>1 DEF AsmInv, IInv, Holding, ListsRight, InUse
<1>4. /\ \A c : /\ (Writable(c)' <=> Writable(c))
                /\ entry' = entry => (WillExecute(c)' <=> WillExecute(c))
      /\ entry' = entry => (Executable' <=> Executable)
  BY <1>1 DEF Writable, WillExecute, Executable, ChunksOf
<1> QED
  BY <1>2, <1>3, <1>4

\* The buffers change places or are filled, the fragment stays the same.
LEMMA ControlOK ==
  ASSUME AsmInv, UNCHANGED <<vars, frag, entry, releases>>,
         pc \in Compiling, pc' \in Compiling \cup {"keepExit", "keepCode", "freeList"},
         AsmTypes', BuffersRight',
         {Extent(p) : p \in Filling'} = {Extent(p) : p \in Filling},
         (releases = 0 => (Emitting => Fits(want)))'
  PROVE  Right
<1>1. IInv' /\ AllHeld' /\ Aligned' /\ FinishedStays
  BY HeapSame DEF vars
<1>2. RangesAreBuffers'
  BY DEF AsmInv, RangesAreBuffers, vars
<1>3. CodeIsFinished'
  BY DEF AsmInv, CodeIsFinished, vars, Compiling
<1>4. ProtectionRight'
  BY HeapSame DEF AsmInv, ProtectionRight, Compiling, vars
<1>5. RoomLeft'
  BY DEF AsmInv, RoomLeft, Compiling, vars
<1> QED
  BY <1>1, <1>2, <1>3, <1>4, <1>5 DEF Right, AsmInv

LEMMA EmitsOK ==
  ASSUME AsmInv, NEW n \in 1 .. MinAllocSize, Protect(n) \/ Emit(n), UNCHANGED releases
  PROVE  Right
<1>1. /\ pc \in {"gen", "prologue"} /\ pc \in Compiling
      /\ UNCHANGED <<vars, pc, frag, there, inExit, error, entry, releases>>
  BY DEF Protect, Emit, Emitting, Compiling
<1>2. here # NULL /\ Sound(here) /\ want \in 0 .. MinAllocSize
  BY <1>1 DEF AsmInv, BuffersRight, AsmTypes
<1>3. /\ Sound(here') /\ Extent(here') = Extent(here) /\ here'.ip <= here.ip
      /\ want' \in 0 .. MinAllocSize
      /\ (releases = 0 => Fits(want)) => (releases = 0 => here'.start + want' <= here'.ip)
  <2>1. CASE Protect(n)
    <3>1. here' = here /\ want' = n /\ here.start + n <= here.ip
      BY <2>1 DEF Protect, Fits
    <3> QED
      BY <1>2, <3>1, RoomOK DEF Sound, Buf
  <2>2. CASE Emit(n)
    <3>1. /\ n <= want /\ here.start + n <= here.ip /\ want' \in {0, want - n}
          /\ here' = [here EXCEPT !.ip = @ - n]
      BY <2>2 DEF Emit, Fits
    <3>2. /\ here' = [start |-> here.start, end |-> here.end, ip |-> here.ip - n]
      BY <1>2, <3>1 DEF Sound, Buf
    <3>3. Sound(here')
      BY <1>2, <3>1, <3>2 DEF Sound, Buf
    <3>4. Extent(here') = Extent(here) /\ here'.start = here.start
          /\ here'.ip = here.ip - n
      BY <3>2 DEF Extent
    <3>5. /\ here.ip \in Nat /\ here.start \in Nat /\ want \in Nat /\ n \in Nat
          /\ MinAllocSize \in Nat
      BY <1>2, RoomOK DEF Sound, Buf
    <3>6. want' \in 0 .. MinAllocSize /\ here'.ip <= here.ip
      BY <1>2, <3>1, <3>4, <3>5
    <3>7. here.start + want <= here.ip => here'.start + want' <= here'.ip
      BY <3>1, <3>4, <3>5
    <3> QED
      BY <3>3, <3>4, <3>6, <3>7 DEF Fits
  <2> QED
    BY <2>1, <2>2
<1>4. here' # NULL
  BY <1>3, ExtentOK
<1>5. AsmTypes'
  BY <1>1, <1>3 DEF AsmInv, AsmTypes
<1>6. BuffersRight'
  BY <1>1, <1>2, <1>3, <1>4 DEF AsmInv, BuffersRight, Compiling
<1>7. {Extent(p) : p \in Filling'} = {Extent(p) : p \in Filling}
  <2>1. Filling = {here} \cup ({there} \ {NULL})
    BY <1>1, <1>2 DEF Filling
  <2>2. Filling' = {here'} \cup ({there} \ {NULL})
    BY <1>1, <1>4 DEF Filling
  <2> QED
    BY <1>3, <2>1, <2>2
<1>8. (releases = 0 => (Emitting => Fits(want)))'
  BY <1>1, <1>3 DEF AsmInv, RoomLeft, Emitting, Fits
<1> QED
  BY <1>1, <1>5, <1>6, <1>7, <1>8, ControlOK

\* The buffers change places.
LEMMA SwapsOK ==
  ASSUME AsmInv, LeaveTraceAgain \/ EndExit, UNCHANGED releases
  PROVE  Right
<1>1. /\ pc = "gen" /\ want = 0 /\ here' = there /\ there' = here
      /\ UNCHANGED <<vars, pc, frag, want, error, entry, releases>>
  BY DEF LeaveTraceAgain, LeaveTrace, EndExit
<1>2. /\ pc \in Compiling /\ here # NULL /\ there # NULL /\ Sound(there)
      /\ Sound(here)
  BY <1>1 DEF AsmInv, BuffersRight, AsmTypes, Compiling, LeaveTraceAgain, EndExit
<1>3. AsmTypes'
  BY <1>1, <1>2 DEF AsmInv, AsmTypes
<1>4. inExit' \/ here.ip < here.end
  BY DEF LeaveTraceAgain, LeaveTrace, EndExit
<1>5. BuffersRight'
  BY <1>1, <1>2, <1>4 DEF AsmInv, BuffersRight, Compiling
<1>6. {Extent(p) : p \in Filling'} = {Extent(p) : p \in Filling}
  BY <1>1 DEF Filling
<1>7. (releases = 0 => (Emitting => Fits(want)))'
  BY <1>1, <1>2 DEF Fits, Sound, Buf
<1> QED
  BY <1>1, <1>2, <1>3, <1>5, <1>6, <1>7, ControlOK

\* Code generation goes on, comes to its end or fails.
LEMMA PhasesOK ==
  ASSUME AsmInv, SetError \/ EndGen \/ EndPrologue, UNCHANGED releases
  PROVE  Right
<1>1. /\ pc \in {"gen", "prologue"} /\ pc \in Compiling
      /\ pc' \in {"gen", "prologue", "keepExit", "keepCode", "freeList"}
      /\ pc' \in {"gen", "prologue"} => pc' = pc \/ pc = "gen"
      /\ UNCHANGED <<vars, frag, here, there, inExit, want, entry, releases>>
  BY DEF SetError, EndGen, EndPrologue, Compiling
<1>2. /\ pc' = "prologue" => ~inExit
      /\ pc' \in {"keepExit", "keepCode"} =>
           pc = "prologue" /\ here.ip < here.end /\ (there # NULL <=> pc' = "keepExit")
  BY DEF SetError, EndGen, EndPrologue
<1>3. here # NULL
  BY <1>1 DEF AsmInv, BuffersRight
<1>4. AsmTypes'
  BY <1>1 DEF AsmInv, AsmTypes, Compiling, Failed
<1>5. BuffersRight'
  BY <1>1, <1>2, <1>3 DEF AsmInv, BuffersRight, Compiling
<1>6. {Extent(p) : p \in Filling'} = {Extent(p) : p \in Filling}
  BY <1>1, <1>2, <1>3 DEF Filling
<1>7. (releases = 0 => (Emitting => Fits(want)))'
  BY <1>1 DEF AsmInv, RoomLeft, Emitting, Fits
<1> QED
  BY <1>1, <1>4, <1>5, <1>6, <1>7, ControlOK DEF Compiling

-----------------------------------------------------------------------------
(* Blocks that are kept.                                                   *)

\* A block put on the list of fragment c.
PutOn(c, b) ==
  /\ code'[c] # <<>> /\ Elements(code'[c]) = Elements(code[c]) \cup {b}
  /\ \A d \in Client \ {c} : code'[d] = code[d]

LEMMA PutOnOK ==
  ASSUME code \in [Client -> Seq(Nat)], NEW c \in Client, NEW b \in Nat,
         code' = [code EXCEPT ![c] = <<b>> \o @]
  PROVE  PutOn(c, b)
<1> DEFINE s == code[c]
           u == <<b>> \o s
<1>1. code'[c] = u /\ \A d \in Client \ {c} : code'[d] = code[d]
  OBVIOUS
<1>2. s \in Seq(Nat)
  OBVIOUS
<1> HIDE DEF s
<1>3. /\ u # <<>> /\ DOMAIN u = 1 .. Len(s) + 1 /\ u[1] = b
      /\ \A i \in 2 .. Len(s) + 1 : u[i] = s[i - 1]
      /\ DOMAIN s = 1 .. Len(s) /\ Len(s) \in Nat
  BY <1>2
<1> HIDE DEF u
<1>4. \A i \in DOMAIN s : i + 1 \in DOMAIN u /\ u[i + 1] = s[i]
  BY <1>3
<1>5. \A i \in DOMAIN u : i = 1 \/ (i - 1 \in DOMAIN s /\ u[i] = s[i - 1])
  BY <1>3
<1>6. Elements(u) = Elements(s) \cup {b}
  <2>1. 1 \in DOMAIN u
    BY <1>3
  <2>2. Elements(s) \cup {b} \subseteq Elements(u)
    BY <1>3, <1>4, <2>1 DEF Elements
  <2>3. Elements(u) \subseteq Elements(s) \cup {b}
    BY <1>3, <1>5 DEF Elements
  <2> QED
    BY <2>2, <2>3
<1> QED
  BY <1>1, <1>3, <1>6 DEF PutOn, s

\* What is left of the buffers when that of p is put away.
LEMMA BufferGone ==
  ASSUME AsmInv, pc # "idle", NEW p, NEW S, Filling = {p} \cup S,
         \A q \in S : Extent(q) # Extent(p),
         range' = [range EXCEPT ![frag] = @ \ {Extent(p)}], frag' = frag, Filling' = S
  PROVE  RangesAreBuffers'
<1>1. /\ frag \in Client /\ range[frag] = {Extent(q) : q \in Filling}
      /\ \A g \in Client \ {frag} : range[g] = {}
      /\ range \in [Client -> SUBSET [start : Nat, end : Nat]]
  BY FillingHeld
<1>2. range'[frag] = {Extent(q) : q \in S}
  BY <1>1
<1>3. \A g \in Client \ {frag} : range'[g] = {}
  BY <1>1
<1> QED
  BY <1>2, <1>3 DEF RangesAreBuffers

\* A step that leaves blocks of c in the chunks it has blocks in.
LEMMA StillExecutes ==
  ASSUME NEW c \in Client, c \notin entry, entry \subseteq Client, WillExecute(c),
         entry' = entry, isExec' = isExec,
         \A d \in Client \ {c} :
           /\ code'[d] = code[d]
           /\ \A x \in Elements(code[d]) : hdr'[x].terminator = hdr[x].terminator,
         \A y \in Owned(range, code, c) :
           \E z \in Owned(range', code', c) : hdr'[z].terminator = hdr[y].terminator
  PROVE  WillExecute(c)'
<1>1. ASSUME NEW f \in entry, NEW x \in Elements(code'[f])
      PROVE  \/ hdr'[x].terminator \in isExec'
             \/ \E z \in Owned(range', code', c) :
                  hdr'[x].terminator = hdr'[z].terminator
  <2>1. x \in Elements(code[f]) /\ hdr'[x].terminator = hdr[x].terminator
    BY <1>1
  <2>2. \/ hdr[x].terminator \in isExec
        \/ \E y \in Owned(range, code, c) : hdr[x].terminator = hdr[y].terminator
    BY <1>1, <2>1 DEF WillExecute, ChunksOf
  <2> QED
    BY <2>1, <2>2
<1>2. \A f \in entry : \A x \in Elements(code'[f]) :
        hdr'[x].terminator
          \in isExec' \cup {hdr'[b].terminator : b \in Owned(range', code', c)}
  BY <1>1
<1> QED
  BY <1>2 DEF WillExecute, ChunksOf

LEMMA SaveBlockOK ==
  ASSUME AsmInv, NEW n \in 1 .. MinAllocSize, SaveBlock(n), UNCHANGED releases
  PROVE  Right
<1> DEFINE r == Extent(here)
           b == GetBlock(r)
<1>1. /\ pc \in {"gen", "prologue"} /\ pc \in Compiling
      /\ Add(frag, r) /\ want' = (IF want = 0 THEN n ELSE want) /\ pc' = PageFor[pc]
      /\ UNCHANGED <<frag, here, there, inExit, error, entry, releases>>
  BY DEF SaveBlock, Emitting, Compiling
<1>2. pc' = (IF pc = "gen" THEN "genPage" ELSE "prologuePage") /\ pc # "idle"
  BY <1>1 DEF PageFor
<1>3. /\ here # NULL /\ Sound(here) /\ here \in Filling
      /\ there # NULL => Extent(here) # Extent(there)
      /\ Filling = {here} \cup ({there} \ {NULL})
  BY <1>1 DEF AsmInv, BuffersRight, AsmTypes, Filling
<1>4. /\ r \in range[frag] /\ frag \in Client /\ freeing = NULL
      /\ code' = [code EXCEPT ![frag] = <<b>> \o @]
      /\ range' = [range EXCEPT ![frag] = @ \ {r}]
      /\ UNCHANGED <<hdr, heapblocks, availblocks, isExec, freeing, chunks>>
  BY <1>1, <1>2, FillingHeld DEF Add
<1>5. IInv' /\ AllHeld' /\ Aligned'
  BY <1>1, <1>4, AddOK DEF AsmInv, Kept, Aligned
<1>6. AsmTypes'
  <2>1. n \in 0 .. MinAllocSize
    OBVIOUS
  <2> QED
    BY <1>1, <1>2, <2>1 DEF AsmInv, AsmTypes, Compiling
<1>7. BuffersRight'
  BY <1>1, <1>2, <1>3 DEF AsmInv, BuffersRight, Compiling
<1>8. RangesAreBuffers'
  <2>1. PICK S : S = {there} \ {NULL}
    OBVIOUS
  <2>2. Filling' = S
    BY <1>1, <1>2, <2>1 DEF Filling
  <2>3. Filling = {here} \cup S /\ \A q \in S : Extent(q) # Extent(here)
    BY <1>3, <2>1
  <2> QED
    BY <1>1, <1>2, <1>4, <2>2, <2>3, BufferGone
<1>9. /\ code \in [Client -> Seq(Nat)] /\ b \in Nat /\ b \in InUse(hdr, heapblocks)
      /\ hdr[b].higher = r.end /\ Start(b) = r.start
      /\ range \in [Client -> SUBSET [start : Nat, end : Nat]]
  BY <1>4, RangeBlock DEF AsmInv, IInv, Holding, HoldingTyped
<1>10. /\ code'[frag] # <<>> /\ Elements(code'[frag]) = Elements(code[frag]) \cup {b}
       /\ \A g \in Client \ {frag} : code'[g] = code[g]
  BY <1>4, <1>9, PutOnOK DEF PutOn
<1>11. CodeIsFinished'
  BY <1>1, <1>2, <1>4, <1>10 DEF AsmInv, CodeIsFinished, Compiling
<1>12. ProtectionRight'
  <2>1. Writable(frag) /\ WillExecute(frag) /\ frag \notin entry /\ entry \subseteq Client
    BY <1>1, <1>2, FillingHeld DEF AsmInv, ProtectionRight
  <2>2. range'[frag] = range[frag] \ {r}
    BY <1>4, <1>9
  <2>3. Owned(range, code, frag) \subseteq Owned(range', code', frag)
    BY <1>10, <2>2 DEF Owned
  <2>4. Writable(frag)'
    BY <1>1, <1>4, <2>1, <2>2 DEF Writable
  <2>5. WillExecute(frag)'
    <3>1. \A y \in Owned(range, code, frag) :
            \E z \in Owned(range', code', frag) : hdr'[z].terminator = hdr[y].terminator
      BY <1>4, <2>3
    <3> QED
      BY <1>1, <1>4, <1>10, <2>1, <3>1, StillExecutes
  <2> QED
    BY <1>1, <1>2, <2>4, <2>5 DEF ProtectionRight, Writable, WillExecute
<1>13. RoomLeft'
  <2> SUFFICES ASSUME releases = 0
               PROVE  /\ FreeRoom(hdr, heapblocks, Room)
                      /\ \A q \in range'[frag] : q.end - q.start >= Room
                      /\ \A x \in Elements(code'[frag]) : Size(hdr, x) >= Room
    BY <1>1, <1>2, <1>4 DEF RoomLeft, Emitting
  <2>1. /\ FreeRoom(hdr, heapblocks, Room)
        /\ \A q \in range[frag] : q.end - q.start >= Room
        /\ \A x \in Elements(code[frag]) : Size(hdr, x) >= Room
    BY <1>1, <1>2 DEF AsmInv, RoomLeft
  <2>2. Size(hdr, b) >= Room
    BY <1>4, <1>9, <2>1 DEF Size
  <2> QED
    BY <1>4, <1>9, <1>10, <2>1, <2>2
<1>14. FinishedStays
  <2>1. /\ Steady(InUse(hdr, heapblocks) \ {}) /\ frag \notin entry
        /\ entry \subseteq Client
    BY <1>2, <1>4, FillingHeld DEF Steady
  <2> QED
    BY <1>4, <1>10, <2>1, OthersStay DEF AsmInv
<1> QED
  BY <1>5, <1>6, <1>7, <1>8, <1>11, <1>12, <1>13, <1>14 DEF Right, AsmInv

LEMMA KeepsOK ==
  ASSUME AsmInv, KeepExit \/ KeepCode, UNCHANGED releases
  PROVE  Right
<1>1. PICK p : /\ p = (IF pc = "keepExit" THEN there ELSE here)
               /\ AddRemainder(frag, Extent(p), p.start, p.ip)
  BY DEF KeepExit, KeepCode
<1>2. /\ pc \in {"keepExit", "keepCode"} /\ pc # "idle"
      /\ pc' = (IF pc = "keepExit" THEN "keepCode" ELSE "mark")
      /\ UNCHANGED <<frag, here, there, inExit, want, error, entry, releases>>
  BY DEF KeepExit, KeepCode
<1>3. /\ p # NULL /\ Sound(p) /\ p.ip < p.end
      /\ here # NULL /\ (pc = "keepExit" => there # NULL /\ Extent(here) # Extent(there))
  BY <1>1, <1>2 DEF AsmInv, BuffersRight, AsmTypes, Compiling
<1>4. PICK S : S = (IF pc = "keepExit" THEN {here} ELSE {})
  OBVIOUS
<1>4a. Filling = {p} \cup S /\ \A q \in S : Extent(q) # Extent(p)
  <2>1. CASE pc = "keepExit"
    <3>1. Filling = {p} \cup {here} /\ Extent(here) # Extent(p)
      BY <1>1, <1>3, <2>1 DEF Filling
    <3> QED
      BY <1>4, <2>1, <3>1
  <2>2. CASE pc = "keepCode"
    <3>1. Filling = {p} \cup {}
      BY <1>1, <1>3, <2>2 DEF Filling
    <3> QED
      BY <1>4, <2>2, <3>1
  <2> QED
    BY <1>2, <2>1, <2>2
<1>5. PICK r : r = Extent(p)
  OBVIOUS
<1>6. /\ frag \in Client /\ r \in range[frag] /\ frag \notin entry
      /\ entry \subseteq Client
      /\ range \in [Client -> SUBSET [start : Nat, end : Nat]]
  BY <1>2, <1>4a, <1>5, FillingHeld
<1>7. /\ r.start = p.start /\ p.ip \in r.start .. r.end /\ p.ip < r.end
      /\ r.start \in Nat /\ r.end \in Nat
  BY <1>3, <1>5, ExtentOK
<1>8. PICK K \in Nat : /\ K <= Room /\ FreeRoom(hdr, heapblocks, K)
                       /\ releases = 0 => K = Room
  <2>1. CASE releases = 0
    BY <2>1, RoomOK DEF AsmInv, RoomLeft
  <2>2. CASE releases # 0
    <3>1. FreeRoom(hdr, heapblocks, 0)
      BY SomeRoom DEF AsmInv, IInv, HeapOK
    <3> QED
      BY <2>2, <3>1, RoomOK
  <2> QED
    BY <2>1, <2>2
<1>9. /\ Kept /\ Steady(InUse(hdr, heapblocks) \ {GetBlock(r)})
      /\ FreeRoom(hdr', heapblocks', K)
      /\ \E b : /\ b \in InUse(hdr', heapblocks')
                /\ code' = [code EXCEPT ![frag] = <<b>> \o @]
                /\ hdr'[b].terminator = hdr[GetBlock(r)].terminator
                /\ DOMAIN hdr' \subseteq DOMAIN hdr \cup {b}
                /\ b \in DOMAIN hdr \/ b % PtrSize = 0
  <2>1. r.start % PtrSize = 0 /\ SizeofMinBlock % PtrSize = 0
    BY <1>6, RangeAligned, BufferAssumption
  <2>2. AddRemainder(frag, r, r.start, p.ip) /\ K <= HeaderSpaceFor(2) + MinAllocSize
    BY <1>1, <1>5, <1>7, <1>8 DEF Room
  <2> QED
    BY <1>6, <1>7, <1>8, <2>1, <2>2, RemainderStep DEF AsmInv
<1>10. PICK b : /\ b \in InUse(hdr', heapblocks')
                /\ code' = [code EXCEPT ![frag] = <<b>> \o @]
                /\ hdr'[b].terminator = hdr[GetBlock(r)].terminator
                /\ DOMAIN hdr' \subseteq DOMAIN hdr \cup {b}
                /\ b \in DOMAIN hdr \/ b % PtrSize = 0
  BY <1>9
<1>11. /\ range' = [range EXCEPT ![frag] = @ \ {r}] /\ freeing = NULL /\ freeing' = NULL
       /\ isExec' = isExec
  BY <1>1, <1>5 DEF AddRemainder
<1>12. IInv' /\ AllHeld' /\ Aligned'
  BY <1>9, <1>10 DEF AsmInv, Kept, Aligned
<1>13. PutOn(frag, b)
  <2>1. b \in Nat /\ code \in [Client -> Seq(Nat)]
    BY <1>10, <1>12 DEF AsmInv, IInv, HeapOK, HOK, HTyped, InUse, Holding, HoldingTyped
  <2> QED
    BY <1>6, <1>10, <2>1, PutOnOK
<1>14. AsmTypes'
  BY <1>2 DEF AsmInv, AsmTypes, Compiling
<1>15. BuffersRight'
  BY <1>2, <1>3 DEF AsmInv, BuffersRight, Compiling
<1>16. RangesAreBuffers'
  <2>1. Filling' = S
    BY <1>2, <1>3, <1>4 DEF Filling
  <2> QED
    BY <1>2, <1>4a, <1>5, <1>11, <2>1, BufferGone
<1>17. CodeIsFinished'
  BY <1>2, <1>6, <1>11, <1>13 DEF AsmInv, CodeIsFinished, PutOn
<1>18. /\ \A d \in Client \ {frag} : \A x \in Elements(code[d]) :
            hdr'[x].terminator = hdr[x].terminator
       /\ FinishedStays
  <2>1. {GetBlock(r)} \subseteq Owned(range, code, frag)
    BY <1>6 DEF Owned
  <2> QED
    BY <1>6, <1>9, <1>13, <2>1, OthersStay DEF AsmInv, PutOn
<1>19. ProtectionRight'
  <2>1. WillExecute(frag)
    BY <1>2 DEF AsmInv, ProtectionRight
  <2>2. ASSUME NEW y \in Owned(range, code, frag)
        PROVE  \E z \in Owned(range', code', frag) :
                 hdr'[z].terminator = hdr[y].terminator
    <3>1. CASE y = GetBlock(r)
      <4>1. b \in Owned(range', code', frag)
        BY <1>13 DEF PutOn, Owned
      <4> QED
        BY <1>10, <3>1, <4>1
    <3>2. CASE y # GetBlock(r)
      <4>1. y \in Owned(range', code', frag)
        BY <1>6, <1>11, <1>13, <2>2, <3>2 DEF PutOn, Owned
      <4>2. y \in InUse(hdr, heapblocks)
        BY <1>6, <2>2, OwnedInUse DEF AsmInv, IInv, AllOwned
      <4> QED
        BY <1>9, <3>2, <4>1, <4>2 DEF Steady
    <3> QED
      BY <3>1, <3>2
  <2>3. WillExecute(frag)'
    BY <1>2, <1>6, <1>11, <1>13, <1>18, <2>1, <2>2, StillExecutes DEF PutOn
  <2> QED
    BY <1>2, <2>3 DEF ProtectionRight, WillExecute, Compiling
<1>20. RoomLeft'
  <2>1. releases = 0 => \A q \in range'[frag] : q.end - q.start >= Room
    BY <1>2, <1>6, <1>11 DEF AsmInv, RoomLeft
  <2> QED
    BY <1>2, <1>8, <1>9, <2>1 DEF RoomLeft, Compiling, Emitting
<1> QED
  BY <1>12, <1>14, <1>15, <1>16, <1>17, <1>18, <1>19, <1>20 DEF Right, AsmInv

-----------------------------------------------------------------------------
(* The end of a compilation, and the release of code.                      *)

LEMMA FinishOK ==
  ASSUME AsmInv, Finish, UNCHANGED releases
  PROVE  Right
<1>1. /\ pc = "mark" /\ pc' = "idle" /\ MarkExec(frag) /\ entry' = entry \cup {frag}
      /\ UNCHANGED <<frag, here, there, inExit, want, error, releases>>
  BY DEF Finish
<1>2. /\ frag \in Client /\ frag \notin entry /\ entry \subseteq Client
      /\ range[frag] = {} /\ Filling = {} /\ \A g \in Client \ {frag} : range[g] = {}
  <2>1. Filling = {}
    BY <1>1 DEF Filling
  <2> QED
    BY <1>1, <2>1, FillingHeld
<1>3. /\ freeing = NULL
      /\ isExec' = isExec \cup {hdr[code[frag][i]].terminator : i \in DOMAIN code[frag]}
      /\ UNCHANGED <<hdr, heapblocks, availblocks, code, range, freeing, chunks>>
  BY <1>1 DEF MarkExec
<1>4. IInv' /\ AllHeld' /\ Aligned'
  BY <1>1, <1>2, <1>3, MarkExecOK DEF AsmInv, Kept, Aligned
<1>5. AsmTypes'
  BY <1>1, <1>2 DEF AsmInv, AsmTypes
<1>6. BuffersRight'
  BY <1>1 DEF AsmInv, BuffersRight, Compiling
<1>7. RangesAreBuffers'
  <2>1. Filling' = {}
    BY <1>1 DEF Filling
  <2> QED
    BY <1>1, <1>2, <1>3, <2>1 DEF RangesAreBuffers
<1>8. CodeIsFinished'
  BY <1>1, <1>2, <1>3 DEF AsmInv, CodeIsFinished
<1>9. ProtectionRight'
  <2>1. WillExecute(frag)
    BY <1>1 DEF AsmInv, ProtectionRight
  <2>2. Owned(range, code, frag) = Elements(code[frag])
    BY <1>2 DEF Owned
  <2>3. isExec' = isExec \cup ChunksOf(Elements(code[frag]))
    BY <1>3 DEF ChunksOf, Elements
  <2>4. \A f \in entry' : ChunksOf(Elements(code[f])) \subseteq isExec'
    BY <1>1, <2>1, <2>2, <2>3 DEF WillExecute
  <2>5. Executable'
    BY <1>3, <2>4 DEF Executable, ChunksOf
  <2> QED
    BY <1>1, <2>5 DEF ProtectionRight, Compiling
<1>10. RoomLeft'
  BY <1>1, <1>3 DEF AsmInv, RoomLeft, Compiling, Emitting
<1>11. FinishedStays
  <2>1. Steady(InUse(hdr, heapblocks) \ {}) /\ frag \notin entry \cap entry'
    BY <1>2, <1>3 DEF Steady
  <2> QED
    BY <1>2, <1>3, <2>1, OthersStay DEF AsmInv
<1> QED
  BY <1>4, <1>5, <1>6, <1>7, <1>8, <1>9, <1>10, <1>11 DEF Right, AsmInv

\* The loop of freeAll.
LEMMA FreeListOK ==
  ASSUME AsmInv, FreeList, UNCHANGED releases
  PROVE  Right
<1>1. /\ pc \in {"freeList", "release"} /\ pc # "idle"
      /\ FreeAll(frag) \/ FreeAllStep(frag)
      /\ UNCHANGED <<pc, frag, here, there, inExit, want, error, entry, releases>>
  BY DEF FreeList, compileVars
<1>2. /\ frag \in Client /\ frag \notin entry /\ entry \subseteq Client
  BY <1>1, FillingHeld
<1>3. AsmTypes' /\ BuffersRight'
  BY <1>1 DEF AsmInv, AsmTypes, BuffersRight
<1>4. CASE FreeAll(frag)
  <2>1. /\ code[frag] # <<>> /\ freeing' = frag
        /\ UNCHANGED <<hdr, heapblocks, availblocks, isExec, code, range, chunks>>
    BY <1>4 DEF FreeAll
  <2>2. IInv' /\ AllHeld' /\ Aligned'
    BY <1>2, <1>4, <2>1, FreeAllOK DEF AsmInv, Kept, Aligned
  <2>3. RangesAreBuffers'
    <3>1. Filling' = Filling
      BY <1>1 DEF Filling
    <3> QED
      BY <1>1, <2>1, <3>1 DEF AsmInv, RangesAreBuffers
  <2>4. CodeIsFinished'
    BY <1>1, <2>1 DEF AsmInv, CodeIsFinished
  <2>5. ProtectionRight'
    BY <1>1, <2>1 DEF AsmInv, ProtectionRight, Compiling, Executable, ChunksOf
  <2>6. RoomLeft'
    BY <1>1, <2>1 DEF AsmInv, RoomLeft, Compiling, Emitting
  <2>7. FinishedStays
    <3>1. Steady(InUse(hdr, heapblocks) \ {})
      BY <2>1 DEF Steady
    <3> QED
      BY <1>2, <2>1, <3>1, OthersStay DEF AsmInv
  <2> QED
    BY <1>3, <2>2, <2>3, <2>4, <2>5, <2>6, <2>7 DEF Right, AsmInv
<1>5. CASE FreeAllStep(frag)
  <2>1. /\ code[frag] # <<>> /\ code' = [code EXCEPT ![frag] = Tail(@)]
        /\ freeing = frag /\ freeing' = (IF Len(code[frag]) = 1 THEN NULL ELSE frag)
        /\ UNCHANGED <<heapblocks, isExec, range, chunks>>
        /\ code \in [Client -> Seq(Nat)]
    BY <1>5 DEF FreeAllStep, AsmInv, IInv, Holding, HoldingTyped
  <2>2. PICK K \in Nat : /\ FreeRoom(hdr, heapblocks, K)
                         /\ Size(hdr, Head(code[frag])) >= K
                         /\ releases = 0 => K = Room
    <3>1. Head(code[frag]) \in Elements(code[frag])
      BY <1>2, <2>1, TailOK DEF AsmInv, IInv, Holding, ListsRight
    <3>2. CASE releases = 0
      BY <1>1, <3>1, <3>2, RoomOK DEF AsmInv, RoomLeft
    <3>3. CASE releases # 0
      <4>1. FreeRoom(hdr, heapblocks, 0)
        BY SomeRoom DEF AsmInv, IInv, HeapOK
      <4>2. Head(code[frag]) \in InUse(hdr, heapblocks)
        BY <1>2, <3>1 DEF AsmInv, IInv, Holding, ListsRight
      <4>3. Size(hdr, Head(code[frag])) >= 0
        BY <4>2, SizesAssumption
           DEF AsmInv, IInv, HeapOK, HOK, HTyped, HUp, InUse, Size, Start
      <4> QED
        BY <3>3, <4>1, <4>3
    <3> QED
      BY <3>2, <3>3
  <2>3. /\ Kept /\ Steady(InUse(hdr, heapblocks) \ {Head(code[frag])})
        /\ Head(code[frag]) \in Elements(code[frag])
        /\ Elements(code'[frag]) = Elements(code[frag]) \ {Head(code[frag])}
        /\ FreeRoom(hdr', heapblocks', K) /\ DOMAIN hdr' \subseteq DOMAIN hdr
    BY <1>2, <1>5, <2>2, FreeAllStepStep DEF AsmInv
  <2>4. IInv' /\ AllHeld' /\ Aligned'
    BY <2>3 DEF AsmInv, Kept, Aligned
  <2>5. /\ \A d \in Client \ {frag} : /\ code'[d] = code[d]
           /\ \A x \in Elements(code[d]) : hdr'[x].terminator = hdr[x].terminator
        /\ FinishedStays
    <3>1. {Head(code[frag])} \subseteq Owned(range, code, frag)
      BY <2>3 DEF Owned
    <3>2. \A d \in Client \ {frag} : code'[d] = code[d]
      BY <2>1
    <3> QED
      BY <1>2, <2>3, <3>1, <3>2, OthersStay DEF AsmInv
  <2>6. RangesAreBuffers'
    <3>1. Filling' = Filling
      BY <1>1 DEF Filling
    <3> QED
      BY <1>1, <2>1, <3>1 DEF AsmInv, RangesAreBuffers
  <2>7. CodeIsFinished'
    <3>1. Len(code[frag]) # 1 => code'[frag] # <<>>
      <4>1. code[frag] \in Seq(Nat) /\ code'[frag] = Tail(code[frag])
        BY <1>2, <2>1
      <4>2. Len(Tail(code[frag])) = Len(code[frag]) - 1 /\ Len(code[frag]) \in Nat
        BY <2>1, <4>1
      <4>3. code'[frag] = <<>> => Len(code'[frag]) = 0
        OBVIOUS
      <4> QED
        BY <4>1, <4>2, <4>3
    <3> QED
      BY <1>1, <1>2, <2>1, <2>5, <3>1 DEF AsmInv, CodeIsFinished
  <2>8. ProtectionRight'
    <3>1. pc = "release" => Executable'
      <4> SUFFICES ASSUME pc = "release", NEW f \in entry, NEW x \in Elements(code'[f])
                   PROVE  hdr'[x].terminator \in isExec
        BY <1>1, <2>1 DEF Executable, ChunksOf
      <4>1. x \in Elements(code[f]) /\ hdr'[x].terminator = hdr[x].terminator
        BY <1>2, <2>5
      <4> QED
        BY <4>1 DEF AsmInv, ProtectionRight, Executable, ChunksOf
    <3> QED
      BY <1>1, <3>1 DEF ProtectionRight, Compiling
  <2>9. RoomLeft'
    <3> SUFFICES ASSUME releases = 0
                 PROVE  /\ FreeRoom(hdr', heapblocks', Room)
                        /\ pc # "release"
                        /\ \A q \in range'[frag] : q.end - q.start >= Room
                        /\ \A x \in Elements(code'[frag]) : Size(hdr', x) >= Room
      BY <1>1 DEF RoomLeft, Emitting
    <3>1. /\ pc # "release"
          /\ \A q \in range[frag] : q.end - q.start >= Room
          /\ \A x \in Elements(code[frag]) : Size(hdr, x) >= Room
      BY <1>1 DEF AsmInv, RoomLeft
    <3>2. ASSUME NEW x \in Elements(code'[frag])
          PROVE  Size(hdr', x) >= Room
      <4>1. x \in InUse(hdr, heapblocks) \ {Head(code[frag])}
        BY <1>2, <2>3, <3>2 DEF AsmInv, IInv, Holding, ListsRight
      <4>2. Size(hdr', x) = Size(hdr, x) /\ x \in Elements(code[frag])
        BY <2>3, <3>2, <4>1 DEF Steady, Size
      <4> QED
        BY <3>1, <4>2
    <3> QED
      BY <2>1, <2>2, <2>3, <3>1, <3>2
  <2> QED
    BY <1>3, <2>4, <2>5, <2>6, <2>7, <2>8, <2>9 DEF Right, AsmInv
<1> QED
  BY <1>1, <1>4, <1>5

LEMMA EndFreeListOK ==
  ASSUME AsmInv, EndFreeList, UNCHANGED releases
  PROVE  Right
<1>1. /\ pc \in {"freeList", "release"} /\ pc # "idle" /\ code[frag] = <<>>
      /\ pc = "release" => pc' = "idle"
      /\ pc = "freeList" => pc' = (IF there = NULL THEN "freeCode" ELSE "freeExit")
      /\ UNCHANGED <<vars, frag, here, there, inExit, want, error, entry, releases>>
  BY DEF EndFreeList
<1>2. frag \in Client /\ frag \notin entry
  BY <1>1, FillingHeld
<1>3. IInv' /\ AllHeld' /\ Aligned' /\ FinishedStays
  BY <1>1, HeapSame
<1>4. AsmTypes'
  BY <1>1 DEF AsmInv, AsmTypes, Failed
<1>5. BuffersRight'
  BY <1>1 DEF AsmInv, BuffersRight, Compiling
<1>6. RangesAreBuffers'
  <2>1. Filling' = Filling
    <3>1. CASE pc = "release"
      BY <1>1, <3>1 DEF Filling
    <3>2. CASE pc = "freeList" /\ there = NULL
      <4>1. here # NULL
        BY <3>2 DEF AsmInv, BuffersRight
      <4> QED
        BY <1>1, <3>2, <4>1 DEF Filling
    <3>3. CASE pc = "freeList" /\ there # NULL
      BY <1>1, <3>3 DEF Filling
    <3> QED
      BY <1>1, <3>1, <3>2, <3>3
  <2> QED
    BY <1>1, <2>1 DEF AsmInv, RangesAreBuffers, vars
<1>7. CodeIsFinished'
  BY <1>1, <1>2 DEF AsmInv, CodeIsFinished, vars
<1>8. ProtectionRight'
  BY <1>1, HeapSame DEF AsmInv, ProtectionRight, Compiling
<1>9. RoomLeft'
  BY <1>1 DEF AsmInv, RoomLeft, Compiling, Emitting, vars
<1> QED
  BY <1>3, <1>4, <1>5, <1>6, <1>7, <1>8, <1>9 DEF Right, AsmInv

\* The buffers of a failed compilation are given back.
LEMMA FreesOK ==
  ASSUME AsmInv, FreeExit \/ FreeCode, UNCHANGED releases
  PROVE  Right
<1>1. PICK p : /\ p = (IF pc = "freeExit" THEN there ELSE here)
               /\ Free(frag, Extent(p))
  BY DEF FreeExit, FreeCode
<1>2. /\ pc \in {"freeExit", "freeCode"} /\ pc # "idle"
      /\ pc' = (IF pc = "freeExit" THEN "freeCode" ELSE "markAll")
      /\ UNCHANGED <<frag, here, there, inExit, want, error, entry, releases>>
  BY DEF FreeExit, FreeCode
<1>3. /\ p # NULL /\ Sound(p) /\ here # NULL
      /\ (pc = "freeExit" => there # NULL /\ Extent(here) # Extent(there))
  BY <1>1, <1>2 DEF AsmInv, BuffersRight, AsmTypes
<1>4. PICK S : S = (IF pc = "freeExit" THEN {here} ELSE {})
  OBVIOUS
<1>5. Filling = {p} \cup S /\ \A q \in S : Extent(q) # Extent(p)
  <2>1. CASE pc = "freeExit"
    <3>1. Filling = {p} \cup {here} /\ Extent(here) # Extent(p)
      BY <1>1, <1>3, <2>1 DEF Filling
    <3> QED
      BY <1>4, <2>1, <3>1
  <2>2. CASE pc = "freeCode"
    <3>1. Filling = {p} \cup {}
      BY <1>1, <1>3, <2>2 DEF Filling
    <3> QED
      BY <1>4, <2>2, <3>1
  <2> QED
    BY <1>2, <2>1, <2>2
<1>6. PICK r : r = Extent(p)
  OBVIOUS
<1>7. /\ frag \in Client /\ r \in range[frag] /\ frag \notin entry
      /\ entry \subseteq Client
      /\ range \in [Client -> SUBSET [start : Nat, end : Nat]]
  BY <1>2, <1>5, <1>6, FillingHeld
<1>8. PICK K \in Nat : /\ FreeRoom(hdr, heapblocks, K) /\ r.end - r.start >= K
                       /\ releases = 0 => K = Room
  <2>1. CASE releases = 0
    BY <1>2, <1>7, <2>1, RoomOK DEF AsmInv, RoomLeft
  <2>2. CASE releases # 0
    <3>1. FreeRoom(hdr, heapblocks, 0)
      BY SomeRoom DEF AsmInv, IInv, HeapOK
    <3>2. r.end - r.start >= 0
      BY <1>3, <1>6, ExtentOK
    <3> QED
      BY <2>2, <3>1, <3>2
  <2> QED
    BY <2>1, <2>2
<1>9. /\ Kept /\ Steady(InUse(hdr, heapblocks) \ {GetBlock(r)})
      /\ FreeRoom(hdr', heapblocks', K) /\ DOMAIN hdr' \subseteq DOMAIN hdr
  BY <1>1, <1>6, <1>7, <1>8, FreeStep DEF AsmInv
<1>10. /\ range' = [range EXCEPT ![frag] = @ \ {r}] /\ freeing = NULL /\ freeing' = NULL
       /\ isExec' = isExec /\ code' = code
  BY <1>1, <1>6 DEF Free
<1>11. IInv' /\ AllHeld' /\ Aligned'
  BY <1>9 DEF AsmInv, Kept, Aligned
<1>12. AsmTypes'
  BY <1>2 DEF AsmInv, AsmTypes, Failed
<1>13. BuffersRight'
  BY <1>2, <1>3 DEF AsmInv, BuffersRight, Compiling
<1>14. RangesAreBuffers'
  <2>1. Filling' = S
    BY <1>2, <1>3, <1>4 DEF Filling
  <2> QED
    BY <1>2, <1>5, <1>6, <1>10, <2>1, BufferGone
<1>15. CodeIsFinished'
  BY <1>2, <1>10 DEF AsmInv, CodeIsFinished
<1>16. FinishedStays
  <2>1. {GetBlock(r)} \subseteq Owned(range, code, frag)
    BY <1>7 DEF Owned
  <2> QED
    BY <1>7, <1>9, <1>10, <2>1, OthersStay DEF AsmInv
<1>17. ProtectionRight'
  BY <1>2 DEF ProtectionRight, Compiling
<1>18. RoomLeft'
  <2>1. releases = 0 => \A q \in range'[frag] : q.end - q.start >= Room
    BY <1>2, <1>7, <1>10 DEF AsmInv, RoomLeft
  <2> QED
    BY <1>2, <1>8, <1>9, <2>1 DEF RoomLeft, Compiling, Emitting
<1> QED
  BY <1>11, <1>12, <1>13, <1>14, <1>15, <1>16, <1>17, <1>18 DEF Right, AsmInv

LEMMA AbandonOK ==
  ASSUME AsmInv, Abandon, UNCHANGED releases
  PROVE  Right
<1>1. /\ pc = "markAll" /\ pc' = "idle" /\ MarkAllExec
      /\ UNCHANGED <<frag, here, there, inExit, want, error, entry, releases>>
  BY DEF Abandon
<1>2. /\ frag \in Client /\ frag \notin entry /\ entry \subseteq Client
  BY <1>1, FillingHeld
<1>3. /\ freeing = NULL /\ isExec' = heapblocks
      /\ UNCHANGED <<hdr, heapblocks, availblocks, code, range, freeing, chunks>>
  BY <1>1 DEF MarkAllExec
<1>4. IInv' /\ AllHeld' /\ Aligned'
  BY <1>1, <1>3, MarkOK DEF AsmInv, Kept, Aligned
<1>5. AsmTypes' /\ BuffersRight'
  BY <1>1 DEF AsmInv, AsmTypes, BuffersRight, Compiling
<1>6. RangesAreBuffers'
  <2>1. Filling' = Filling
    BY <1>1 DEF Filling
  <2> QED
    BY <1>1, <1>3, <2>1 DEF AsmInv, RangesAreBuffers
<1>7. CodeIsFinished'
  BY <1>1, <1>2, <1>3 DEF AsmInv, CodeIsFinished
<1>8. ProtectionRight'
  <2>1. ASSUME NEW f \in entry, NEW x \in Elements(code[f])
        PROVE  hdr[x].terminator \in heapblocks
    <3>1. x \in InUse(hdr, heapblocks)
      BY <1>2, <2>1 DEF AsmInv, IInv, Holding, ListsRight
    <3> QED
      BY <3>1 DEF AsmInv, IInv, HeapOK, HOK, HUp, InUse
  <2>2. Executable'
    BY <1>1, <1>3, <2>1 DEF Executable, ChunksOf
  <2> QED
    BY <1>1, <2>2 DEF ProtectionRight, Compiling
<1>9. RoomLeft'
  BY <1>1, <1>3 DEF AsmInv, RoomLeft, Compiling, Emitting
<1>10. FinishedStays
  <2>1. Steady(InUse(hdr, heapblocks) \ {})
    BY <1>3 DEF Steady
  <2> QED
    BY <1>2, <1>3, <2>1, OthersStay DEF AsmInv
<1> QED
  BY <1>4, <1>5, <1>6, <1>7, <1>8, <1>9, <1>10 DEF Right, AsmInv

LEMMA ReleaseOK ==
  ASSUME AsmInv, NEW f \in Client, Release(f)
  PROVE  Right
<1>1. /\ pc = "idle" /\ pc' = "release" /\ f \in entry /\ frag' = f
      /\ entry' = entry \ {f} /\ releases' = releases + 1
      /\ UNCHANGED <<vars, here, there, inExit, want, error>>
  BY DEF Release
<1>2. releases \in Nat /\ entry \subseteq Client
  BY DEF AsmInv, AsmTypes
<1>3. IInv' /\ AllHeld' /\ Aligned' /\ FinishedStays
  BY <1>1, HeapSame
<1>4. AsmTypes'
  BY <1>1, <1>2 DEF AsmInv, AsmTypes
<1>5. BuffersRight'
  BY <1>1 DEF AsmInv, BuffersRight, Compiling
<1>6. RangesAreBuffers'
  <2>1. Filling = {} /\ Filling' = {}
    BY <1>1 DEF Filling
  <2> QED
    BY <1>1, <2>1 DEF AsmInv, RangesAreBuffers, vars
<1>7. CodeIsFinished'
  BY <1>1 DEF AsmInv, CodeIsFinished, vars
<1>8. ProtectionRight'
  <2>1. Executable
    BY <1>1 DEF AsmInv, ProtectionRight
  <2>2. Executable'
    BY <1>1, <2>1 DEF Executable, ChunksOf, vars
  <2> QED
    BY <1>1, <2>2 DEF ProtectionRight, Compiling
<1>9. RoomLeft'
  BY <1>1, <1>2 DEF RoomLeft
<1> QED
  BY <1>3, <1>4, <1>5, <1>6, <1>7, <1>8, <1>9 DEF Right, AsmInv

LEMMA AsmInitOK == AsmInit => AsmInv
<1> SUFFICES ASSUME AsmInit PROVE AsmInv
  OBVIOUS
<1>1. IInv /\ AllHeld
  BY InitOK DEF AsmInit
<1>2. /\ hdr = [b \in {} |-> NULL] /\ heapblocks = {} /\ freeing = NULL
      /\ code = [c \in Client |-> <<>>] /\ range = [c \in Client |-> {}]
      /\ pc = "idle" /\ here = NULL /\ there = NULL /\ inExit = FALSE /\ want = 0
      /\ entry = {} /\ releases = 0
  BY DEF AsmInit, Init
<1>3. AsmTypes
  BY <1>2, RoomOK DEF AsmTypes
<1>4. BuffersRight
  BY <1>2 DEF BuffersRight, Compiling
<1>5. RangesAreBuffers
  <2>1. Filling = {}
    BY <1>2 DEF Filling
  <2> QED
    BY <1>2, <2>1 DEF RangesAreBuffers
<1>6. CodeIsFinished
  BY <1>2 DEF CodeIsFinished
<1>7. ProtectionRight
  BY <1>2 DEF ProtectionRight, Compiling, Executable
<1>8. RoomLeft
  BY <1>2 DEF RoomLeft, FreeRoom, Compiling, Emitting
<1>9. Aligned
  BY <1>2 DEF Aligned
<1> QED
  BY <1>1, <1>3, <1>4, <1>5, <1>6, <1>7, <1>8, <1>9 DEF AsmInv

-----------------------------------------------------------------------------
(* The theorems.                                                           *)

LEMMA AsmNextOK == AsmInv /\ [AsmNext]_allVars => Right
<1> SUFFICES ASSUME AsmInv, [AsmNext]_allVars
             PROVE  Right
  OBVIOUS
<1>1. CASE UNCHANGED allVars
  <2>1. UNCHANGED vars /\ UNCHANGED <<pc, frag, here, there, inExit, want, error,
                                      entry, releases>>
    BY <1>1 DEF allVars, asmVars, compileVars
  <2>2. IInv' /\ AllHeld' /\ Aligned' /\ FinishedStays
    BY <2>1, HeapSame
  <2>3. AsmTypes' /\ BuffersRight'
    BY <2>1 DEF AsmInv, AsmTypes, BuffersRight
  <2>4. RangesAreBuffers'
    <3>1. Filling' = Filling
      BY <2>1 DEF Filling
    <3> QED
      BY <2>1, <3>1 DEF AsmInv, RangesAreBuffers, vars
  <2>5. CodeIsFinished'
    BY <2>1 DEF AsmInv, CodeIsFinished, vars
  <2>6. ProtectionRight'
    BY <2>1, HeapSame DEF AsmInv, ProtectionRight
  <2>7. RoomLeft'
    BY <2>1 DEF AsmInv, RoomLeft, Emitting, Fits, vars
  <2> QED
    BY <2>2, <2>3, <2>4, <2>5, <2>6, <2>7 DEF Right, AsmInv
<1>2. ASSUME NEW f \in Client, BeginAssembly(f), UNCHANGED releases
      PROVE  Right
  BY <1>2, BeginAssemblyOK
<1>3. ASSUME NEW n \in 1 .. MinAllocSize, Protect(n) \/ Emit(n) \/ SaveBlock(n),
             UNCHANGED releases
      PROVE  Right
  BY <1>3, EmitsOK, SaveBlockOK
<1>4. CASE (NewBlock \/ LeaveTraceFirst) /\ UNCHANGED releases
  BY <1>4, NewBlockOK, LeaveTraceFirstOK
<1>5. CASE (LeaveTraceAgain \/ EndExit) /\ UNCHANGED releases
  BY <1>5, SwapsOK
<1>6. CASE (SetError \/ EndGen \/ EndPrologue) /\ UNCHANGED releases
  BY <1>6, PhasesOK
<1>7. CASE (KeepExit \/ KeepCode \/ Finish) /\ UNCHANGED releases
  BY <1>7, KeepsOK, FinishOK
<1>8. CASE (FreeList \/ EndFreeList \/ FreeExit \/ FreeCode \/ Abandon)
             /\ UNCHANGED releases
  BY <1>8, FreeListOK, EndFreeListOK, FreesOK, AbandonOK
<1>9. ASSUME NEW f \in Client, Release(f)
      PROVE  Right
  BY <1>9, ReleaseOK
<1> QED
  BY <1>1, <1>2, <1>3, <1>4, <1>5, <1>6, <1>7, <1>8, <1>9 DEF AsmNext, Compile

\* The invariant holds in every state of the Assembler: compile, codeAlloc,
\* swapCodeChunks, endAssembly and cleanupAfterError, in any order, for any
\* number of fragments, chunks and sizes.
THEOREM AsmInvariant == AsmSpec => []AsmInv
<1> QED
  BY AsmInitOK, AsmNextOK, PTL DEF AsmSpec, Right

\* No byte is emitted below the start of a block, and what underrunProtect has
\* promised is there, page breaks included, until finished code is freed: the
\* free blocks left by a compilation have room for a jump and a sequence.
THEOREM ReservationAlwaysFits == AsmSpec => []ReservationFits
<1>1. AsmInv => ReservationFits
  <2> SUFFICES ASSUME AsmInv, releases = 0, Emitting
               PROVE  here.start <= here.ip /\ here.ip <= here.end /\ Fits(want)
    BY DEF ReservationFits, ReservationKept
  <2>1. Sound(here)
    BY DEF AsmInv, AsmTypes, BuffersRight, Emitting, Compiling
  <2> QED
    BY <2>1 DEF AsmInv, RoomLeft, Sound
<1> QED
  BY <1>1, AsmInvariant, PTL

\* Both blocks that code is emitted to are in chunks that can be written, from
\* codeAlloc to the end of the assembly.
THEOREM AlwaysEmitsToWritable == AsmSpec => []EmitsToWritable
<1>1. AsmInv => EmitsToWritable
  <2> SUFFICES ASSUME AsmInv, Emitting, NEW p \in {here, there} \ {NULL}
               PROVE  hdr[GetBlock(p)].terminator \notin isExec
    BY DEF EmitsToWritable
  <2>1. pc \in Compiling /\ pc # "idle" /\ p \in Filling /\ Sound(p)
    BY DEF AsmInv, AsmTypes, Emitting, Compiling, Filling
  <2>2. Extent(p) \in range[frag]
    BY <2>1, FillingHeld
  <2>3. GetBlock(Extent(p)) = GetBlock(p)
    BY DEF GetBlock, Extent
  <2> QED
    BY <2>1, <2>2, <2>3 DEF AsmInv, ProtectionRight, Writable
<1> QED
  BY <1>1, AsmInvariant, PTL

\* Between compilations all finished code is executable: markExec of a fragment
\* marks again every chunk its allocations have made writable, and markAllExec
\* does after an error.
THEOREM FinishedAlwaysExecutable == AsmSpec => []FinishedExecutable
<1>1. AsmInv => FinishedExecutable
  BY DEF AsmInv, ProtectionRight, Executable, ChunksOf, Elements, FinishedExecutable
<1> QED
  BY <1>1, AsmInvariant, PTL

\* Every path of endAssembly and of cleanupAfterError gives back or keeps every
\* block exactly once.
THEOREM NothingEverLeaked == AsmSpec => []NothingLeaked
<1>1. AsmInv => NothingLeaked
  <2> SUFFICES ASSUME AsmInv
               PROVE  NothingLeaked
    OBVIOUS
  <2>1. NoBlockLost
    <3> SUFFICES ASSUME NEW b \in Blocks, ~hdr[b].isFree
                 PROVE  \E c \in Client : Holds(c, b)
      BY DEF NoBlockLost
    <3>1. PICK c \in Client : b \in Owned(range, code, c)
      BY DEF AsmInv, AllHeld, InUse, Blocks, AllOwned
    <3> QED
      BY <3>1 DEF Owned, Elements, Holds
  <2> QED
    BY <2>1 DEF AsmInv, NothingLeaked, RangesAreBuffers, CodeIsFinished
<1> QED
  BY <1>1, AsmInvariant, PTL

\* No step of another compilation, failed or not, moves or frees the code of a
\* finished fragment.
THEOREM FinishedNeverTouched == AsmSpec => FinishedUntouched
<1>1. AsmInv /\ [AsmNext]_allVars => FinishedStays
  BY AsmNextOK DEF Right
<1> QED
  BY <1>1, AsmInvariant, PTL DEF AsmSpec, FinishedUntouched, FinishedStays

-----------------------------------------------------------------------------
(* Writes to headers.  While no finished code has been freed, every free   *)
(* block, every buffer in use and, until the compilation succeeds, every   *)
(* block on its list is the first of its chunk.  So nothing is merged, and *)
(* headers are written in the chunk of the block in hand only, which alloc *)
(* has made writable and nobody has marked since.                          *)

LowestRight ==
  releases = 0 =>
    /\ Lowest(hdr, heapblocks)
    /\ pc # "idle" => \A r \in range[frag] : hdr[GetBlock(r)].lower = NULL
    /\ pc \in Compiling \cup {"freeList"} =>
         \A b \in Elements(code[frag]) : hdr[b].lower = NULL

Unmarked == Compiling \cup {"keepExit", "keepCode", "freeList", "freeExit", "freeCode"}
OwnWritable(c) == \A b \in Owned(range, code, c) : hdr[b].terminator \notin isExec
StillWritable == pc \in Unmarked => OwnWritable(frag)

WriteInv == LowestRight /\ StillWritable

\* What a step must do.
Unprotected == WriteInv' /\ (releases' = 0 => WritesWritable)

LEMMA OnlyInWritable ==
  ASSUME NEW t, OnlyWrites(t), t \notin isExec'
  PROVE  WritesWritable
BY DEF OnlyWrites, WritesWritable

\* A step that leaves the headers and the lists alone.
LEMMA QuietOK ==
  ASSUME WriteInv, UNCHANGED <<hdr, heapblocks, availblocks, code, range, frag>>,
         releases' = releases, pc' # "idle" => pc # "idle",
         pc' \in Compiling \cup {"freeList"} => pc \in Compiling \cup {"freeList"},
         pc' \in Unmarked => pc \in Unmarked /\ isExec' = isExec
  PROVE  Unprotected
<1>1. LowestRight'
  BY DEF WriteInv, LowestRight
<1>2. StillWritable'
  BY DEF WriteInv, StillWritable, OwnWritable
<1>3. WritesWritable
  BY DEF WritesWritable
<1> QED
  BY <1>1, <1>2, <1>3 DEF Unprotected, WriteInv

\* The blocks a fragment has after a step are in chunks it had blocks in.
LEMMA OwnStays ==
  ASSUME NEW c \in Client, OwnWritable(c), isExec' = isExec,
         \A z \in Owned(range', code', c) :
           \E y \in Owned(range, code, c) : hdr'[z].terminator = hdr[y].terminator
  PROVE  OwnWritable(c)'
BY DEF OwnWritable

\* The fragment being compiled, or about to be, gets one more block.
LEMMA AllocWritable ==
  ASSUME AsmInv, NEW f \in Client, Alloc(f), frag' = f, releases' = releases,
         releases = 0 => /\ Lowest(hdr, heapblocks)
                         /\ \A q \in range[f] : hdr[GetBlock(q)].lower = NULL
                         /\ \A b \in Elements(code[f]) : hdr[b].lower = NULL,
         OwnWritable(f)
  PROVE  Unprotected
<1>1. PICK r : Allocated(f, r)
  BY AllocOK
<1>2. range \in [Client -> SUBSET [start : Nat, end : Nat]]
  BY DEF AsmInv, IInv, Holding, HoldingTyped
<1>3. /\ range'[f] = range[f] \cup {r} /\ code' = code
      /\ isExec' = isExec \ {hdr'[GetBlock(r)].terminator} /\ IInv'
  BY <1>1, <1>2 DEF Allocated
<1>4. ASSUME NEW x \in Owned(range, code, f)
      PROVE  /\ x \in DOMAIN hdr /\ x \in DOMAIN hdr'
             /\ hdr'[x].terminator = hdr[x].terminator
  <2>1. x \in InUse(hdr, heapblocks)
    BY OwnedInUse DEF AsmInv, IInv, AllOwned
  <2> QED
    BY <1>1, <2>1 DEF Allocated, Steady, InUse
<1>5. OwnWritable(f)'
  <2> SUFFICES ASSUME NEW x \in Owned(range', code', f)
               PROVE  hdr'[x].terminator \notin isExec'
    BY DEF OwnWritable
  <2>1. CASE x = GetBlock(r)
    BY <1>3, <2>1
  <2>2. CASE x \in Owned(range, code, f)
    BY <1>3, <1>4, <2>2 DEF OwnWritable
  <2>3. x = GetBlock(r) \/ x \in Owned(range, code, f)
    BY <1>3 DEF Owned
  <2> QED
    BY <2>1, <2>2, <2>3
<1>6. StillWritable'
  BY <1>5 DEF StillWritable, OwnWritable
<1>7. ASSUME releases = 0
      PROVE  /\ LowestRight' /\ WritesWritable
  <2>1. 0 \in ByteLimits /\ IInv /\ Lowest(hdr, heapblocks)
    BY <1>7, BufferAssumption DEF AsmInv
  <2>2. /\ StaysLowest
        /\ \E b : /\ range' = [range EXCEPT ![f] = @ \cup {RangeOf(hdr', b)}]
                  /\ b \in Nat /\ hdr'[b].lower = NULL /\ OnlyWrites(hdr'[b].terminator)
                  /\ hdr'[b].terminator \notin isExec'
    BY <2>1, AllocWrites DEF Alloc
  <2>3. PICK b : /\ range' = [range EXCEPT ![f] = @ \cup {RangeOf(hdr', b)}]
                 /\ b \in Nat /\ hdr'[b].lower = NULL /\ OnlyWrites(hdr'[b].terminator)
                 /\ hdr'[b].terminator \notin isExec'
    BY <2>2
  <2>4. WritesWritable
    BY <2>3, OnlyInWritable
  <2>5. \A x \in Owned(range, code, f) : hdr[x].lower = NULL => hdr'[x].lower = NULL
    BY <1>4, <2>2 DEF StaysLowest
  <2>6. \A x \in Elements(code[f]) : hdr'[x].lower = NULL
    BY <1>7, <2>5 DEF Owned
  <2>7. range'[f] = range[f] \cup {RangeOf(hdr', b)}
    BY <1>2, <2>3
  <2>8. ASSUME NEW q \in range'[f]
        PROVE  hdr'[GetBlock(q)].lower = NULL
    <3>1. CASE q \in range[f]
      BY <1>7, <2>5, <3>1 DEF Owned
    <3>2. CASE q = RangeOf(hdr', b)
      <4>1. GetBlock(q) = b
        BY <2>3, <3>2, SizesAssumption DEF RangeOf, GetBlock, Start
      <4> QED
        BY <2>3, <4>1
    <3> QED
      BY <2>7, <3>1, <3>2
  <2> QED
    BY <1>3, <2>2, <2>4, <2>6, <2>8 DEF LowestRight, StaysLowest
<1>8. LowestRight' /\ (releases' = 0 => WritesWritable)
  BY <1>7 DEF LowestRight
<1> QED
  BY <1>6, <1>8 DEF Unprotected, WriteInv

LEMMA AllocsWrite ==
  ASSUME AsmInv, WriteInv,
         (\E f \in Client : BeginAssembly(f)) \/ NewBlock \/ LeaveTraceFirst,
         UNCHANGED releases
  PROVE  Unprotected
<1>1. ASSUME NEW f \in Client, BeginAssembly(f)
      PROVE  Unprotected
  <2>1. /\ range[f] = {} /\ code[f] = <<>> /\ pc = "idle" /\ Alloc(f) /\ frag' = f
    BY <1>1 DEF BeginAssembly, AsmInv, RangesAreBuffers, CodeIsFinished, Filling
  <2>2. Elements(code[f]) = {} /\ OwnWritable(f)
    BY <2>1 DEF Elements, OwnWritable, Owned
  <2>3. releases = 0 => Lowest(hdr, heapblocks)
    BY DEF WriteInv, LowestRight
  <2> QED
    BY <2>1, <2>2, <2>3, AllocWritable
<1>2. CASE NewBlock \/ LeaveTraceFirst
  <2>1. /\ pc \in Compiling /\ pc # "idle" /\ Alloc(frag) /\ frag' = frag
    BY <1>2 DEF NewBlock, LeaveTraceFirst, LeaveTrace, Paging, Compiling
  <2>2. frag \in Client
    BY <2>1, FillingHeld
  <2>3. releases = 0 => /\ Lowest(hdr, heapblocks)
                        /\ \A q \in range[frag] : hdr[GetBlock(q)].lower = NULL
                        /\ \A b \in Elements(code[frag]) : hdr[b].lower = NULL
    BY <2>1 DEF WriteInv, LowestRight
  <2>4. OwnWritable(frag)
    BY <2>1 DEF WriteInv, StillWritable, Unmarked
  <2> QED
    BY <2>1, <2>2, <2>3, <2>4, AllocWritable
<1> QED
  BY <1>1, <1>2

\* A step that puts one of the blocks held on the list, or frees one.
LEMMA HeldWrites ==
  ASSUME AsmInv, WriteInv, IInv', pc \in Unmarked, frag' = frag, releases' = releases,
         isExec' = isExec,
         NEW b \in Owned(range, code, frag),
         releases = 0 => StaysLowest /\ OnlyWrites(hdr[b].terminator),
         \A z \in Owned(range', code', frag) :
           \E y \in Owned(range, code, frag) : hdr'[z].terminator = hdr[y].terminator,
         range'[frag] \subseteq range[frag],
         pc' \in Compiling \cup {"freeList"} =>
           /\ pc \in Compiling \cup {"freeList"}
           /\ \A x \in Elements(code'[frag]) :
                \/ x \in Elements(code[frag])
                \/ \E r \in range[frag] : x = GetBlock(r)
  PROVE  Unprotected
<1>1. pc # "idle" /\ frag \in Client /\ OwnWritable(frag)
  <2>1. pc # "idle"
    BY DEF Unmarked, Compiling
  <2> QED
    BY <2>1, FillingHeld DEF WriteInv, StillWritable
<1>2. StillWritable'
  <2>1. OwnWritable(frag)'
    BY <1>1, OwnStays
  <2> QED
    BY <2>1 DEF StillWritable, OwnWritable
<1>3. ASSUME releases = 0
      PROVE  LowestRight' /\ WritesWritable
  <2>1. hdr[b].terminator \notin isExec'
    BY <1>1 DEF OwnWritable
  <2>2. WritesWritable
    BY <1>3, <2>1, OnlyInWritable
  <2>3. \A x \in Owned(range, code, frag) \cup Owned(range', code', frag) :
          x \in Owned(range, code, frag) => x \in DOMAIN hdr
    BY <1>1, OwnedInUse DEF AsmInv, IInv, AllOwned, InUse
  <2>4. \A x \in Owned(range', code', frag) : x \in DOMAIN hdr'
    BY <1>1, OwnedInUse DEF IInv, AllOwned, InUse
  <2>5. \A r \in range[frag] : hdr[GetBlock(r)].lower = NULL
    BY <1>1, <1>3 DEF WriteInv, LowestRight
  <2>6. \A x \in Owned(range, code, frag) \cap Owned(range', code', frag) :
          hdr[x].lower = NULL => hdr'[x].lower = NULL
    BY <1>3, <2>3, <2>4 DEF StaysLowest
  <2>7. \A r \in range'[frag] : hdr'[GetBlock(r)].lower = NULL
    BY <2>5, <2>6 DEF Owned
  <2>8. ASSUME pc' \in Compiling \cup {"freeList"}, NEW x \in Elements(code'[frag])
        PROVE  hdr'[x].lower = NULL
    <3>1. x \in Owned(range, code, frag) \cap Owned(range', code', frag)
      BY <2>8 DEF Owned
    <3>2. hdr[x].lower = NULL
      BY <1>3, <2>5, <2>8 DEF WriteInv, LowestRight
    <3> QED
      BY <2>6, <3>1, <3>2
  <2> QED
    BY <1>3, <2>2, <2>7, <2>8 DEF LowestRight, StaysLowest
<1> QED
  BY <1>2, <1>3 DEF Unprotected, WriteInv, LowestRight

\* A block that is held is the block of one range, and not on the list too.
LEMMA OneRange ==
  ASSUME AsmInv, NEW c \in Client, NEW r \in range[c]
  PROVE  /\ GetBlock(r) \in Owned(range, code, c) /\ GetBlock(r) \notin Elements(code[c])
         /\ \A q \in range[c] : GetBlock(q) = GetBlock(r) => q = r
<1>1. GetBlock(r) \in Owned(range, code, c) /\ GetBlock(r) \notin Elements(code[c])
  BY DEF AsmInv, IInv, Holding, OwnedOnce, Owned
<1>2. ASSUME NEW q \in range[c], GetBlock(q) = GetBlock(r)
      PROVE  q = r
  <2>1. /\ q \in [start : Nat, end : Nat] /\ r \in [start : Nat, end : Nat]
        /\ q.start = r.start /\ q.end = r.end
    <3>1. IInv
      BY DEF AsmInv
    <3>2. /\ q \in [start : Nat, end : Nat] /\ Start(GetBlock(q)) = q.start
          /\ hdr[GetBlock(q)].higher = q.end
      BY <3>1, RangeBlock
    <3>3. /\ r \in [start : Nat, end : Nat] /\ Start(GetBlock(r)) = r.start
          /\ hdr[GetBlock(r)].higher = r.end
      BY <3>1, RangeBlock
    <3> QED
      BY <1>2, <3>2, <3>3
  <2> QED
    BY <2>1
<1> QED
  BY <1>1, <1>2

LEMMA SaveWrites ==
  ASSUME AsmInv, WriteInv, NEW n \in 1 .. MinAllocSize, SaveBlock(n), UNCHANGED releases
  PROVE  Unprotected
<1>1. PICK r : r = Extent(here)
  OBVIOUS
<1>2. PICK b : b = GetBlock(r)
  OBVIOUS
<1>3. /\ pc \in Compiling /\ pc' \in Compiling /\ pc \in Unmarked /\ pc # "idle"
      /\ Add(frag, r) /\ frag' = frag /\ releases' = releases
  BY <1>1 DEF SaveBlock, Emitting, Compiling, Unmarked, PageFor
<1>4. /\ frag \in Client /\ r \in range[frag] /\ isExec' = isExec /\ hdr' = hdr
      /\ range' = [range EXCEPT ![frag] = @ \ {r}]
      /\ code' = [code EXCEPT ![frag] = <<b>> \o @]
      /\ code \in [Client -> Seq(Nat)] /\ b \in Nat
      /\ range \in [Client -> SUBSET [start : Nat, end : Nat]]
  BY <1>2, <1>3, FillingHeld, RangeBlock DEF Add, AsmInv, IInv, Holding, HoldingTyped
<1>5. Elements(code'[frag]) = Elements(code[frag]) \cup {b} /\ range'[frag] = range[frag] \ {r}
  BY <1>4, PutOnOK DEF PutOn
<1>6. b \in Owned(range, code, frag) /\ Owned(range', code', frag) \subseteq Owned(range, code, frag)
  BY <1>2, <1>4, <1>5 DEF Owned
<1>7. releases = 0 => StaysLowest /\ OnlyWrites(hdr[b].terminator)
  BY <1>2, <1>3, <1>4, AddWrites DEF AsmInv, WriteInv, LowestRight
<1>8. IInv'
  BY <1>3, <1>4, AddOK DEF AsmInv, Kept
<1> QED
  BY <1>2, <1>3, <1>4, <1>5, <1>6, <1>7, <1>8, HeldWrites

LEMMA KeepsWrite ==
  ASSUME AsmInv, WriteInv, KeepExit \/ KeepCode, UNCHANGED releases
  PROVE  Unprotected
<1>1. PICK p : /\ p = (IF pc = "keepExit" THEN there ELSE here)
               /\ AddRemainder(frag, Extent(p), p.start, p.ip)
  BY DEF KeepExit, KeepCode
<1>2. /\ pc \in {"keepExit", "keepCode"} /\ pc # "idle" /\ pc \in Unmarked
      /\ pc' \in {"keepCode", "mark"} /\ frag' = frag /\ releases' = releases
  BY DEF KeepExit, KeepCode, Unmarked
<1>3. PICK r : r = Extent(p)
  OBVIOUS
<1>4. /\ r.start = p.start /\ p.ip \in r.start .. r.end /\ p.ip < r.end
      /\ AddRemainder(frag, r, r.start, p.ip) /\ r \in range[frag]
  <2>1. p # NULL /\ Sound(p) /\ p.ip < p.end
    BY <1>1, <1>2 DEF AsmInv, BuffersRight, AsmTypes, Compiling
  <2> QED
    BY <1>1, <1>3, <2>1, ExtentOK DEF AddRemainder
<1>5. /\ frag \in Client /\ range' = [range EXCEPT ![frag] = @ \ {r}] /\ isExec' = isExec
      /\ range \in [Client -> SUBSET [start : Nat, end : Nat]]
      /\ r.start % PtrSize = 0 /\ SizeofMinBlock % PtrSize = 0
      /\ code \in [Client -> Seq(Nat)]
  BY <1>2, <1>4, FillingHeld, RangeAligned, BufferAssumption
     DEF AddRemainder, AsmInv, IInv, Holding, HoldingTyped
<1>6. PICK b : b = GetBlock(r)
  OBVIOUS
<1>7. /\ Kept /\ Steady(InUse(hdr, heapblocks) \ {b})
      /\ \E n : /\ n \in InUse(hdr', heapblocks')
                /\ code' = [code EXCEPT ![frag] = <<n>> \o @]
                /\ hdr'[n].terminator = hdr[b].terminator
  <2>1. FreeRoom(hdr, heapblocks, 0) /\ 0 \in Nat /\ 0 <= HeaderSpaceFor(2) + MinAllocSize
    BY SomeRoom, RoomOK DEF AsmInv, IInv, HeapOK
  <2> QED
    BY <1>4, <1>5, <1>6, <2>1, RemainderStep, ZenonT(60) DEF AsmInv
<1>8. PICK n : /\ n \in InUse(hdr', heapblocks')
               /\ code' = [code EXCEPT ![frag] = <<n>> \o @]
               /\ hdr'[n].terminator = hdr[b].terminator
  BY <1>7
<1>9. IInv' /\ n \in Nat
  BY <1>7, <1>8 DEF AsmInv, Kept, IInv, HeapOK, HOK, HTyped, InUse
<1>10. Elements(code'[frag]) = Elements(code[frag]) \cup {n} /\ range'[frag] = range[frag] \ {r}
  BY <1>5, <1>8, <1>9, PutOnOK DEF PutOn
<1>11. b \in Owned(range, code, frag) /\ b \notin Elements(code[frag])
       /\ \A q \in range[frag] : GetBlock(q) = b => q = r
  BY <1>4, <1>5, <1>6, OneRange
<1>12. ASSUME NEW z \in Owned(range', code', frag)
       PROVE  \E y \in Owned(range, code, frag) : hdr'[z].terminator = hdr[y].terminator
  <2>1. CASE z = n
    BY <1>8, <1>11, <2>1
  <2>2. CASE z # n
    <3>1. z \in Owned(range, code, frag) /\ z # b
      BY <1>10, <1>11, <2>2 DEF Owned
    <3>2. z \in InUse(hdr, heapblocks)
      BY <1>5, <3>1, OwnedInUse DEF AsmInv, IInv, AllOwned
    <3> QED
      BY <1>7, <3>1, <3>2 DEF Steady
  <2> QED
    BY <2>1, <2>2
<1>13. releases = 0 => StaysLowest /\ OnlyWrites(hdr[b].terminator)
  <2>1. releases = 0 => Lowest(hdr, heapblocks) /\ hdr[b].lower = NULL
    BY <1>2, <1>4, <1>6 DEF WriteInv, LowestRight
  <2> QED
    BY <1>4, <1>5, <1>6, <2>1, RemainderWrites DEF AsmInv
<1>14. pc' \notin Compiling \cup {"freeList"} /\ range'[frag] \subseteq range[frag]
  BY <1>2, <1>10 DEF Compiling
<1> QED
  BY <1>2, <1>5, <1>9, <1>11, <1>12, <1>13, <1>14, HeldWrites

LEMMA FreesWrite ==
  ASSUME AsmInv, WriteInv, FreeExit \/ FreeCode, UNCHANGED releases
  PROVE  Unprotected
<1>1. PICK r : Free(frag, r)
  BY DEF FreeExit, FreeCode
<1>2. /\ pc \in {"freeExit", "freeCode"} /\ pc # "idle" /\ pc \in Unmarked
      /\ pc' \in {"freeCode", "markAll"} /\ frag' = frag /\ releases' = releases
  BY DEF FreeExit, FreeCode, Unmarked
<1>3. PICK b : b = GetBlock(r)
  OBVIOUS
<1>4. /\ frag \in Client /\ r \in range[frag] /\ isExec' = isExec /\ code' = code
      /\ range' = [range EXCEPT ![frag] = @ \ {r}]
      /\ range \in [Client -> SUBSET [start : Nat, end : Nat]]
  BY <1>1, <1>2, FillingHeld DEF Free
<1>5. range'[frag] = range[frag] \ {r} /\ b \in Owned(range, code, frag)
      /\ b \notin Elements(code[frag])
      /\ \A q \in range[frag] : GetBlock(q) = b => q = r
  BY <1>3, <1>4, OneRange
<1>6. IInv' /\ Steady(InUse(hdr, heapblocks) \ {b})
  <2>1. FreeRoom(hdr, heapblocks, 0) /\ r.end - r.start >= 0 /\ 0 \in Nat
    BY <1>4, SomeRoom, RangeBlock, SizesAssumption
       DEF AsmInv, IInv, HeapOK, Holding, RangesRight
  <2> QED
    BY <1>1, <1>3, <1>4, <2>1, FreeStep DEF AsmInv, Kept
<1>7. ASSUME NEW z \in Owned(range', code', frag)
      PROVE  \E y \in Owned(range, code, frag) : hdr'[z].terminator = hdr[y].terminator
  <2>1. z \in Owned(range, code, frag) /\ z # b
    BY <1>4, <1>5 DEF Owned
  <2>2. z \in InUse(hdr, heapblocks)
    BY <1>4, <2>1, OwnedInUse DEF AsmInv, IInv, AllOwned
  <2> QED
    BY <1>6, <2>1, <2>2 DEF Steady
<1>8. releases = 0 => StaysLowest /\ OnlyWrites(hdr[b].terminator)
  <2>1. releases = 0 => Lowest(hdr, heapblocks) /\ hdr[b].lower = NULL
    BY <1>2, <1>3, <1>4 DEF WriteInv, LowestRight
  <2> QED
    BY <1>1, <1>3, <1>4, <2>1, FreeWrites DEF AsmInv
<1>9. pc' \notin Compiling \cup {"freeList"} /\ range'[frag] \subseteq range[frag]
  BY <1>2, <1>5 DEF Compiling
<1> QED
  BY <1>2, <1>4, <1>5, <1>6, <1>7, <1>8, <1>9, HeldWrites

LEMMA FreeListWrites ==
  ASSUME AsmInv, WriteInv, AsmInv', FreeList, UNCHANGED releases
  PROVE  Unprotected
<1>1. /\ pc \in {"freeList", "release"} /\ pc # "idle" /\ pc' = pc /\ frag' = frag
      /\ releases' = releases /\ (FreeAll(frag) \/ FreeAllStep(frag))
  BY DEF FreeList, compileVars
<1>2. CASE FreeAll(frag)
  BY <1>1, <1>2, QuietOK DEF FreeAll
<1>3. CASE FreeAllStep(frag) /\ pc = "release"
  BY <1>1, <1>3 DEF AsmInv, RoomLeft, Unprotected, WriteInv, LowestRight, StillWritable,
                    Unmarked, Compiling
<1>4. CASE FreeAllStep(frag) /\ pc = "freeList"
  <2>1. PICK b : b = Head(code[frag])
    OBVIOUS
  <2>2. /\ frag \in Client /\ pc \in Unmarked /\ isExec' = isExec /\ range' = range
        /\ code[frag] # <<>>
    BY <1>1, <1>4, FillingHeld DEF FreeAllStep, Unmarked
  <2>3. b \in Elements(code[frag]) /\ b \in InUse(hdr, heapblocks)
    BY <2>1, <2>2, TailOK DEF AsmInv, IInv, Holding, HoldingTyped, ListsRight
  <2>4. /\ Steady(InUse(hdr, heapblocks) \ {b})
        /\ Elements(code'[frag]) = Elements(code[frag]) \ {b}
    <3>1. FreeRoom(hdr, heapblocks, 0) /\ Size(hdr, b) >= 0 /\ 0 \in Nat
      BY <2>3, SomeRoom, SizesAssumption
         DEF AsmInv, IInv, HeapOK, HOK, HTyped, HUp, InUse, Size, Start
    <3> QED
      BY <1>4, <2>1, <2>2, <3>1, FreeAllStepStep DEF AsmInv
  <2>5. b \in Owned(range, code, frag)
    BY <2>3 DEF Owned
  <2>6. ASSUME NEW z \in Owned(range', code', frag)
        PROVE  \E y \in Owned(range, code, frag) : hdr'[z].terminator = hdr[y].terminator
    <3>1. z \in Owned(range, code, frag) /\ z # b
      BY <2>2, <2>3, <2>4, OneRange DEF Owned
    <3>2. z \in InUse(hdr, heapblocks)
      BY <2>2, <3>1, OwnedInUse DEF AsmInv, IInv, AllOwned
    <3> QED
      BY <2>4, <3>1, <3>2 DEF Steady
  <2>7. releases = 0 => StaysLowest /\ OnlyWrites(hdr[b].terminator)
    <3>1. releases = 0 => Lowest(hdr, heapblocks) /\ hdr[b].lower = NULL
      BY <1>4, <2>3 DEF WriteInv, LowestRight
    <3> QED
      BY <1>4, <2>1, <2>2, <3>1, FreeAllStepWrites DEF AsmInv
  <2>8. IInv' /\ pc \in Compiling \cup {"freeList"}
    BY <1>4 DEF AsmInv
  <2> QED
    BY <1>1, <2>2, <2>4, <2>5, <2>6, <2>7, <2>8, HeldWrites
<1> QED
  BY <1>1, <1>2, <1>3, <1>4

\* The steps that write to no header.
LEMMA QuietSteps ==
  ASSUME AsmInv, WriteInv,
         \/ \E n \in 1 .. MinAllocSize : Protect(n) \/ Emit(n)
         \/ LeaveTraceAgain \/ EndExit \/ SetError \/ EndGen \/ EndPrologue
         \/ Finish \/ EndFreeList \/ Abandon,
         UNCHANGED releases
  PROVE  Unprotected
<1>1. /\ UNCHANGED <<hdr, heapblocks, availblocks, code, range, frag>>
      /\ releases' = releases /\ pc # "idle"
  BY DEF Protect, Emit, Emitting, LeaveTraceAgain, LeaveTrace, EndExit, SetError, EndGen,
         EndPrologue, Finish, MarkExec, EndFreeList, Abandon, MarkAllExec, vars
<1>2. /\ pc' \in Compiling \cup {"freeList"} => pc \in Compiling \cup {"freeList"}
      /\ pc' \in Unmarked => pc \in Unmarked /\ isExec' = isExec
  <2>1. CASE \/ \E n \in 1 .. MinAllocSize : Protect(n) \/ Emit(n)
             \/ LeaveTraceAgain \/ EndExit \/ SetError
    BY <2>1 DEF Protect, Emit, LeaveTraceAgain, LeaveTrace, EndExit, SetError, vars
  <2>2. CASE EndGen \/ EndPrologue \/ EndFreeList
    BY <2>2 DEF EndGen, EndPrologue, EndFreeList, Unmarked, Compiling, vars
  <2>3. CASE Finish \/ Abandon
    BY <2>3 DEF Finish, Abandon, Unmarked, Compiling
  <2> QED
    BY <2>1, <2>2, <2>3
<1> QED
  BY <1>1, <1>2, QuietOK

LEMMA WriteInitOK == AsmInit => WriteInv
BY DEF AsmInit, Init, WriteInv, LowestRight, Lowest, StillWritable, Unmarked, Compiling

LEMMA WriteNextOK == AsmInv /\ AsmInv' /\ WriteInv /\ [AsmNext]_allVars => Unprotected
<1> SUFFICES ASSUME AsmInv, AsmInv', WriteInv, [AsmNext]_allVars
             PROVE  Unprotected
  OBVIOUS
<1>1. CASE UNCHANGED allVars
  BY <1>1, QuietOK DEF allVars, vars, asmVars, compileVars
<1>2. CASE /\ (\E f \in Client : BeginAssembly(f)) \/ NewBlock \/ LeaveTraceFirst
           /\ UNCHANGED releases
  BY <1>2, AllocsWrite
<1>3. CASE (\E n \in 1 .. MinAllocSize : SaveBlock(n)) /\ UNCHANGED releases
  BY <1>3, SaveWrites
<1>4. CASE (KeepExit \/ KeepCode \/ FreeExit \/ FreeCode \/ FreeList) /\ UNCHANGED releases
  BY <1>4, KeepsWrite, FreesWrite, FreeListWrites
<1>5. CASE /\ \/ \E n \in 1 .. MinAllocSize : Protect(n) \/ Emit(n)
              \/ LeaveTraceAgain \/ EndExit \/ SetError \/ EndGen \/ EndPrologue
              \/ Finish \/ EndFreeList \/ Abandon
           /\ UNCHANGED releases
  BY <1>5, QuietSteps
<1>6. ASSUME NEW f \in Client, Release(f)
      PROVE  Unprotected
  <2>1. releases' = releases + 1 /\ pc' = "release" /\ releases \in Nat
    BY <1>6 DEF Release, AsmInv, AsmTypes
  <2> QED
    BY <2>1 DEF Unprotected, WriteInv, LowestRight, StillWritable, Unmarked, Compiling
<1> QED
  BY <1>1, <1>2, <1>3, <1>4, <1>5, <1>6 DEF AsmNext, Compile

\* Until finished code is freed, alloc, add, addRemainder, free and freeAll
\* write headers and links only in chunks that markCodeChunkWrite has been
\* called for, though markExec protects the chunks of finished fragments.
THEOREM WritesAlwaysWritable == AsmSpec => WritesOnlyWritable
<1>1. AsmInv /\ AsmInv' /\ WriteInv /\ [AsmNext]_allVars
        => WriteInv' /\ (releases' = 0 => WritesWritable)
  BY WriteNextOK DEF Unprotected
<1> QED
  BY <1>1, WriteInitOK, AsmInvariant, PTL DEF AsmSpec, WritesOnlyWritable

-----------------------------------------------------------------------------
(* Exits and the main code lie in different blocks.                        *)

\* All blocks emitted to are held by the fragment, so that none of them can be
\* handed out again; the current one has only been used for what is emitted
\* now, the other one only for the other kind of code.
StreamsRight ==
  /\ inExit \in BOOLEAN
  /\ written # {} => pc \in Compiling
  /\ \A w \in written :
       /\ GetBlock(w) \in Owned(range, code, frag)
       /\ w.start = here.start => w.exit = inExit
       /\ there # NULL /\ w.start = there.start => w.exit = ~inExit

StreamInv == StreamsRight /\ StreamsApart

\* A step that emits nothing and gives no block away.
LEMMA StreamsKept ==
  ASSUME StreamInv, written' \subseteq written, written' # {} => pc' \in Compiling,
         here' = here, there' = there, inExit' = inExit, frag' = frag,
         Owned(range, code, frag) \subseteq Owned(range', code', frag)
  PROVE  StreamInv'
<1>1. StreamsApart'
  BY DEF StreamInv, StreamsApart
<1>2. ASSUME NEW w \in written'
      PROVE  /\ GetBlock(w) \in Owned(range', code', frag')
             /\ w.start = here'.start => w.exit = inExit'
             /\ there' # NULL /\ w.start = there'.start => w.exit = ~inExit'
  BY <1>2, Zenon DEF StreamInv, StreamsRight
<1> QED
  BY <1>1, <1>2, Zenon DEF StreamInv, StreamsRight

\* A step outside a compilation.
LEMMA StreamsNone ==
  ASSUME written' = {}, inExit' \in BOOLEAN
  PROVE  StreamInv'
BY DEF StreamInv, StreamsRight, StreamsApart

\* Code is emitted to the current block.
LEMMA EmitStreams ==
  ASSUME AsmInv, StreamInv, NEW k \in 1 .. MinAllocSize, Emit(k)
  PROVE  StreamInv'
<1>1. /\ pc \in {"gen", "prologue"} /\ pc' = pc /\ inExit' = inExit /\ there' = there
      /\ frag' = frag /\ range' = range /\ code' = code
      /\ written' = written \cup {Writing(here)}
      /\ here' = [here EXCEPT !.ip = @ - k]
  BY DEF Emit, Emitting, vars
<1>2. /\ here # NULL /\ Sound(here) /\ pc # "idle" /\ here \in Filling
      /\ there # NULL => Sound(there) /\ Extent(here) # Extent(there) /\ there \in Filling
  BY <1>1 DEF AsmInv, AsmTypes, BuffersRight, Compiling, Filling
<1>3. here'.start = here.start
  BY <1>1, <1>2 DEF Sound, Buf
<1>4. /\ Extent(here) \in range[frag] /\ frag \in Client
      /\ there # NULL => Extent(there) \in range[frag]
  BY <1>2, FillingHeld
<1>5. GetBlock(Extent(here)) \in Owned(range, code, frag)
  BY <1>4 DEF Owned
<1>6. PICK v : v = Writing(here) /\ v.start = here.start /\ v.exit = inExit
  <2>1. Writing(here).start = here.start /\ Writing(here).exit = inExit
    BY DEF Writing
  <2> QED
    BY <2>1
<1>7. GetBlock(v) \in Owned(range, code, frag)
  BY <1>5, <1>6 DEF GetBlock, Extent
<1>8. there # NULL => there.start # here.start
  <2> SUFFICES ASSUME there # NULL, there.start = here.start
               PROVE  FALSE
    OBVIOUS
  <2>1. GetBlock(Extent(there)) = GetBlock(Extent(here))
    BY DEF GetBlock, Extent
  <2> QED
    BY <1>2, <1>4, <2>1, OneRange
<1>9. StreamsApart'
  <2> SUFFICES ASSUME NEW x \in written', NEW y \in written', x.start = y.start
               PROVE  x.exit = y.exit
    BY DEF StreamsApart
  <2>1. x \in written \cup {v} /\ y \in written \cup {v}
    BY <1>1, <1>6
  <2>2. \A w \in written : w.start = v.start => w.exit = v.exit
    BY <1>6 DEF StreamInv, StreamsRight
  <2>3. x \in written /\ y \in written => x.exit = y.exit
    BY DEF StreamInv, StreamsApart
  <2> QED
    BY <2>1, <2>2, <2>3
<1>10. ASSUME NEW w \in written'
       PROVE  /\ GetBlock(w) \in Owned(range, code, frag)
              /\ w.start = here.start => w.exit = inExit
              /\ there # NULL /\ w.start = there.start => w.exit = ~inExit
  <2>1. CASE w \in written
    BY <2>1, Zenon DEF StreamInv, StreamsRight
  <2>2. CASE w = v
    BY <2>2, <1>6, <1>7, <1>8, Zenon
  <2> QED
    BY <1>1, <1>6, <2>1, <2>2
<1>11. pc' \in Compiling /\ inExit \in BOOLEAN
  BY <1>1 DEF StreamInv, StreamsRight, Compiling
<1> QED
  BY <1>1, <1>3, <1>9, <1>10, <1>11, Zenon DEF StreamInv, StreamsRight

\* A block that is allocated has not been emitted to.
LEMMA FreshUnwritten ==
  ASSUME AsmInv, StreamInv, pc \in Compiling, NEW r, Allocated(frag, r)
  PROVE  /\ \A w \in written : w.start # r.start
         /\ there # NULL /\ pc \in {"gen", "genPage", "prologuePage"}
              => there.start # r.start
         /\ here # NULL /\ pc = "gen" => here.start # r.start
         /\ GetBlock(r) \in Owned(range', code', frag)
         /\ Owned(range, code, frag) \subseteq Owned(range', code', frag)
<1>1. /\ frag \in Client /\ range[frag] = {Extent(p) : p \in Filling}
      /\ range \in [Client -> SUBSET [start : Nat, end : Nat]]
  BY FillingHeld DEF Compiling
<1>2. range'[frag] = range[frag] \cup {r} /\ r \notin range[frag] /\ code' = code
  BY <1>1 DEF Allocated
<1>3. GetBlock(r) \notin Owned(range, code, frag)
  <2>1. GetBlock(r) \notin Elements(code[frag])
    BY <1>1, <1>2 DEF Allocated, IInv, Holding, OwnedOnce
  <2>2. ASSUME NEW q \in range[frag], GetBlock(q) = GetBlock(r)
        PROVE  FALSE
    <3>1. /\ q.start \in Nat /\ q.end \in Nat /\ q = [start |-> q.start, end |-> q.end]
          /\ r.start \in Nat /\ r.end \in Nat /\ r = [start |-> r.start, end |-> r.end]
      BY <1>1 DEF Allocated
    <3>2. q.start = r.start
      BY <2>2, <3>1, SizesAssumption DEF GetBlock
    <3>3. q.end = r.end
      <4>1. /\ hdr'[GetBlock(q)].higher = q.end
            /\ hdr'[GetBlock(r)].higher = r.end
        BY <1>1, <1>2 DEF Allocated, IInv, Holding, RangesRight
      <4> QED
        BY <2>2, <4>1
    <3> QED
      BY <1>2, <3>1, <3>2, <3>3
  <2> QED
    BY <2>1, <2>2 DEF Owned
<1>4. ASSUME NEW w, GetBlock(w) \in Owned(range, code, frag)
      PROVE  w.start # r.start
  BY <1>3, <1>4 DEF GetBlock
<1>5. ASSUME NEW p \in Filling
      PROVE  p.start # r.start
  <2>1. GetBlock(Extent(p)) \in Owned(range, code, frag) /\ Extent(p).start = p.start
    BY <1>1 DEF Owned, Extent
  <2> QED
    BY <1>4, <2>1
<1>6. \A w \in written : w.start # r.start
  BY <1>4 DEF StreamInv, StreamsRight
<1>7. /\ GetBlock(r) \in Owned(range', code', frag)
      /\ Owned(range, code, frag) \subseteq Owned(range', code', frag)
  BY <1>2 DEF Owned
<1> QED
  BY <1>5, <1>6, <1>7 DEF Filling

\* A page break: the jump is the first code of the new block.
LEMMA NewBlockStreams ==
  ASSUME AsmInv, StreamInv, NewBlock
  PROVE  StreamInv'
<1>1. /\ pc \in {"genPage", "prologuePage"} /\ pc' \in {"gen", "prologue"}
      /\ Alloc(frag) /\ here' = Buffer(Fresh(frag), JumpSize)
      /\ inExit' = inExit /\ there' = there /\ frag' = frag
      /\ written' = written \cup {Writing(here')}
  BY DEF NewBlock, Paging
<1>2. pc \in Compiling /\ pc' \in Compiling /\ frag \in Client
  BY <1>1 DEF Compiling, AsmInv, AsmTypes
<1>3. PICK r : Allocated(frag, r)
  BY <1>1, <1>2, AllocOK
<1>4. here'.start = r.start
  BY <1>1, <1>3 DEF Allocated, Buffer
<1>5. PICK v : v = Writing(here') /\ v.start = r.start /\ v.exit = inExit
  <2>1. Writing(here').start = r.start /\ Writing(here').exit = inExit
    BY <1>4 DEF Writing
  <2> QED
    BY <2>1
<1>6. /\ \A w \in written : w.start # r.start
      /\ there # NULL => there.start # r.start
      /\ GetBlock(r) \in Owned(range', code', frag)
      /\ Owned(range, code, frag) \subseteq Owned(range', code', frag)
  BY <1>1, <1>2, <1>3, FreshUnwritten
<1>7. StreamsApart'
  <2> SUFFICES ASSUME NEW x \in written', NEW y \in written', x.start = y.start
               PROVE  x.exit = y.exit
    BY DEF StreamsApart
  <2>1. x \in written /\ y \in written => x.exit = y.exit
    BY DEF StreamInv, StreamsApart
  <2> QED
    BY <1>1, <1>5, <1>6, <2>1
<1>8. ASSUME NEW w \in written'
      PROVE  /\ GetBlock(w) \in Owned(range', code', frag)
             /\ w.start = r.start => w.exit = inExit
             /\ there # NULL /\ w.start = there.start => w.exit = ~inExit
  <2>1. CASE w \in written
    BY <2>1, <1>6, Zenon DEF StreamInv, StreamsRight
  <2>2. CASE w = v
    <3>1. GetBlock(w) = GetBlock(r)
      BY <2>2, <1>5 DEF GetBlock
    <3> QED
      BY <2>2, <3>1, <1>5, <1>6, Zenon
  <2> QED
    BY <1>1, <1>5, <2>1, <2>2
<1>9. inExit \in BOOLEAN
  BY DEF StreamInv, StreamsRight
<1> QED
  BY <1>1, <1>2, <1>4, <1>7, <1>8, <1>9, Zenon DEF StreamInv, StreamsRight

\* swapCodeChunks: the buffers change places with what is emitted to them.
LEMMA SwapStreams ==
  ASSUME AsmInv, StreamInv, LeaveTraceFirst \/ LeaveTraceAgain \/ EndExit
  PROVE  StreamInv'
<1>1. /\ pc = "gen" /\ pc' = "gen" /\ frag' = frag /\ written' = written
      /\ inExit' = ~inExit /\ there' = here /\ inExit' \in BOOLEAN
  BY DEF LeaveTraceFirst, LeaveTraceAgain, LeaveTrace, EndExit, StreamInv, StreamsRight
<1>2. /\ Owned(range, code, frag) \subseteq Owned(range', code', frag)
      /\ \A w \in written : w.start = here'.start => w.exit = ~inExit
  <2>1. CASE LeaveTraceFirst
    <3>1. Alloc(frag) /\ here' = Buffer(Fresh(frag), 0) /\ pc \in Compiling
          /\ frag \in Client
      BY <1>1, <2>1 DEF LeaveTraceFirst, Compiling, AsmInv, AsmTypes
    <3>2. PICK r : Allocated(frag, r)
      BY <3>1, AllocOK
    <3>3. here'.start = r.start
      BY <3>1, <3>2 DEF Allocated, Buffer
    <3> QED
      BY <3>1, <3>2, <3>3, FreshUnwritten
  <2>2. CASE LeaveTraceAgain \/ EndExit
    <3>1. here' = there /\ there # NULL /\ range' = range /\ code' = code
      BY <2>2 DEF LeaveTraceAgain, EndExit, AsmInv, BuffersRight, vars
    <3> QED
      BY <3>1, Zenon DEF StreamInv, StreamsRight
  <2> QED
    BY <2>1, <2>2
<1>3. StreamsApart'
  BY <1>1 DEF StreamInv, StreamsApart
<1>4. ASSUME NEW w \in written
      PROVE  /\ GetBlock(w) \in Owned(range', code', frag)
             /\ w.start = here'.start => w.exit = ~inExit
             /\ w.start = here.start => w.exit = inExit
  BY <1>2, Zenon DEF StreamInv, StreamsRight
<1>5. inExit = ~inExit'
  BY <1>1 DEF StreamInv, StreamsRight
<1>6. pc' \in Compiling
  BY <1>1 DEF Compiling
<1> QED
  BY <1>1, <1>3, <1>4, <1>5, <1>6, Zenon DEF StreamInv, StreamsRight

\* A full block goes on the list and stays the fragment's.
LEMMA SaveStreams ==
  ASSUME AsmInv, StreamInv, NEW n \in 1 .. MinAllocSize, SaveBlock(n)
  PROVE  StreamInv'
<1>1. PICK b : b = GetBlock(Extent(here))
  OBVIOUS
<1>2. /\ Add(frag, Extent(here)) /\ frag' = frag /\ here' = here /\ there' = there
      /\ inExit' = inExit /\ written' = written /\ pc' \in Compiling /\ pc # "idle"
  BY DEF SaveBlock, Emitting, PageFor, Compiling
<1>3. /\ frag \in Client /\ Extent(here) \in range[frag]
      /\ range' = [range EXCEPT ![frag] = @ \ {Extent(here)}]
      /\ code' = [code EXCEPT ![frag] = <<b>> \o @]
      /\ code \in [Client -> Seq(Nat)] /\ b \in Nat
      /\ range \in [Client -> SUBSET [start : Nat, end : Nat]]
  BY <1>1, <1>2, FillingHeld, RangeBlock DEF Add, AsmInv, IInv, Holding, HoldingTyped
<1>4. Elements(code'[frag]) = Elements(code[frag]) \cup {b}
  BY <1>3, PutOnOK DEF PutOn
<1>5. Owned(range, code, frag) \subseteq Owned(range', code', frag)
  BY <1>1, <1>3, <1>4 DEF Owned
<1> QED
  BY <1>2, <1>5, StreamsKept

\* The steps before and after a compilation.
LEMMA OtherStreams ==
  ASSUME AsmInv, StreamInv,
         \/ \E f \in Client : BeginAssembly(f) \/ Release(f)
         \/ EndPrologue \/ KeepExit \/ KeepCode \/ Finish
         \/ FreeList \/ EndFreeList \/ FreeExit \/ FreeCode \/ Abandon
  PROVE  StreamInv'
<1>1. CASE EndPrologue
  BY <1>1, StreamsNone DEF EndPrologue, StreamInv, StreamsRight
<1>2. CASE \E f \in Client : BeginAssembly(f)
  <2>1. pc = "idle" /\ written' = written /\ inExit' = FALSE
    BY <1>2 DEF BeginAssembly
  <2> QED
    BY <2>1, StreamsNone DEF StreamInv, StreamsRight, Compiling
<1>3. CASE \/ \E f \in Client : Release(f)
           \/ KeepExit \/ KeepCode \/ Finish
           \/ FreeList \/ EndFreeList \/ FreeExit \/ FreeCode \/ Abandon
  <2>1. pc \notin Compiling /\ written' = written /\ inExit' = inExit
    BY <1>3 DEF Release, KeepExit, KeepCode, Finish, FreeList, EndFreeList, FreeExit,
                FreeCode, Abandon, Compiling, compileVars
  <2> QED
    BY <2>1, StreamsNone DEF StreamInv, StreamsRight
<1> QED
  BY <1>1, <1>2, <1>3

LEMMA StreamNextOK == AsmInv /\ StreamInv /\ [AsmNext]_allVars => StreamInv'
<1> SUFFICES ASSUME AsmInv, StreamInv, [AsmNext]_allVars
             PROVE  StreamInv'
  OBVIOUS
<1>1. CASE UNCHANGED allVars
  BY <1>1, StreamsKept DEF allVars, vars, asmVars, compileVars, StreamInv, StreamsRight
<1>2. CASE \E n \in 1 .. MinAllocSize : Emit(n) \/ SaveBlock(n)
  BY <1>2, EmitStreams, SaveStreams
<1>3. CASE NewBlock \/ LeaveTraceFirst \/ LeaveTraceAgain \/ EndExit
  BY <1>3, NewBlockStreams, SwapStreams
<1>4. CASE (\E n \in 1 .. MinAllocSize : Protect(n)) \/ SetError \/ EndGen
  <2>1. /\ here' = here /\ there' = there /\ inExit' = inExit /\ frag' = frag
        /\ range' = range /\ code' = code
        /\ written' = {} \/ written' = written
        /\ pc' = pc \/ written' = {} \/ pc' = "prologue"
    BY <1>4 DEF Protect, SetError, EndGen, vars
  <2>2. written' \subseteq written /\ (written' # {} => pc' \in Compiling)
    BY <2>1 DEF StreamInv, StreamsRight, Compiling
  <2> QED
    BY <2>1, <2>2, StreamsKept
<1>5. CASE \/ \E f \in Client : BeginAssembly(f) \/ Release(f)
           \/ EndPrologue \/ KeepExit \/ KeepCode \/ Finish
           \/ FreeList \/ EndFreeList \/ FreeExit \/ FreeCode \/ Abandon
  BY <1>5, OtherStreams
<1> QED
  BY <1>1, <1>2, <1>3, <1>4, <1>5 DEF AsmNext, Compile

\* swapCodeChunks is called so often that exits and the main code never come to
\* lie in one block, with page breaks in either and for any sizes: alloc hands
\* out no block the fragment still holds, and each swap has its counterpart.
THEOREM StreamsAlwaysApart == AsmSpec => []StreamsApart
<1>1. AsmInit => StreamInv
  BY DEF AsmInit, StreamInv, StreamsRight, StreamsApart
<1>2. StreamInv => StreamsApart
  BY DEF StreamInv
<1> QED
  BY <1>1, <1>2, StreamNextOK, AsmInvariant, PTL DEF AsmSpec

=============================================================================
