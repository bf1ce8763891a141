----------------------------- MODULE CodeAlloc -----------------------------
(***************************************************************************)
(* nanojit/CodeAlloc: the long-lived allocator of executable memory.       *)
(*                                                                         *)
(* Memory comes from the embedder in chunks (allocCodeChunk).  A chunk is  *)
(* tiled by blocks; every block starts with a CodeList header holding the  *)
(* addresses of its neighbours (lower, higher), of the chunk's terminator  *)
(* block, and isFree.  Free blocks that are large enough are linked on     *)
(* availblocks; blocks in use are handed to clients as [start,end) ranges  *)
(* and collected by them in CodeLists.                                     *)
(*                                                                         *)
(* Addresses are natural numbers in units the .cfg chooses.  The link      *)
(* CodeList::next is represented by the sequences it forms: availblocks    *)
(* and code[c]; Successor recovers it.  The state machine is that of the   *)
(* release build: NanoAssert does nothing, and what it asserts is checked  *)
(* by the invariants instead.                                              *)
(***************************************************************************)
EXTENDS Integers, Sequences, SequencesExt

CONSTANTS
  Client,         \* users of the allocator, each with a CodeList of its own
  ChunkBase,      \* addresses allocCodeChunk may return
  BytesPerAlloc,  \* size of a chunk (bytesPerAlloc)
  BytesPerPage,   \* page size; chunks are page aligned (bytesPerPage)
  SizeofMinBlock, \* offset of CodeList::code, the size of a header
  MinAllocSize,   \* smallest block worth having on availblocks
  PtrSize,        \* sizeof(NIns*): the alignment of headers
  ByteLimits,     \* the byteLimit arguments of alloc; 0 is "no limit"
  HoleShapes,     \* the holes the code generator leaves, see HoleShape
  NULL

ASSUME NULLAssumption == NULL \notin Nat
ASSUME SizesAssumption ==
  /\ SizeofMinBlock \in Nat \ {0} /\ MinAllocSize \in Nat \ {0}
  /\ PtrSize \in Nat \ {0} /\ BytesPerPage \in Nat \ {0}
  /\ SizeofMinBlock < BytesPerPage
  /\ BytesPerAlloc \in Nat /\ BytesPerAlloc % BytesPerPage = 0
  /\ BytesPerAlloc >= 2 * SizeofMinBlock + MinAllocSize
ASSUME ChunkAssumption ==
  /\ ChunkBase \subseteq Nat
  /\ \A m \in ChunkBase : m % BytesPerPage = 0
  /\ \A m, n \in ChunkBase : m < n => m + BytesPerAlloc <= n
\* alloc asserts that a limit exceeds the space of two minimal blocks.
ASSUME LimitAssumption ==
  /\ ByteLimits \subseteq Nat
  /\ \A l \in ByteLimits \ {0} : l > 2 * (SizeofMinBlock + MinAllocSize)
ASSUME ShapeAssumption == HoleShapes \subseteq {"left", "middle", "right"}

VARIABLES
  hdr,         \* the CodeList headers now in memory, by address
  heapblocks,  \* the terminator blocks, one for each chunk
  availblocks, \* the reusable blocks, first to last
  isExec,      \* the terminators whose isExec flag is set
  code,        \* code[c]: the CodeList client c has built
  range,       \* range[c]: the [start,end) ranges c holds, not on its list
  freeing,     \* the client whose freeAll loop is running, or NULL
  chunks       \* the chunks the embedder has given out

vars == <<hdr, heapblocks, availblocks, isExec, code, range, freeing, chunks>>

-----------------------------------------------------------------------------
(* Sizes and addresses.                                                    *)

HeaderSpaceFor(n) == n * SizeofMinBlock
BlkSpaceFor(n) == n * MinAllocSize + HeaderSpaceFor(n)

Start(b) == b + SizeofMinBlock
Size(H, b) == H[b].higher - Start(b)
Available(H, b) == H[b].isFree /\ Size(H, b) >= MinAllocSize

AlignDown(a, n) == a - (a % n)
AlignUp(a, n) == AlignDown(a + n - 1, n)

\* Faulty variant: the terminator's address rounded to its own page.
FirstBlockRoundsDown(term) == AlignDown(term, BytesPerPage)

FirstBlock(term) == AlignUp(term, BytesPerPage) - BytesPerAlloc
GetBlock(r) == r.start - SizeofMinBlock
RangeOf(H, b) == [start |-> Start(b), end |-> H[b].higher]

\* The terminator of the chunk a block or terminator lies in.
ChunkOf(H, b) == IF H[b].terminator = NULL THEN b ELSE H[b].terminator

-----------------------------------------------------------------------------
(* Changes to the headers H and to the list of available blocks.           *)

Used(lower, higher, term) ==
  [lower |-> lower, higher |-> higher, terminator |-> term, isFree |-> FALSE]

\* Faulty variant: the lower part keeps its old extent.
SplitKeepsHigher(H, b, n) ==
  [x \in DOMAIN H \cup {n} |->
     CASE x = n           -> Used(b, H[b].higher, H[b].terminator)
       [] x = H[b].higher -> [H[x] EXCEPT !.lower = n]
       [] OTHER           -> H[x]]

\* Cut block b in two: a header for the upper part is written at address n.
Split(H, b, n) ==
  [x \in DOMAIN H \cup {n} |->
     CASE x = n           -> Used(b, H[b].higher, H[b].terminator)
       [] x = b           -> [H[b] EXCEPT !.higher = n]
       [] x = H[b].higher -> [H[x] EXCEPT !.lower = n]
       [] OTHER           -> H[x]]

\* Block b swallows the block above it, whose header is destroyed.
Absorb(H, b) ==
  LET gone == H[b].higher
      next == H[gone].higher
  IN [x \in DOMAIN H \ {gone} |->
        CASE x = b    -> [H[b] EXCEPT !.higher = next]
          [] x = next -> [H[x] EXCEPT !.lower = b]
          [] OTHER    -> H[x]]

SetFree(H, b, v) == [H EXCEPT ![b].isFree = v]

\* addMem: one free block and a terminator fill a new chunk at m.
Terminator(m) == m + BytesPerAlloc - SizeofMinBlock
AddMem(H, m) ==
  [x \in DOMAIN H \cup {m, Terminator(m)} |->
     CASE x = m -> [lower |-> NULL, higher |-> Terminator(m),
                    terminator |-> Terminator(m), isFree |-> TRUE]
       [] x = Terminator(m) -> Used(m, NULL, NULL)
       [] OTHER -> H[x]]

\* Faulty variant: a merged block stays on availblocks.
UnlinkNothing(s, b) == s

Unlink(s, b) == RemoveAt(s, CHOOSE i \in DOMAIN s : s[i] = b)

\* Faulty variant: no merging, and whatever its size the block is listed.
FreedAsIs(h, b) ==
  [hdr |-> SetFree(h.hdr, b, TRUE), avail |-> <<b>> \o h.avail]

\* Faulty variant: the lower neighbour is merged with if there is one.
FreedMergesUsed(h, b) ==
  LET lower == h.hdr[b].lower
      blk   == IF lower # NULL THEN lower ELSE b
      H1    == IF lower # NULL THEN Absorb(h.hdr, lower) ELSE h.hdr
      H2    == SetFree(H1, blk, TRUE)
  IN [hdr   |-> H2,
      avail |-> IF lower = NULL /\ Size(H2, blk) >= MinAllocSize
                  THEN <<blk>> \o h.avail ELSE h.avail]

\* free: merge b with a free lower neighbour, then with a free higher one, and
\* put the result on the list of available blocks unless it is there already.
Freed(h, b) ==
  LET lower     == h.hdr[b].lower
      mergeLow  == lower # NULL /\ h.hdr[lower].isFree
      listed    == mergeLow /\ Size(h.hdr, lower) >= MinAllocSize
      blk       == IF mergeLow THEN lower ELSE b
      H1        == IF mergeLow THEN Absorb(h.hdr, lower) ELSE h.hdr
      higher    == H1[blk].higher
      mergeHigh == H1[higher].isFree
      H2        == IF mergeHigh THEN Absorb(H1, blk) ELSE H1
      H3        == SetFree(H2, blk, TRUE)
      avail     == IF mergeHigh /\ Size(H1, higher) >= MinAllocSize
                     THEN Unlink(h.avail, higher) ELSE h.avail
  IN [hdr   |-> H3,
      avail |-> IF ~listed /\ Size(H3, blk) >= MinAllocSize
                  THEN <<blk>> \o avail ELSE avail]

Heap == [hdr |-> hdr, avail |-> availblocks]
SetHeap(h) == hdr' = h.hdr /\ availblocks' = h.avail

-----------------------------------------------------------------------------
Init ==
  /\ hdr = [b \in {} |-> NULL]
  /\ heapblocks = {}
  /\ availblocks = <<>>
  /\ isExec = {}
  /\ code = [c \in Client |-> <<>>]
  /\ range = [c \in Client |-> {}]
  /\ freeing = NULL
  /\ chunks = {}

\* Faulty variants: the block handed out stays listed; its chunk stays
\* protected.
CarveKeepsListed(h, c, byteLimit) ==
  /\ hdr' = SetFree(h.hdr, Head(h.avail), FALSE)
  /\ availblocks' = h.avail
  /\ isExec' = isExec \ {h.hdr[Head(h.avail)].terminator}
  /\ range' = [range EXCEPT ![c] = @ \cup {RangeOf(h.hdr, Head(h.avail))}]

CarveKeepsExec(h, c, byteLimit) ==
  /\ hdr' = SetFree(h.hdr, Head(h.avail), FALSE)
  /\ availblocks' = Tail(h.avail)
  /\ isExec' = isExec
  /\ range' = [range EXCEPT ![c] = @ \cup {RangeOf(h.hdr, Head(h.avail))}]

\* alloc, once there is an available block: take the first one, make its chunk
\* writable, and split it when a limit is imposed and it is larger.  The upper
\* part is returned; the lower part goes back to the head of the list.
Carve(h, c, byteLimit) ==
  LET b        == Head(h.avail)
      size     == Size(h.hdr, b)
      split    == byteLimit > 0 /\ size > byteLimit
      exactFit == size >= byteLimit + HeaderSpaceFor(1) + BlkSpaceFor(1)
      consume  == IF exactFit THEN byteLimit + HeaderSpaceFor(1)
                              ELSE BlkSpaceFor(1)
      b1       == IF split THEN h.hdr[b].higher - consume ELSE b
      H        == IF split THEN Split(h.hdr, b, b1) ELSE h.hdr
      H1       == SetFree(H, b1, FALSE)
  IN /\ hdr' = H1
     /\ availblocks' = IF split THEN h.avail ELSE Tail(h.avail)
     /\ isExec' = isExec \ {h.hdr[b].terminator}
     /\ range' = [range EXCEPT ![c] = @ \cup {RangeOf(H1, b1)}]

AllocReuse(c, byteLimit) ==
  /\ freeing = NULL
  /\ availblocks # <<>>
  /\ Carve(Heap, c, byteLimit)
  /\ UNCHANGED <<heapblocks, code, freeing, chunks>>

\* alloc with nothing available: addMem first.  allocCodeChunk never fails;
\* ChunkBase bounds how often it is called.
AllocNewChunk(c, byteLimit, m) ==
  /\ freeing = NULL
  /\ availblocks = <<>>
  /\ m \in ChunkBase \ chunks
  /\ chunks' = chunks \cup {m}
  /\ heapblocks' = heapblocks \cup {Terminator(m)}
  /\ Carve([hdr |-> AddMem(hdr, m), avail |-> <<m>>], c, byteLimit)
  /\ UNCHANGED <<code, freeing>>

Free(c, r) ==
  /\ freeing = NULL
  /\ r \in range[c]
  /\ SetHeap(Freed(Heap, GetBlock(r)))
  /\ range' = [range EXCEPT ![c] = @ \ {r}]
  /\ UNCHANGED <<heapblocks, isExec, code, freeing, chunks>>

Add(c, r) ==
  /\ freeing = NULL
  /\ r \in range[c]
  /\ code' = [code EXCEPT ![c] = <<GetBlock(r)>> \o @]
  /\ range' = [range EXCEPT ![c] = @ \ {r}]
  /\ UNCHANGED <<hdr, heapblocks, availblocks, isExec, freeing, chunks>>

\* freeAll(code): a loop, one step for each block; nothing else runs meanwhile.
FreeAll(c) ==
  /\ freeing = NULL
  /\ code[c] # <<>>
  /\ freeing' = c
  /\ UNCHANGED <<hdr, heapblocks, availblocks, isExec, code, range, chunks>>

FreeAllStep(c) ==
  /\ freeing = c
  /\ code[c] # <<>>
  /\ code' = [code EXCEPT ![c] = Tail(@)]
  /\ SetHeap(Freed(Heap, Head(code[c])))
  /\ freeing' = IF Len(code[c]) = 1 THEN NULL ELSE c
  /\ UNCHANGED <<heapblocks, isExec, range, chunks>>

-----------------------------------------------------------------------------
(* addRemainder(code, start, end, holeStart, holeEnd): keep the parts of a *)
(* range before and after a hole on the client's list and free the hole.   *)

\* Faulty variant: no room set aside for the two headers.
MinHoleOneBlock == BlkSpaceFor(1)

MinHole == HeaderSpaceFor(2) + BlkSpaceFor(1)

\* Faulty variant: the hole is rounded outwards, over the code beside it.
HoleRoundsOutward(holeStart, holeEnd) ==
  [from |-> AlignDown(holeStart, PtrSize), to |-> AlignUp(holeEnd, PtrSize)]

\* The aligned hole [from, to) of a range r.
Hole(holeStart, holeEnd) ==
  [from |-> AlignUp(holeStart, PtrSize), to |-> AlignDown(holeEnd, PtrSize)]
BigHole(hole) == hole.to >= MinHole + hole.from

HoleShape(r, hole) ==
  CASE hole.from = r.start -> "left"
    [] hole.from # r.start /\ hole.to = r.end -> "right"
    [] OTHER -> "middle"

\* The hole is too small: keep the whole block.
KeepWhole(c, r) ==
  /\ code' = [code EXCEPT ![c] = <<GetBlock(r)>> \o @]
  /\ UNCHANGED <<hdr, availblocks>>

\* Nothing but hole: free the whole block.
FreeWhole(r) ==
  /\ SetHeap(Freed(Heap, GetBlock(r)))
  /\ UNCHANGED code

\* Faulty variant: the used upper part is freed instead of the hole.
FreeUpperPart(c, r, hole) ==
  LET b2 == hole.to - SizeofMinBlock IN
  /\ SetHeap(Freed([Heap EXCEPT !.hdr = Split(hdr, GetBlock(r), b2)], b2))
  /\ code' = [code EXCEPT ![c] = <<b2>> \o @]

\* The hole is at the start: one new header, for the used upper part.
FreeLowerPart(c, r, hole) ==
  LET b2 == hole.to - SizeofMinBlock IN
  /\ SetHeap(Freed([Heap EXCEPT !.hdr = Split(hdr, GetBlock(r), b2)],
                   GetBlock(r)))
  /\ code' = [code EXCEPT ![c] = <<b2>> \o @]

\* The hole is at the end: not implemented, nothing at all is done.
DropWhole == UNCHANGED <<hdr, availblocks, code>>

\* The hole is in the middle: two new headers.
FreeMiddlePart(c, r, hole) ==
  LET b1 == GetBlock(r)
      b2 == hole.from
      b3 == hole.to - SizeofMinBlock
  IN /\ SetHeap(Freed([Heap EXCEPT !.hdr = Split(Split(hdr, b1, b2), b2, b3)],
                      b2))
     /\ code' = [code EXCEPT ![c] = <<b1, b3>> \o @]

AddRemainder(c, r, holeStart, holeEnd) ==
  LET hole  == Hole(holeStart, holeEnd)
      shape == HoleShape(r, hole)
  IN /\ freeing = NULL
     /\ r \in range[c]
     /\ r.start <= holeStart /\ holeStart <= holeEnd /\ holeEnd <= r.end
     /\ range' = [range EXCEPT ![c] = @ \ {r}]
     /\ UNCHANGED <<heapblocks, isExec, freeing, chunks>>
     /\ \/ ~BigHole(hole) /\ KeepWhole(c, r)
        \/ /\ BigHole(hole)
           /\ shape \in HoleShapes
           /\ \/ shape = "left" /\ hole.to = r.end /\ FreeWhole(r)
              \/ shape = "left" /\ hole.to # r.end /\ FreeLowerPart(c, r, hole)
              \/ shape = "right" /\ DropWhole
              \/ shape = "middle" /\ FreeMiddlePart(c, r, hole)

-----------------------------------------------------------------------------
(* Protection.  markCodeChunkExec and markCodeChunkWrite are the           *)
(* embedder's; a chunk has the protection its terminator's flag says.      *)

MarkExec(c) ==
  /\ freeing = NULL
  /\ isExec' = isExec \cup {hdr[code[c][i]].terminator : i \in DOMAIN code[c]}
  /\ UNCHANGED <<hdr, heapblocks, availblocks, code, range, freeing, chunks>>

MarkAllExec ==
  /\ freeing = NULL
  /\ isExec' = heapblocks
  /\ UNCHANGED <<hdr, heapblocks, availblocks, code, range, freeing, chunks>>

MarkBlockWrite(c, r) ==
  /\ freeing = NULL
  /\ r \in range[c]
  /\ isExec' = isExec \ {hdr[GetBlock(r)].terminator}
  /\ UNCHANGED <<hdr, heapblocks, availblocks, code, range, freeing, chunks>>

\* reset, also run by the destructor: every chunk goes back to the embedder.
\* Its contract is that no client uses its code any more.
Reset ==
  /\ freeing = NULL
  /\ chunks' = chunks \ {FirstBlock(t) : t \in heapblocks}
  /\ hdr' = [b \in {} |-> NULL]
  /\ heapblocks' = {}
  /\ availblocks' = <<>>
  /\ isExec' = {}
  /\ code' = [c \in Client |-> <<>>]
  /\ range' = [c \in Client |-> {}]
  /\ UNCHANGED freeing

Next ==
  \/ \E c \in Client, limit \in ByteLimits : AllocReuse(c, limit)
  \/ \E c \in Client, limit \in ByteLimits, m \in ChunkBase :
       AllocNewChunk(c, limit, m)
  \/ \E c \in Client : \E r \in range[c] :
       \/ Free(c, r)
       \/ Add(c, r)
       \/ MarkBlockWrite(c, r)
       \/ \E from, to \in r.start .. r.end : AddRemainder(c, r, from, to)
  \/ \E c \in Client : FreeAll(c) \/ FreeAllStep(c) \/ MarkExec(c)
  \/ MarkAllExec
  \/ Reset

Spec == Init /\ [][Next]_vars

-----------------------------------------------------------------------------
(* What the allocator's data structure promises.                           *)

Blocks == DOMAIN hdr \ heapblocks
Addr == Nat \cup {NULL}
Header == [lower : Addr, higher : Addr, terminator : Addr, isFree : BOOLEAN]

\* Every field has its type.
TypeOK ==
  /\ DOMAIN hdr \subseteq Nat
  /\ \A b \in DOMAIN hdr : hdr[b] \in Header
  /\ heapblocks \subseteq DOMAIN hdr
  /\ availblocks \in Seq(Blocks)
  /\ isExec \subseteq heapblocks
  /\ code \in [Client -> Seq(Nat)]
  /\ \A c \in Client : range[c] \subseteq [start : Nat, end : Nat]
  /\ DOMAIN range = Client
  /\ freeing \in Client \cup {NULL}
  /\ chunks \subseteq ChunkBase

\* The neighbour links of the blocks of a chunk are inverse to each other, and
\* they end at the chunk's terminator (sanity_check, the ABORT_UNLESSes of
\* alloc and free).
LinkedUp(b) ==
  LET h == hdr[b].higher IN
  /\ h \in DOMAIN hdr
  /\ h > Start(b)
  /\ hdr[h].lower = b
  /\ hdr[b].terminator \in heapblocks
  /\ ChunkOf(hdr, h) = hdr[b].terminator
LinkedDown(b) ==
  hdr[b].lower # NULL => /\ hdr[b].lower \in Blocks
                         /\ hdr[hdr[b].lower].higher = b
Linked ==
  /\ \A b \in Blocks : LinkedUp(b) /\ LinkedDown(b)
  /\ \A t \in heapblocks :
       /\ hdr[t].higher = NULL /\ hdr[t].terminator = NULL /\ ~hdr[t].isFree
       /\ hdr[t].lower # NULL /\ LinkedDown(t)

\* No header lies inside another block: blocks never overlap, whatever was
\* split and merged before.
NoOverlap == \A b \in Blocks, d \in DOMAIN hdr : d > b => d >= hdr[b].higher

\* The walk down from a terminator ends at the first byte of its chunk, so
\* that no part of a chunk drops out of the block list (getStats, reset).
ChunkCovered ==
  \A b \in Blocks : hdr[b].lower = NULL => b = FirstBlock(hdr[b].terminator)

\* The chunks whose terminators are on heapblocks are the chunks obtained from
\* the embedder: none is forgotten, none is given back twice (reset).
ChunksAccounted == chunks = {FirstBlock(t) : t \in heapblocks}

\* The block list is a chain of all the blocks of each chunk, side by side,
\* whatever was split and merged before (sanity_check).
WellFormed == Linked /\ NoOverlap /\ ChunkCovered

\* Free neighbours have always been merged (the asserts after merging in free).
Coalesced ==
  \A b \in Blocks : hdr[b].isFree => ~hdr[hdr[b].higher].isFree

\* A block is on availblocks exactly when it is free and large enough, and it
\* is there once (sanity_check with CROSS_CHECK_FREE_LIST).
AvailExact ==
  /\ ToSet(availblocks) = {b \in Blocks : Available(hdr, b)}
  /\ \A i, j \in DOMAIN availblocks : availblocks[i] = availblocks[j] => i = j

\* The free list says what the block list says: after any order of splits and
\* merges (free, addRemainder) nothing unmerged is on it and nothing is missing.
AvailRight == Coalesced /\ AvailExact

-----------------------------------------------------------------------------
(* What the allocator promises its clients.                                *)

Holds(c, b) ==
  \/ \E r \in range[c] : GetBlock(r) = b
  \/ \E i \in DOMAIN code[c] : code[c][i] = b

\* What a client holds stays a used block with the extent the client was told,
\* whatever the others allocate and free (the asserts of getBlock and free).
HoldingsIntact ==
  \A c \in Client :
    /\ \A r \in range[c] : /\ GetBlock(r) \in Blocks
                           /\ ~hdr[GetBlock(r)].isFree
                           /\ RangeOf(hdr, GetBlock(r)) = r
    /\ \A i \in DOMAIN code[c] : /\ code[c][i] \in Blocks
                                 /\ ~hdr[code[c][i]].isFree

\* No block is held twice: not by two clients, not twice on a list, not as a
\* range and on a list.
OneHolder ==
  /\ \A c, d \in Client : \A b \in Blocks : Holds(c, b) /\ Holds(d, b) => c = d
  /\ \A c \in Client :
       /\ \A i, j \in DOMAIN code[c] : code[c][i] = code[c][j] => i = j
       /\ \A r \in range[c] : \A i \in DOMAIN code[c] :
            code[c][i] # GetBlock(r)

\* What alloc gave to one client and add put on its list stays its own, as the
\* client knows it.
HoldingsSound == HoldingsIntact /\ OneHolder

\* Every used block is held by some client: none is leaked.
NoBlockLost ==
  \A b \in Blocks : hdr[b].isFree \/ \E c \in Client : Holds(c, b)

\* Every range alloc returns has room for the largest instruction sequence the
\* code generator emits without looking (LARGEST_UNDERRUN_PROT).
RangesUsable ==
  \A c \in Client : \A r \in range[c] : r.end - r.start >= MinAllocSize

Bytes(H, b) == Start(b) .. H[b].higher - 1
CodeBytes(H, s) == UNION {Bytes(H, s[i]) : i \in DOMAIN s}

\* addRemainder keeps [start, holeStart) and [holeEnd, end) on the list, and
\* all the code that was on the list.
RemainderKept ==
  [][\A c \in Client : \A r \in range[c] :
       \A from, to \in r.start .. r.end :
         AddRemainder(c, r, from, to) =>
           (r.start .. from - 1) \cup (to .. r.end - 1) \cup
             CodeBytes(hdr, code[c]) \subseteq CodeBytes(hdr', code'[c])]_vars

\* CodeList::next of a block: the block after it on the list it is on.
After(s, b) == {s[i + 1] : i \in {j \in 1 .. Len(s) - 1 : s[j] = b}}
Successor(avail, lists, b) ==
  After(avail, b) \cup UNION {After(lists[c], b) : c \in Client}

\* This step writes to no header in a chunk that is protected against writing.
WritesWritable ==
  \A b \in DOMAIN hdr' :
    \/ ChunkOf(hdr', b) \notin isExec'
    \/ /\ b \in DOMAIN hdr
       /\ hdr'[b] = hdr[b]
       /\ Successor(availblocks', code', b) = Successor(availblocks, code, b)

=============================================================================
