----------------------------- MODULE Allocator ------------------------------
(***************************************************************************)
(* The bump allocator everything but machine code comes from               *)
(* (nanojit/Allocator.h, .cpp).  Memory is counted in words; a chunk       *)
(* starts with a header (prev and size) and the host may put it anywhere.  *)
(* What is allocated is only given back all at once, by reset.             *)
(***************************************************************************)
EXTENDS Integers, Sequences

CONSTANTS
  Places,         \* where the host can put a chunk
  MinChunkWords   \* MIN_CHUNK_SZB

HeaderWords == 2

ASSUME AllocatorAssumption == Places \subseteq Nat /\ MinChunkWords \in Nat

NoChunk == [chunks |-> <<>>, top |-> 0, limit |-> 0]

Extent(base, n) == base .. (base + n - 1)
RoundUp(p, align) == ((p + align - 1) \div align) * align

\* allocChunk: n words that no chunk holds.
HostPlaces(al, n) ==
  {p \in Places : \A c \in DOMAIN al.chunks :
      Extent(p, n) \cap Extent(al.chunks[c].at, al.chunks[c].size) = {}}

Fill(al, n) ==
  LET want == HeaderWords + (IF n < MinChunkWords THEN MinChunkWords ELSE n)
  IN  {[chunks |-> Append(al.chunks, [at |-> p, size |-> want]),
        top |-> p + HeaderWords, limit |-> p + want]
         : p \in HostPlaces(al, want)}

Bump(al, p, n) == [al |-> [al EXCEPT !.top = p + n], at |-> p]

AllocSlow(al, n, align) ==
  {Bump(f, RoundUp(f.top, align), n) : f \in Fill(al, n + align - 1)}

\* alloc: every allocator that may result, with the address returned.
Alloc(al, n, align) ==
  LET p == RoundUp(al.top, align)
  IN  IF p + n <= al.limit THEN {Bump(al, p, n)} ELSE AllocSlow(al, n, align)

Reset(al) == NoChunk

=============================================================================
