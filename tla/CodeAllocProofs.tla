-------------------------- MODULE CodeAllocProofs --------------------------
(***************************************************************************)
(* Theorems about CodeAlloc: its data structure stays well formed and what *)
(* a client holds stays intact, for any chunk size, header size,           *)
(* alignment, set of clients and sequence of calls.                        *)
(*                                                                         *)
(* First lemmas about the operators CodeAlloc is built from: each of them  *)
(* leaves the headers well formed, free neighbours merged and the list of  *)
(* available blocks exact, for any header map, whatever state it came      *)
(* from.  Then the theorems; those at the end say what an operation does to *)
(* the blocks it is not about, how large the free blocks are that it       *)
(* leaves, where it puts headers, and what addRemainder keeps.             *)
(***************************************************************************)
EXTENDS CodeAlloc, SequenceTheorems, TLAPS

-----------------------------------------------------------------------------
(* Well-formedness of a header map H whose terminators are T.              *)

HTyped(H, T) ==
  /\ DOMAIN H \subseteq Nat
  /\ H \in [DOMAIN H -> Header]
  /\ T \subseteq DOMAIN H

HUp(H, T) ==
  \A b \in DOMAIN H \ T :
    /\ H[b].higher \in DOMAIN H
    /\ H[b].higher > Start(b)
    /\ H[H[b].higher].lower = b
    /\ H[b].terminator \in T
    /\ ChunkOf(H, H[b].higher) = H[b].terminator

HDown(H, T) ==
  \A b \in DOMAIN H :
    H[b].lower # NULL => /\ H[b].lower \in DOMAIN H \ T
                         /\ H[H[b].lower].higher = b

HTerm(H, T) ==
  \A t \in T : /\ H[t].higher = NULL /\ H[t].terminator = NULL
               /\ ~H[t].isFree /\ H[t].lower # NULL

HApart(H, T) == \A b \in DOMAIN H \ T, d \in DOMAIN H : d > b => d >= H[b].higher

\* A block lies in the chunk of its terminator; one without a lower neighbour
\* is the first of the chunk.
HWithin(H, T) ==
  \A b \in DOMAIN H \ T :
    /\ b + BytesPerAlloc >= H[b].terminator + SizeofMinBlock
    /\ H[b].higher <= H[b].terminator
    /\ H[b].lower = NULL =>
         b + BytesPerAlloc = H[b].terminator + SizeofMinBlock

HOK(H, T) ==
  /\ HTyped(H, T) /\ HUp(H, T) /\ HDown(H, T) /\ HTerm(H, T)
  /\ HApart(H, T) /\ HWithin(H, T)

\* S is H with block b cut in two at n; n is a block in use.
CutInTwo(S, H, T, b, n) ==
  /\ HOK(S, T)
  /\ DOMAIN S = DOMAIN H \cup {n}
  /\ n \notin DOMAIN H
  /\ S[n].higher = H[b].higher /\ S[n].terminator = H[b].terminator
  /\ S[n].lower = b /\ ~S[n].isFree
  /\ S[b].higher = n
  /\ \A x \in DOMAIN H : /\ S[x].terminator = H[x].terminator
                         /\ S[x].isFree = H[x].isFree
                         /\ x # b => S[x].higher = H[x].higher

\* Writing a header inside a block cuts it in two and leaves the rest alone.
LEMMA SplitOK ==
  ASSUME NEW H, NEW T, HOK(H, T), NEW b \in DOMAIN H \ T, NEW n \in Nat,
         Start(b) < n, Start(n) < H[b].higher,
         NEW S, S = Split(H, b, n)
  PROVE  CutInTwo(S, H, T, b, n)
<1> DEFINE h == H[b].higher
<1> USE NULLAssumption, SizesAssumption
<1>1. /\ b \in Nat /\ h \in Nat /\ h \in DOMAIN H
      /\ n # b /\ n # h /\ h # b /\ n \notin DOMAIN H /\ b < n /\ n < h
  BY DEF HOK, HTyped, HUp, HApart, Start, Header, Addr
<1>2. /\ DOMAIN S = DOMAIN H \cup {n}
      /\ S[n] = Used(b, h, H[b].terminator)
      /\ S[b] = [H[b] EXCEPT !.higher = n]
      /\ S[h] = [H[h] EXCEPT !.lower = n]
      /\ \A x \in DOMAIN H : x # b /\ x # h => S[x] = H[x]
  BY <1>1 DEF Split
<1>3. \A x \in DOMAIN H \ {b, h} : S[x] = H[x]
  BY <1>2
<1>4. /\ S[n] \in Header /\ S[b] \in Header /\ S[h] \in Header
      /\ S[n].lower = b /\ S[n].higher = h
      /\ S[n].terminator = H[b].terminator /\ ~S[n].isFree
      /\ S[b].higher = n /\ S[b].lower = H[b].lower
      /\ S[b].terminator = H[b].terminator /\ S[b].isFree = H[b].isFree
      /\ S[h].lower = n /\ S[h].higher = H[h].higher
      /\ S[h].terminator = H[h].terminator /\ S[h].isFree = H[h].isFree
  <2>1. H[b] \in Header /\ H[h] \in Header
    BY <1>1 DEF HOK, HTyped
  <2>2. b \in Addr /\ n \in Addr /\ h \in Addr /\ H[b].terminator \in Addr
    BY <1>1, <2>1 DEF Addr, Header
  <2>3. Used(b, h, H[b].terminator) \in Header
    BY <2>2 DEF Header, Used
  <2>4. S[b] \in Header /\ S[h] \in Header
    BY <1>2, <2>1, <2>2 DEF Header
  <2> QED
    BY <1>2, <2>1, <2>3, <2>4 DEF Header, Used
<1>5. HTyped(S, T)
  <2>1. \A x \in DOMAIN S : S[x] \in Header
    BY <1>2, <1>3, <1>4 DEF HOK, HTyped
  <2>2. S = [x \in DOMAIN S |-> S[x]]
    BY DEF Split
  <2> QED
    BY <1>1, <1>2, <2>1, <2>2 DEF HOK, HTyped
<1>6. /\ \A x \in DOMAIN H : S[x].terminator = H[x].terminator
                          /\ S[x].isFree = H[x].isFree
      /\ \A x \in DOMAIN H : x # b => S[x].higher = H[x].higher
      /\ \A x \in DOMAIN H : x # h => S[x].lower = H[x].lower
      /\ \A x \in DOMAIN H : ChunkOf(S, x) = ChunkOf(H, x)
  BY <1>3, <1>4 DEF ChunkOf
<1>7. HUp(S, T)
  <2> SUFFICES ASSUME NEW x \in DOMAIN S \ T
               PROVE  /\ S[x].higher \in DOMAIN S
                      /\ S[x].higher > Start(x)
                      /\ S[S[x].higher].lower = x
                      /\ S[x].terminator \in T
                      /\ ChunkOf(S, S[x].higher) = S[x].terminator
    BY DEF HUp
  <2>0. /\ H[b].terminator \in T /\ H[b].terminator # NULL
        /\ ChunkOf(H, h) = H[b].terminator
    BY DEF HOK, HUp, HTyped
  <2>1. CASE x = n
    BY <2>1, <2>0, <1>1, <1>2, <1>4, <1>6, ZenonT(60) DEF Start
  <2>2. CASE x = b
    BY <2>2, <2>0, <1>1, <1>2, <1>4, <1>6 DEF Start, ChunkOf
  <2>3. CASE x # n /\ x # b
    <3>1. x \in DOMAIN H \ T
      BY <2>3, <1>2
    <3>2. S[x].higher = H[x].higher /\ S[x].terminator = H[x].terminator
      BY <2>3, <3>1, <1>6
    <3>3. H[x].higher \in DOMAIN H /\ H[x].higher # h
      BY <2>3, <3>1 DEF HOK, HUp
    <3> QED
      BY <3>1, <3>2, <3>3, <1>2, <1>6 DEF HOK, HUp
  <2> QED
    BY <2>1, <2>2, <2>3
<1>8. HDown(S, T)
  <2> SUFFICES ASSUME NEW x \in DOMAIN S, S[x].lower # NULL
               PROVE  S[x].lower \in DOMAIN S \ T /\ S[S[x].lower].higher = x
    BY DEF HDown
  <2>1. CASE x = n \/ x = h
    BY <2>1, <1>1, <1>2, <1>4, ZenonT(60) DEF HOK, HTyped
  <2>2. CASE x # n /\ x # h
    <3>1. x \in DOMAIN H /\ S[x].lower = H[x].lower
      BY <2>2, <1>2, <1>6
    <3>2. H[x].lower \in DOMAIN H \ T /\ H[H[x].lower].higher = x
      BY <3>1 DEF HOK, HDown
    <3> QED
      BY <3>1, <3>2, <2>2, <1>2, <1>6
  <2> QED
    BY <2>1, <2>2
<1>9. HTerm(S, T)
  BY <1>1, <1>4, <1>6 DEF HOK, HTerm, HTyped
<1>10. HApart(S, T)
  <2> SUFFICES ASSUME NEW x \in DOMAIN S \ T, NEW d \in DOMAIN S, d > x
               PROVE  d >= S[x].higher
    BY DEF HApart
  <2>1. CASE x \notin {n, b} /\ d # n
    BY <2>1, <1>2, <1>6 DEF HOK, HApart
  <2>2. CASE x \notin {n, b} /\ d = n
    <3>1. x \in DOMAIN H \ T /\ S[x].higher = H[x].higher
      BY <2>2, <1>2, <1>6
    <3>2. x \in Nat /\ H[x].higher \in Nat
      BY <3>1 DEF HOK, HTyped, HUp
    <3>3. CASE x > b
      BY <3>1, <3>2, <3>3, <2>2, <1>1 DEF HOK, HApart
    <3>4. CASE x < b
      BY <3>1, <3>2, <3>4, <2>2, <1>1 DEF HOK, HApart
    <3> QED
      BY <3>2, <3>3, <3>4, <2>2, <1>1
  <2>3. CASE x = b
    BY <2>3, <1>1, <1>2, <1>4 DEF HOK, HApart, HTyped
  <2>4. CASE x = n
    BY <2>4, <1>1, <1>2, <1>4 DEF HOK, HApart, HTyped
  <2> QED
    BY <2>1, <2>2, <2>3, <2>4
<1>11. HWithin(S, T)
  <2>1. H[b].terminator \in Nat
    BY DEF HOK, HUp, HTyped
  <2>2. ASSUME NEW x \in DOMAIN S \ T, x # n, x # b
        PROVE  /\ x + BytesPerAlloc >= S[x].terminator + SizeofMinBlock
               /\ S[x].higher <= S[x].terminator
               /\ S[x].lower = NULL =>
                    x + BytesPerAlloc = S[x].terminator + SizeofMinBlock
    <3>1. /\ x \in DOMAIN H \ T /\ S[x].terminator = H[x].terminator
          /\ S[x].higher = H[x].higher
      BY <2>2, <1>2, <1>6
    <3>2. S[x].lower = NULL => H[x].lower = NULL
      BY <3>1, <1>1, <1>4, <1>6
    <3> QED
      BY <3>1, <3>2 DEF HOK, HWithin
  <2>3. /\ n + BytesPerAlloc >= S[n].terminator + SizeofMinBlock
        /\ S[n].higher <= S[n].terminator /\ S[n].lower # NULL
    BY <2>1, <1>1, <1>4 DEF HOK, HWithin
  <2>4. /\ b + BytesPerAlloc >= S[b].terminator + SizeofMinBlock
        /\ S[b].higher <= S[b].terminator
        /\ S[b].lower = NULL =>
             b + BytesPerAlloc = S[b].terminator + SizeofMinBlock
    BY <2>1, <1>1, <1>4 DEF HOK, HWithin
  <2> QED
    BY <2>2, <2>3, <2>4 DEF HWithin
<1>12. HOK(S, T)
  BY <1>5, <1>7, <1>8, <1>9, <1>10, <1>11 DEF HOK
<1> QED
  BY <1>1, <1>2, <1>4, <1>6, <1>12 DEF CutInTwo

\* A is what is left of H when block b has absorbed the one above it.
Absorbed(A, H, T, b) ==
  /\ HOK(A, T)
  /\ DOMAIN A = DOMAIN H \ {H[b].higher}
  /\ H[b].higher # b /\ H[b].higher \in DOMAIN H \ T
  /\ A[b].higher = H[H[b].higher].higher
  /\ A[b].lower = H[b].lower
  /\ \A x \in DOMAIN A : /\ A[x].terminator = H[x].terminator
                         /\ A[x].isFree = H[x].isFree
                         /\ x # b => A[x].higher = H[x].higher

\* Merging a block with its higher neighbour leaves the rest alone.
LEMMA AbsorbOK ==
  ASSUME NEW H, NEW T, HOK(H, T), NEW b \in DOMAIN H \ T, H[b].higher \notin T,
         NEW A, A = Absorb(H, b)
  PROVE  Absorbed(A, H, T, b)
<1> DEFINE gone == H[b].higher
           next == H[gone].higher
<1> USE NULLAssumption, SizesAssumption
<1>0. /\ gone \in DOMAIN H \ T /\ H[gone].lower = b /\ gone > Start(b)
      /\ ChunkOf(H, gone) = H[b].terminator /\ H[b].terminator \in T
      /\ next \in DOMAIN H /\ next > Start(gone) /\ H[next].lower = gone
      /\ ChunkOf(H, next) = H[gone].terminator /\ H[gone].terminator \in T
  BY DEF HOK, HUp
<1>1. /\ b \in Nat /\ gone \in Nat /\ next \in Nat
      /\ b < gone /\ gone < next /\ b \in DOMAIN H
  BY <1>0 DEF HOK, HTyped, Start
<1>2. H[gone].terminator = H[b].terminator
  BY <1>0 DEF ChunkOf, HOK, HTyped
<1>3. /\ DOMAIN A = DOMAIN H \ {gone}
      /\ A[b] = [H[b] EXCEPT !.higher = next]
      /\ A[next] = [H[next] EXCEPT !.lower = b]
      /\ \A x \in DOMAIN H \ {b, gone, next} : A[x] = H[x]
  BY <1>0, <1>1 DEF Absorb
<1>4. /\ A[b] \in Header /\ A[next] \in Header
      /\ A[b].higher = next /\ A[b].lower = H[b].lower
      /\ A[b].terminator = H[b].terminator /\ A[b].isFree = H[b].isFree
      /\ A[next].lower = b /\ A[next].higher = H[next].higher
      /\ A[next].terminator = H[next].terminator
      /\ A[next].isFree = H[next].isFree
  <2>1. H[b] \in Header /\ H[next] \in Header /\ b \in Addr /\ next \in Addr
    BY <1>0, <1>1 DEF HOK, HTyped, Addr
  <2> QED
    BY <1>3, <2>1 DEF Header
<1>5. HTyped(A, T)
  <2>1. \A x \in DOMAIN A : A[x] \in Header
    BY <1>3, <1>4 DEF HOK, HTyped
  <2>2. A = [x \in DOMAIN A |-> A[x]]
    BY DEF Absorb
  <2> QED
    BY <1>0, <1>3, <2>1, <2>2 DEF HOK, HTyped
<1>6. /\ \A x \in DOMAIN A : A[x].terminator = H[x].terminator
                          /\ A[x].isFree = H[x].isFree
      /\ \A x \in DOMAIN A : x # b => A[x].higher = H[x].higher
      /\ \A x \in DOMAIN A : x # next => A[x].lower = H[x].lower
      /\ \A x \in DOMAIN A : ChunkOf(A, x) = ChunkOf(H, x)
  BY <1>3, <1>4, ZenonT(60) DEF ChunkOf
<1>7. HUp(A, T)
  <2> SUFFICES ASSUME NEW x \in DOMAIN A \ T
               PROVE  /\ A[x].higher \in DOMAIN A
                      /\ A[x].higher > Start(x)
                      /\ A[A[x].higher].lower = x
                      /\ A[x].terminator \in T
                      /\ ChunkOf(A, A[x].higher) = A[x].terminator
    BY DEF HUp
  <2>1. CASE x = b
    <3>1. next \in DOMAIN A /\ A[x].higher = next /\ A[next].lower = x
      BY <2>1, <1>0, <1>1, <1>3, <1>4
    <3>2. next > Start(x)
      BY <2>1, <1>0, <1>1 DEF Start
    <3>3. A[x].terminator = H[b].terminator /\ H[b].terminator \in T
      BY <2>1, <1>0, <1>4
    <3>4. ChunkOf(A, next) = H[b].terminator
      BY <3>1, <1>0, <1>2, <1>6
    <3> QED
      BY <3>1, <3>2, <3>3, <3>4
  <2>2. CASE x # b
    <3>1. x \in DOMAIN H \ T /\ A[x].higher = H[x].higher
      BY <2>2, <1>3, <1>6
    <3>2. /\ H[x].higher \in DOMAIN H /\ H[x].higher # gone
          /\ H[x].higher # next
      BY <2>2, <3>1, <1>0, <1>3 DEF HOK, HUp
    <3>3. H[x].higher \in DOMAIN A
      BY <3>2, <1>3
    <3>4. /\ H[x].higher > Start(x) /\ H[H[x].higher].lower = x
          /\ H[x].terminator \in T
          /\ ChunkOf(H, H[x].higher) = H[x].terminator
      BY <3>1 DEF HOK, HUp
    <3>5. A[H[x].higher].lower = x
      BY <3>2, <3>3, <3>4, <1>6
    <3>6. /\ A[x].terminator = H[x].terminator
          /\ ChunkOf(A, H[x].higher) = H[x].terminator
      BY <3>3, <3>4, <1>6
    <3> QED
      BY <3>1, <3>3, <3>4, <3>5, <3>6
  <2> QED
    BY <2>1, <2>2
<1>8. HDown(A, T)
  <2> SUFFICES ASSUME NEW x \in DOMAIN A, A[x].lower # NULL
               PROVE  A[x].lower \in DOMAIN A \ T /\ A[A[x].lower].higher = x
    BY DEF HDown
  <2>1. CASE x = next
    BY <2>1, <1>1, <1>3, <1>4
  <2>2. CASE x # next
    <3>1. x \in DOMAIN H /\ A[x].lower = H[x].lower
      BY <2>2, <1>3, <1>6
    <3>2. H[x].lower \in DOMAIN H \ T /\ H[H[x].lower].higher = x
      BY <3>1 DEF HOK, HDown
    <3>3. H[x].lower # gone /\ H[x].lower # b
      BY <3>2, <2>2, <1>3
    <3> QED
      BY <3>1, <3>2, <3>3, <1>3, <1>6
  <2> QED
    BY <2>1, <2>2
<1>9. HTerm(A, T)
  <2> SUFFICES ASSUME NEW t \in T
               PROVE  /\ A[t].higher = NULL /\ A[t].terminator = NULL
                      /\ ~A[t].isFree /\ A[t].lower # NULL
    BY DEF HTerm
  <2>1. t \in DOMAIN A /\ t # b /\ t \in DOMAIN H
    BY <1>0, <1>3 DEF HOK, HTyped
  <2> QED
    BY <2>1, <1>1, <1>4, <1>6 DEF HOK, HTerm
<1>10. HApart(A, T)
  <2> SUFFICES ASSUME NEW x \in DOMAIN A \ T, NEW d \in DOMAIN A, d > x
               PROVE  d >= A[x].higher
    BY DEF HApart
  <2>1. CASE x = b
    <3>1. d \in Nat /\ d \in DOMAIN H /\ d # gone /\ d >= gone
      BY <2>1, <1>1, <1>3 DEF HOK, HTyped, HApart
    <3> QED
      BY <3>1, <2>1, <1>0, <1>1, <1>4 DEF HOK, HApart
  <2>2. CASE x # b
    BY <2>2, <1>3, <1>6 DEF HOK, HApart
  <2> QED
    BY <2>1, <2>2
<1>11. HWithin(A, T)
  <2> SUFFICES ASSUME NEW x \in DOMAIN A \ T
               PROVE  /\ x + BytesPerAlloc >= A[x].terminator + SizeofMinBlock
                      /\ A[x].higher <= A[x].terminator
                      /\ A[x].lower = NULL =>
                           x + BytesPerAlloc = A[x].terminator + SizeofMinBlock
    BY DEF HWithin
  <2>1. CASE x = b
    BY <2>1, <1>0, <1>2, <1>4 DEF HOK, HWithin
  <2>2. CASE x # b
    <3>1. /\ x \in DOMAIN H \ T /\ A[x].terminator = H[x].terminator
          /\ A[x].higher = H[x].higher
      BY <2>2, <1>3, <1>6
    <3>2. A[x].lower = NULL => H[x].lower = NULL
      BY <3>1, <1>1, <1>3, <1>4, <1>6, ZenonT(60)
    <3> QED
      BY <3>1, <3>2 DEF HOK, HWithin
  <2> QED
    BY <2>1, <2>2
<1>12. HOK(A, T)
  BY <1>5, <1>7, <1>8, <1>9, <1>10, <1>11 DEF HOK
<1> QED
  BY <1>0, <1>1, <1>3, <1>4, <1>6, <1>12 DEF Absorbed

-----------------------------------------------------------------------------
(* Free blocks and the list of available ones.                             *)

InUse(H, T) == {b \in DOMAIN H \ T : ~H[b].isFree}

HCoalesced(H, T) ==
  \A b \in DOMAIN H \ T : H[b].isFree => ~H[H[b].higher].isFree

Distinct(s) == \A i, j \in DOMAIN s : s[i] = s[j] => i = j
Elements(s) == {s[i] : i \in DOMAIN s}

HAvail(H, T, s) ==
  /\ s \in Seq(DOMAIN H \ T)
  /\ Elements(s) = {b \in DOMAIN H \ T : Available(H, b)}
  /\ Distinct(s)

\* A sequence is one over any set that holds its elements.
LEMMA SeqOver ==
  ASSUME NEW S, NEW R, NEW s \in Seq(S), Elements(s) \subseteq R
  PROVE  s \in Seq(R)
<1>1. \A i \in 1 .. Len(s) : s[i] \in R
  BY DEF Elements
<1>2. s = [i \in 1 .. Len(s) |-> s[i]] /\ Len(s) \in Nat
  OBVIOUS
<1> QED
  BY <1>1, <1>2, SeqDef

\* Taking a block off the free list removes it and nothing else.
LEMMA UnlinkOK ==
  ASSUME NEW S, NEW s \in Seq(S), Distinct(s), NEW b \in Elements(s)
  PROVE  /\ Unlink(s, b) \in Seq(S)
         /\ Distinct(Unlink(s, b))
         /\ Elements(Unlink(s, b)) = Elements(s) \ {b}
<1> DEFINE i == CHOOSE k \in DOMAIN s : s[k] = b
           u == Unlink(s, b)
<1>1. i \in 1 .. Len(s) /\ s[i] = b
  BY DEF Elements
<1>2. /\ u \in Seq(S)
      /\ Len(u) = Len(s) - 1
      /\ \A j \in 1 .. Len(s) - 1 : u[j] = IF j < i THEN s[j] ELSE s[j + 1]
  <2> DEFINE lo == SubSeq(s, 1, i - 1)
             hi == SubSeq(s, i + 1, Len(s))
  <2>1. /\ lo \in Seq(S) /\ Len(lo) = i - 1
        /\ \A j \in 1 .. i - 1 : lo[j] = s[j]
    <3>1. \A j \in 1 .. i - 1 : s[j] \in S
      BY <1>1
    <3> QED
      BY <1>1, <3>1, SubSeqProperties
  <2>2. /\ hi \in Seq(S) /\ Len(hi) = Len(s) - i
        /\ \A j \in 1 .. Len(s) - i : hi[j] = s[j + i]
    <3>1. \A j \in i + 1 .. Len(s) : s[j] \in S
      BY <1>1
    <3>2. /\ hi \in Seq(S)
          /\ Len(hi) = IF i + 1 <= Len(s) THEN Len(s) - (i + 1) + 1 ELSE 0
          /\ \A j \in 1 .. Len(s) - (i + 1) + 1 : hi[j] = s[(i + 1) + j - 1]
      BY <1>1, <3>1, SubSeqProperties
    <3> QED
      BY <1>1, <3>2
  <2> HIDE DEF lo, hi
  <2>3. u = lo \o hi
    BY DEF Unlink, RemoveAt, lo, hi
  <2>4. /\ u \in Seq(S)
        /\ Len(u) = Len(lo) + Len(hi)
        /\ \A j \in 1 .. Len(lo) + Len(hi) :
             u[j] = IF j <= Len(lo) THEN lo[j] ELSE hi[j - Len(lo)]
    <3>1. /\ lo \o hi \in Seq(S)
          /\ Len(lo \o hi) = Len(lo) + Len(hi)
          /\ \A j \in 1 .. Len(lo) + Len(hi) :
               (lo \o hi)[j] = IF j <= Len(lo) THEN lo[j] ELSE hi[j - Len(lo)]
      BY <2>1, <2>2, ConcatProperties
    <3> QED
      BY <2>3, <3>1
  <2>5. ASSUME NEW j \in 1 .. Len(s) - 1
        PROVE  u[j] = IF j < i THEN s[j] ELSE s[j + 1]
    <3>1. CASE j < i
      BY <3>1, <1>1, <2>1, <2>2, <2>4, SMTT(30)
    <3>2. CASE j >= i
      <4>1. j - (i - 1) \in 1 .. Len(s) - i
        BY <3>2, <1>1
      <4>2. u[j] = hi[j - (i - 1)]
        BY <3>2, <1>1, <2>1, <2>2, <2>4, SMTT(30)
      <4>3. hi[j - (i - 1)] = s[j + 1]
        <5>1. PICK k \in 1 .. Len(s) - i : k = j - (i - 1)
          BY <4>1
        <5>2. hi[k] = s[k + i]
          BY <2>2
        <5>3. k + i = j + 1
          BY <5>1, <1>1
        <5> QED
          BY <5>1, <5>2, <5>3
      <4> QED
        BY <3>2, <4>2, <4>3, <1>1
    <3> QED
      BY <3>1, <3>2, <1>1
  <2> QED
    BY <1>1, <2>1, <2>2, <2>4, <2>5
<1> HIDE DEF i, u
<1>3. DOMAIN s = 1 .. Len(s) /\ DOMAIN u = 1 .. Len(s) - 1
  BY <1>2
<1>4. Distinct(u)
  <2> SUFFICES ASSUME NEW j \in 1 .. Len(s) - 1, NEW k \in 1 .. Len(s) - 1,
                      u[j] = u[k]
               PROVE  j = k
    BY <1>3 DEF Distinct
  <2> DEFINE from(x) == IF x < i THEN x ELSE x + 1
  <2>1. from(j) \in DOMAIN s /\ from(k) \in DOMAIN s
    BY <1>1, <1>3
  <2>2. s[from(j)] = s[from(k)]
    BY <1>2
  <2>3. from(j) = from(k)
    BY <2>1, <2>2 DEF Distinct
  <2> QED
    BY <1>1, <2>3
<1>5. Elements(u) \subseteq Elements(s) \ {b}
  <2> SUFFICES ASSUME NEW j \in 1 .. Len(s) - 1
               PROVE  u[j] \in Elements(s) /\ u[j] # b
    BY <1>3 DEF Elements
  <2>1. CASE j < i
    <3>1. j \in DOMAIN s /\ j # i /\ u[j] = s[j]
      BY <2>1, <1>1, <1>2, <1>3
    <3> QED
      BY <3>1, <1>1, <1>3 DEF Elements, Distinct
  <2>2. CASE j >= i
    <3>1. j + 1 \in DOMAIN s /\ j + 1 # i /\ u[j] = s[j + 1]
      BY <2>2, <1>1, <1>2, <1>3
    <3> QED
      BY <3>1, <1>1, <1>3 DEF Elements, Distinct
  <2> QED
    BY <2>1, <2>2, <1>1
<1>6. Elements(s) \ {b} \subseteq Elements(u)
  <2> SUFFICES ASSUME NEW k \in DOMAIN s, s[k] # b
               PROVE  \E j \in DOMAIN u : u[j] = s[k]
    BY DEF Elements
  <2>1. CASE k < i
    BY <2>1, <1>1, <1>2, <1>3
  <2>2. CASE k > i
    <3>1. k - 1 \in 1 .. Len(s) - 1 /\ ~(k - 1 < i) /\ (k - 1) + 1 = k
      BY <2>2, <1>1, <1>3
    <3>2. k - 1 \in DOMAIN u /\ u[k - 1] = s[k]
      BY <3>1, <1>2, <1>3
    <3> QED
      BY <3>2
  <2> QED
    BY <2>1, <2>2, <1>1, <1>3
<1> QED
  BY <1>2, <1>4, <1>5, <1>6 DEF u

\* Putting a block in front of a list adds it and nothing else.
LEMMA ConsOK ==
  ASSUME NEW S, NEW s \in Seq(S), Distinct(s), NEW b \in S, b \notin Elements(s)
  PROVE  /\ <<b>> \o s \in Seq(S)
         /\ Distinct(<<b>> \o s)
         /\ Elements(<<b>> \o s) = Elements(s) \cup {b}
<1> DEFINE u == <<b>> \o s
<1>1. /\ u \in Seq(S)
      /\ DOMAIN u = 1 .. Len(s) + 1
      /\ u[1] = b
      /\ \A i \in 2 .. Len(s) + 1 : u[i] = s[i - 1]
      /\ DOMAIN s = 1 .. Len(s)
  OBVIOUS
<1>2. Elements(u) = Elements(s) \cup {b}
  <2>1. \A i \in DOMAIN s : u[i + 1] = s[i] /\ i + 1 \in DOMAIN u
    BY <1>1
  <2>2. \A i \in DOMAIN u : u[i] \in Elements(s) \cup {b}
    BY <1>1 DEF Elements
  <2>3. 1 \in DOMAIN u
    BY <1>1
  <2>4. Elements(s) \subseteq Elements(u)
    BY <2>1 DEF Elements
  <2>5. b \in Elements(u)
    BY <2>3, <1>1 DEF Elements
  <2>6. Elements(u) \subseteq Elements(s) \cup {b}
    BY <2>2 DEF Elements
  <2> QED
    BY <2>4, <2>5, <2>6
<1>3. Distinct(u)
  <2>1. \A i \in 2 .. Len(s) + 1 : u[i] \in Elements(s) /\ u[i] # b
    BY <1>1 DEF Elements
  <2>2. \A i, j \in 2 .. Len(s) + 1 : u[i] = u[j] => i = j
    BY <1>1 DEF Distinct
  <2> QED
    BY <1>1, <2>1, <2>2 DEF Distinct
<1> QED
  BY <1>1, <1>2, <1>3
\* Setting the isFree flag of a block leaves the headers well formed.
FreeSet(F, H, T, b, v) ==
  /\ HOK(F, T)
  /\ DOMAIN F = DOMAIN H
  /\ F[b].isFree = v
  /\ \A x \in DOMAIN H : /\ F[x].higher = H[x].higher
                         /\ F[x].lower = H[x].lower
                         /\ F[x].terminator = H[x].terminator
                         /\ x # b => F[x].isFree = H[x].isFree

\* Setting isFree of a block changes neither the tiling nor the links.
LEMMA SetFreeOK ==
  ASSUME NEW H, NEW T, HOK(H, T), NEW b \in DOMAIN H \ T, NEW v \in BOOLEAN,
         NEW F, F = SetFree(H, b, v)
  PROVE  FreeSet(F, H, T, b, v)
<1> USE NULLAssumption, SizesAssumption
<1>1. /\ DOMAIN F = DOMAIN H
      /\ F[b] = [H[b] EXCEPT !.isFree = v]
      /\ \A x \in DOMAIN H : x # b => F[x] = H[x]
  BY DEF SetFree
<1>2. \A x \in DOMAIN H : H[x] \in Header
  BY DEF HOK, HTyped
<1>3. F[b] \in Header /\ F[b].isFree = v /\ F[b].higher = H[b].higher
      /\ F[b].lower = H[b].lower /\ F[b].terminator = H[b].terminator
  BY <1>1, <1>2 DEF Header
<1>4. \A x \in DOMAIN H : /\ F[x].higher = H[x].higher
                          /\ F[x].lower = H[x].lower
                          /\ F[x].terminator = H[x].terminator
                          /\ ChunkOf(F, x) = ChunkOf(H, x)
                          /\ x # b => F[x].isFree = H[x].isFree
  BY <1>1, <1>3 DEF ChunkOf
<1>5. HTyped(F, T)
  BY <1>1, <1>2, <1>3 DEF HOK, HTyped, SetFree
<1>6. HUp(F, T)
  <2> SUFFICES ASSUME NEW x \in DOMAIN H \ T
               PROVE  /\ F[x].higher \in DOMAIN H
                      /\ F[x].higher > Start(x)
                      /\ F[F[x].higher].lower = x
                      /\ F[x].terminator \in T
                      /\ ChunkOf(F, F[x].higher) = F[x].terminator
    BY <1>1 DEF HUp
  <2>1. /\ H[x].higher \in DOMAIN H
        /\ H[x].higher > Start(x)
        /\ H[H[x].higher].lower = x
        /\ H[x].terminator \in T
        /\ ChunkOf(H, H[x].higher) = H[x].terminator
    BY DEF HOK, HUp
  <2> QED
    BY <2>1, <1>4
<1>7. HDown(F, T)
  BY <1>1, <1>4 DEF HOK, HDown
<1>8. HTerm(F, T)
  BY <1>1, <1>4 DEF HOK, HTerm, HTyped
<1>9. HApart(F, T) /\ HWithin(F, T)
  BY <1>1, <1>4 DEF HOK, HApart, HWithin
<1>10. HOK(F, T)
  BY <1>5, <1>6, <1>7, <1>8, <1>9 DEF HOK
<1> QED
  BY <1>1, <1>3, <1>4, <1>10 DEF FreeSet

\* free keeps the headers and the list of available blocks in order, and the
\* other blocks in use keep their place, their size and their chunk.
LEMMA FreedOK ==
  ASSUME NEW H, NEW T, NEW s, HOK(H, T), HCoalesced(H, T), HAvail(H, T, s),
         NEW b \in InUse(H, T), NEW r, r = Freed([hdr |-> H, avail |-> s], b)
  PROVE  /\ HOK(r.hdr, T)
         /\ HCoalesced(r.hdr, T)
         /\ HAvail(r.hdr, T, r.avail)
         /\ InUse(r.hdr, T) = InUse(H, T) \ {b}
         /\ \A x \in InUse(H, T) \ {b} :
              /\ r.hdr[x].higher = H[x].higher
              /\ r.hdr[x].terminator = H[x].terminator
<1> DEFINE lower     == H[b].lower
           mergeLow  == lower # NULL /\ H[lower].isFree
           listed    == mergeLow /\ Size(H, lower) >= MinAllocSize
           blk       == IF mergeLow THEN lower ELSE b
           H1        == IF mergeLow THEN Absorb(H, lower) ELSE H
           higher    == H1[blk].higher
           mergeHigh == H1[higher].isFree
           H2        == IF mergeHigh THEN Absorb(H1, blk) ELSE H1
           H3        == SetFree(H2, blk, TRUE)
           avail     == IF mergeHigh /\ Size(H1, higher) >= MinAllocSize
                          THEN Unlink(s, higher) ELSE s
           avail2    == IF ~listed /\ Size(H3, blk) >= MinAllocSize
                          THEN <<blk>> \o avail ELSE avail
<1> USE NULLAssumption, SizesAssumption
<1>1. b \in DOMAIN H \ T /\ ~H[b].isFree
  BY SMTT(30) DEF InUse
\* The merge with the lower neighbour.
<1>2. /\ HOK(H1, T)
      /\ blk \in DOMAIN H1 \ T
      /\ DOMAIN H1 \subseteq DOMAIN H
      /\ DOMAIN H1 \ {blk} = DOMAIN H \ {b, blk}
      /\ \A x \in DOMAIN H1 : /\ H1[x].isFree = H[x].isFree
                              /\ H1[x].terminator = H[x].terminator
                              /\ x # blk => H1[x].higher = H[x].higher
      /\ H1[blk].lower # NULL => ~H1[H1[blk].lower].isFree
      /\ blk # b => H[blk].isFree
      /\ mergeLow => H1[lower].higher = H[b].higher
  <2>1. CASE mergeLow
    <3>1. lower \in DOMAIN H \ T /\ H[lower].higher = b
      BY <2>1, <1>1 DEF HOK, HDown
    <3>2. /\ HOK(H1, T)
          /\ DOMAIN H1 = DOMAIN H \ {b}
          /\ b # lower
          /\ H1[lower].lower = H[lower].lower
          /\ H1[lower].higher = H[b].higher
          /\ \A x \in DOMAIN H1 : /\ H1[x].terminator = H[x].terminator
                                  /\ H1[x].isFree = H[x].isFree
                                  /\ x # lower => H1[x].higher = H[x].higher
      <4>1. H1 = Absorb(H, lower) /\ H[lower].higher \notin T
        BY <2>1, <3>1, <1>1
      <4>2. Absorbed(H1, H, T, lower)
        BY <3>1, <4>1, AbsorbOK, SMTT(30)
      <4> QED
        BY <3>1, <4>2 DEF Absorbed
    <3>3. ASSUME H1[lower].lower # NULL
          PROVE  ~H1[H1[lower].lower].isFree
      <4>1. H[lower].lower \in DOMAIN H \ T /\ H[H[lower].lower].higher = lower
        BY <3>1, <3>2, <3>3 DEF HOK, HDown
      <4>2. ~H[H[lower].lower].isFree
        BY <4>1, <2>1 DEF HCoalesced
      <4>3. H[lower].lower # b
        BY <4>1, <3>1, <1>1 DEF HOK, HUp, HTyped, Start
      <4> QED
        BY <4>1, <4>2, <4>3, <3>2, SMTT(30)
    <3> QED
      BY <2>1, <3>1, <3>2, <3>3
  <2>2. CASE ~mergeLow
    BY <2>2, <1>1
  <2> QED
    BY <2>1, <2>2
<1>3. /\ \A x \in DOMAIN H1 \ T : x # blk => (Available(H1, x) <=> Available(H, x))
      /\ Elements(s) \ {blk} = {x \in DOMAIN H1 \ T : x # blk /\ Available(H1, x)}
      /\ b \notin Elements(s)
      /\ blk \in Elements(s) <=> listed
  <2>1. \A x \in DOMAIN H1 \ T : x # blk => (Available(H1, x) <=> Available(H, x))
    BY <1>2, ZenonT(60) DEF Available, Size
  <2>2. b \notin Elements(s)
    BY <1>1 DEF HAvail, Available
  <2>3. Elements(s) \ {blk} = {x \in DOMAIN H1 \ T : x # blk /\ Available(H1, x)}
    BY <2>1, <2>2, <1>2 DEF HAvail
  <2>4. blk \in Elements(s) <=> listed
    <3>1. CASE mergeLow
      <4>1. lower \in DOMAIN H \ T
        BY <3>1, <1>1 DEF HOK, HDown
      <4> QED
        BY <4>1, <3>1 DEF HAvail, Available
    <3>2. CASE ~mergeLow
      BY <3>2, <2>2
    <3> QED
      BY <3>1, <3>2
  <2> QED
    BY <2>1, <2>2, <2>3, <2>4, SMTT(30)
<1>4. H1[blk].higher \in Nat /\ (listed => H1[blk].higher - Start(blk) >= MinAllocSize)
  <2>1. blk \in Nat /\ H1[blk].higher \in Nat
    BY <1>2, ZenonT(60) DEF HOK, HTyped, HUp
  <2>2. CASE mergeLow
    <3>1. /\ lower \in DOMAIN H \ T /\ H[lower].higher = b /\ b \notin T
          /\ blk = lower /\ H1 = Absorb(H, lower)
      BY <2>2, <1>1 DEF HOK, HDown
    <3>2. H1[lower].higher = H[b].higher
      BY <2>2, <1>2
    <3>3. H[b].higher > b /\ b \in Nat /\ H[b].higher \in Nat /\ lower \in Nat
      BY <1>1, <3>1 DEF HOK, HUp, HTyped, Start
    <3> QED
      BY <2>1, <2>2, <3>1, <3>2, <3>3 DEF Size, Start
  <2>3. CASE ~mergeLow
    BY <2>1, <2>3
  <2> QED
    BY <2>2, <2>3, SMTT(30)
<1> HIDE DEF H1, blk, listed
\* The merge with the higher neighbour.
<1>5. /\ HOK(H2, T)
      /\ blk \in DOMAIN H2 \ T
      /\ DOMAIN H2 = IF mergeHigh THEN DOMAIN H1 \ {higher} ELSE DOMAIN H1
      /\ higher \in DOMAIN H1 /\ higher # blk /\ (mergeHigh => higher \notin T)
      /\ H2[blk].lower = H1[blk].lower
      /\ H2[blk].higher \in Nat /\ H2[blk].higher >= H1[blk].higher
      /\ ~H2[H2[blk].higher].isFree
      /\ \A x \in DOMAIN H2 : /\ H2[x].isFree = H1[x].isFree
                              /\ H2[x].terminator = H1[x].terminator
                              /\ x # blk => H2[x].higher = H1[x].higher
  <2>1. higher \in DOMAIN H1 /\ higher # blk
    BY <1>2 DEF HOK, HUp, HTyped, Start
  <2>2. CASE mergeHigh
    <3>1. higher \in DOMAIN H1 \ T /\ H2 = Absorb(H1, blk)
      BY <2>1, <2>2, <1>2 DEF HOK, HTerm
    <3>2. /\ HOK(H2, T)
          /\ DOMAIN H2 = DOMAIN H1 \ {higher}
          /\ H2[blk].higher = H1[higher].higher
          /\ H2[blk].lower = H1[blk].lower
          /\ \A x \in DOMAIN H2 : /\ H2[x].terminator = H1[x].terminator
                                  /\ H2[x].isFree = H1[x].isFree
                                  /\ x # blk => H2[x].higher = H1[x].higher
      <4>1. Absorbed(H2, H1, T, blk)
        BY <3>1, <1>2, AbsorbOK
      <4> QED
        BY <4>1 DEF Absorbed
    <3>3. /\ H2[blk].higher \in Nat /\ H2[blk].higher >= H1[blk].higher
          /\ H2[blk].higher \in DOMAIN H1 /\ H2[blk].higher \in DOMAIN H2
      BY <3>1, <3>2, <2>1, <1>2 DEF HOK, HUp, HTyped, Start
    <3>4. ~H1[H2[blk].higher].isFree
      <4>1. higher \in DOMAIN H \ T /\ H[higher].isFree
        BY <3>1, <2>2, <1>2
      <4>2. H1[higher].higher = H[higher].higher
        BY <3>1, <2>1, <1>2
      <4> QED
        BY <4>1, <4>2, <3>2, <3>3, <1>2 DEF HCoalesced
    <3> QED
      BY <2>1, <2>2, <3>1, <3>2, <3>3, <3>4, <1>2
  <2>3. CASE ~mergeHigh
    BY <2>1, <2>3, <1>2, <1>4
  <2> QED
    BY <2>2, <2>3
<1>6. /\ avail \in Seq(DOMAIN H \ T)
      /\ Distinct(avail)
      /\ blk \in Elements(avail) <=> listed
      /\ Elements(avail) \ {blk} =
           {x \in DOMAIN H2 \ T : x # blk /\ Available(H2, x)}
  <2>1. s \in Seq(DOMAIN H \ T) /\ Distinct(s)
    BY DEF HAvail
  <2>2. \A x \in DOMAIN H2 \ T : x # blk => (Available(H2, x) <=> Available(H1, x))
    BY <1>5 DEF Available, Size
  <2>3. CASE mergeHigh /\ Size(H1, higher) >= MinAllocSize
    <3>1. higher \in Elements(s)
      BY <2>3, <1>3, <1>5 DEF Available
    <3>2. /\ avail \in Seq(DOMAIN H \ T) /\ Distinct(avail)
          /\ Elements(avail) = Elements(s) \ {higher}
      BY <2>1, <2>3, <3>1, UnlinkOK
    <3> HIDE DEF H2, avail
    <3> QED
      BY <2>2, <2>3, <3>2, <1>3, <1>5
  <2>4. CASE ~(mergeHigh /\ Size(H1, higher) >= MinAllocSize)
    <3>1. avail = s
      BY <2>4
    <3>2. mergeHigh => ~Available(H1, higher)
      BY <2>4 DEF Available
    <3> HIDE DEF H2, avail
    <3> QED
      BY <2>1, <2>2, <3>1, <3>2, <1>3, <1>5
  <2> QED
    BY <2>3, <2>4
<1> HIDE DEF H2, avail
<1>7. /\ HOK(H3, T)
      /\ DOMAIN H3 = DOMAIN H2
      /\ H3[blk].isFree
      /\ \A x \in DOMAIN H2 : /\ H3[x].higher = H2[x].higher
                              /\ H3[x].lower = H2[x].lower
                              /\ H3[x].terminator = H2[x].terminator
                              /\ x # blk => H3[x].isFree = H2[x].isFree
  <2>1. FreeSet(H3, H2, T, blk, TRUE)
    BY <1>5, SetFreeOK
  <2> QED
    BY <2>1 DEF FreeSet
<1> HIDE DEF H3
<1>8. HCoalesced(H3, T)
  <2> SUFFICES ASSUME NEW x \in DOMAIN H3 \ T, H3[x].isFree
               PROVE  ~H3[H3[x].higher].isFree
    BY DEF HCoalesced
  <2>1. H3[x].higher \in DOMAIN H3 /\ H3[H3[x].higher].lower = x /\ x # H3[x].higher
    BY <1>7 DEF HOK, HUp, HTyped, Start
  <2>2. CASE x = blk
    BY <2>1, <2>2, <1>5, <1>7
  <2>3. CASE x # blk
    <3>1. /\ x \in DOMAIN H1 /\ H1[x].isFree
          /\ H3[x].higher = H1[x].higher
      BY <2>3, <1>5, <1>7
    <3>2. x \in DOMAIN H /\ H[x].isFree /\ H3[x].higher = H[x].higher
      BY <3>1, <2>3, <1>2
    <3>3. ~H[H3[x].higher].isFree
      BY <3>2 DEF HCoalesced
    <3>4. H3[x].higher \in DOMAIN H2 /\ H3[x].higher \in DOMAIN H1
      BY <2>1, <1>5, <1>7
    <3>5. H3[x].higher # blk
      <4> SUFFICES ASSUME H3[x].higher = blk PROVE FALSE
        OBVIOUS
      <4>1. H1[blk].lower = x
        BY <2>1, <1>5, <1>7
      <4> QED
        BY <4>1, <3>1, <3>4, <1>2, <1>7 DEF HOK, HTyped
    <3> QED
      BY <3>3, <3>4, <3>5, <1>2, <1>5, <1>7
  <2> QED
    BY <2>2, <2>3
<1>9. HAvail(H3, T, avail2)
  <2>1. \A x \in DOMAIN H3 \ T : x # blk => (Available(H3, x) <=> Available(H2, x))
    BY <1>7 DEF Available, Size
  <2>2. Available(H3, blk) <=> Size(H3, blk) >= MinAllocSize
    BY <1>7 DEF Available
  <2>3. listed => Size(H3, blk) >= MinAllocSize
    BY <1>2, <1>4, <1>5, <1>7 DEF Size, Start, HOK, HTyped
  <2>4. avail2 \in Seq(DOMAIN H \ T) /\ Distinct(avail2)
        /\ Elements(avail2) = {x \in DOMAIN H3 \ T : Available(H3, x)}
    <3>1. blk \in DOMAIN H \ T /\ blk \in DOMAIN H3 \ T
      BY <1>2, <1>5, <1>7
    <3>2. CASE ~listed /\ Size(H3, blk) >= MinAllocSize
      <4>1. avail2 = <<blk>> \o avail
        BY <3>2
      <4>2. /\ <<blk>> \o avail \in Seq(DOMAIN H \ T)
            /\ Distinct(<<blk>> \o avail)
            /\ Elements(<<blk>> \o avail) = Elements(avail) \cup {blk}
        BY <3>1, <3>2, <1>6, ConsOK
      <4> HIDE DEF avail2
      <4> QED
        BY <4>1, <4>2, <3>1, <3>2, <2>1, <2>2, <1>6, <1>7
    <3>3. CASE ~(~listed /\ Size(H3, blk) >= MinAllocSize)
      <4>1. avail2 = avail
        BY <3>3
      <4> HIDE DEF avail2
      <4> QED
        BY <4>1, <3>1, <3>3, <2>1, <2>2, <2>3, <1>6, <1>7
    <3> QED
      BY <3>2, <3>3
  <2> HIDE DEF avail2
  <2> QED
    BY <2>4, SeqOver DEF HAvail
<1>10. /\ InUse(H3, T) = InUse(H, T) \ {b}
       /\ \A x \in InUse(H, T) \ {b} : /\ H3[x].higher = H[x].higher
                                       /\ H3[x].terminator = H[x].terminator
  <2>1. ASSUME NEW x \in InUse(H3, T)
        PROVE  x \in InUse(H, T) \ {b}
    BY <1>2, <1>5, <1>7 DEF InUse
  <2>2. ASSUME NEW x \in InUse(H, T) \ {b}
        PROVE  /\ x \in InUse(H3, T)
               /\ H3[x].higher = H[x].higher /\ H3[x].terminator = H[x].terminator
    <3>1. x \in DOMAIN H1 \ T /\ x # blk /\ ~H1[x].isFree
      BY <1>2 DEF InUse
    <3>2. x \in DOMAIN H2
      BY <3>1, <1>5, SMTT(30)
    <3> QED
      BY <3>1, <3>2, <1>2, <1>5, <1>7 DEF InUse
  <2> QED
    BY <2>1, <2>2
<1>11. r.hdr = H3 /\ r.avail = avail2
  BY DEF Freed, H3, H2, H1, avail, blk, listed
<1> HIDE DEF avail2
<1> QED
  BY <1>7, <1>8, <1>9, <1>10, <1>11

\* Cutting a block in use leaves the free blocks alone and makes one more
\* block in use.
LEMMA SplitUsedOK ==
  ASSUME NEW H, NEW T, NEW s, HOK(H, T), HCoalesced(H, T), HAvail(H, T, s),
         NEW b \in InUse(H, T), NEW n, NEW S, CutInTwo(S, H, T, b, n)
  PROVE  /\ HCoalesced(S, T) /\ HAvail(S, T, s)
         /\ InUse(S, T) = InUse(H, T) \cup {n}
<1> USE DEF CutInTwo
<1>1. b \in DOMAIN H \ T /\ ~H[b].isFree /\ T \subseteq DOMAIN H
  BY DEF InUse, HOK, HTyped
<1>2. InUse(S, T) = InUse(H, T) \cup {n}
  BY <1>1 DEF InUse
<1>3. HCoalesced(S, T)
  <2> SUFFICES ASSUME NEW x \in DOMAIN S \ T, S[x].isFree
               PROVE  ~S[S[x].higher].isFree
    BY DEF HCoalesced
  <2>1. x \in DOMAIN H \ T /\ H[x].isFree /\ x # b /\ S[x].higher = H[x].higher
    BY <1>1
  <2>2. H[x].higher \in DOMAIN H /\ ~H[H[x].higher].isFree
    BY <2>1 DEF HOK, HUp, HCoalesced
  <2> QED
    BY <2>1, <2>2
<1>4. HAvail(S, T, s)
  <2>1. \A x \in DOMAIN H \ T : Available(S, x) <=> Available(H, x)
    BY <1>1 DEF Available, Size
  <2>2. {x \in DOMAIN S \ T : Available(S, x)}
          = {x \in DOMAIN H \ T : Available(H, x)}
    BY <2>1 DEF Available
  <2>3. Elements(s) \subseteq DOMAIN S \ T
    BY <2>2 DEF HAvail
  <2> QED
    BY <2>2, <2>3, SeqOver DEF HAvail
<1> QED
  BY <1>2, <1>3, <1>4

\* Cutting a free block so that the lower part is still large enough.
LEMMA SplitFreeOK ==
  ASSUME NEW H, NEW T, NEW s, HOK(H, T), HCoalesced(H, T), HAvail(H, T, s),
         NEW b \in DOMAIN H \ T, Available(H, b), NEW n, n - Start(b) >= MinAllocSize,
         NEW S, CutInTwo(S, H, T, b, n)
  PROVE  /\ HCoalesced(S, T) /\ HAvail(S, T, s)
         /\ InUse(S, T) = InUse(H, T) \cup {n}
<1> USE DEF CutInTwo
<1>1. H[b].isFree /\ T \subseteq DOMAIN H
  BY DEF Available, HOK, HTyped
<1>2. InUse(S, T) = InUse(H, T) \cup {n}
  BY <1>1 DEF InUse
<1>3. HCoalesced(S, T)
  <2> SUFFICES ASSUME NEW x \in DOMAIN S \ T, S[x].isFree
               PROVE  ~S[S[x].higher].isFree
    BY DEF HCoalesced
  <2>1. CASE x = b
    BY <2>1
  <2>2. CASE x # b
    <3>1. x \in DOMAIN H \ T /\ H[x].isFree /\ S[x].higher = H[x].higher
      BY <2>2
    <3>2. H[x].higher \in DOMAIN H /\ ~H[H[x].higher].isFree
      BY <3>1 DEF HOK, HUp, HCoalesced
    <3> QED
      BY <3>1, <3>2
  <2> QED
    BY <2>1, <2>2
<1>4. HAvail(S, T, s)
  <2>1. \A x \in DOMAIN H \ T : Available(S, x) <=> Available(H, x)
    BY <1>1 DEF Available, Size
  <2>2. {x \in DOMAIN S \ T : Available(S, x)}
          = {x \in DOMAIN H \ T : Available(H, x)}
    BY <2>1 DEF Available
  <2>3. Elements(s) \subseteq DOMAIN S \ T
    BY <2>2 DEF HAvail
  <2> QED
    BY <2>2, <2>3, SeqOver DEF HAvail
<1> QED
  BY <1>2, <1>3, <1>4

\* freeAll's step takes the first block off the list and no other.
LEMMA TailOK ==
  ASSUME NEW S, NEW s \in Seq(S), s # <<>>, Distinct(s)
  PROVE  /\ Tail(s) \in Seq(S)
         /\ Distinct(Tail(s))
         /\ Head(s) \in Elements(s)
         /\ Elements(Tail(s)) = Elements(s) \ {Head(s)}
<1> DEFINE t == Tail(s)
<1>1. /\ t \in Seq(S) /\ Len(s) \in Nat \ {0} /\ DOMAIN s = 1 .. Len(s)
      /\ DOMAIN t = 1 .. Len(s) - 1
      /\ \A i \in 1 .. Len(s) - 1 : t[i] = s[i + 1]
      /\ Head(s) = s[1]
  OBVIOUS
<1> HIDE DEF t
<1>2. Distinct(t)
  <2> SUFFICES ASSUME NEW i \in DOMAIN t, NEW j \in DOMAIN t, t[i] = t[j]
               PROVE  i = j
    BY DEF Distinct
  <2>1. i + 1 \in DOMAIN s /\ j + 1 \in DOMAIN s /\ s[i + 1] = s[j + 1]
    BY <1>1
  <2>2. i + 1 = j + 1
    BY <2>1 DEF Distinct
  <2> QED
    BY <2>2, <1>1
<1>3. Elements(t) \subseteq Elements(s) \ {Head(s)}
  <2> SUFFICES ASSUME NEW i \in DOMAIN t
               PROVE  t[i] \in Elements(s) /\ t[i] # s[1]
    BY <1>1 DEF Elements
  <2>1. i + 1 \in DOMAIN s /\ 1 \in DOMAIN s /\ i + 1 # 1 /\ t[i] = s[i + 1]
    BY <1>1
  <2> QED
    BY <2>1 DEF Elements, Distinct
<1>4. Elements(s) \ {Head(s)} \subseteq Elements(t)
  <2> SUFFICES ASSUME NEW i \in DOMAIN s, s[i] # s[1]
               PROVE  \E j \in DOMAIN t : t[j] = s[i]
    BY <1>1 DEF Elements
  <2>1. i - 1 \in DOMAIN t /\ t[i - 1] = s[i]
    BY <1>1
  <2> QED
    BY <2>1
<1>5. Head(s) \in Elements(s)
  BY <1>1 DEF Elements
<1> QED
  BY <1>1, <1>2, <1>3, <1>4, <1>5 DEF t

\* Taking the first available block.
LEMMA TakeOK ==
  ASSUME NEW H, NEW T, NEW s, HOK(H, T), HCoalesced(H, T), HAvail(H, T, s),
         s # <<>>, NEW F, FreeSet(F, H, T, Head(s), FALSE)
  PROVE  /\ HCoalesced(F, T) /\ HAvail(F, T, Tail(s))
         /\ InUse(F, T) = InUse(H, T) \cup {Head(s)}
<1> DEFINE b == Head(s)
<1> USE DEF FreeSet
<1>1. /\ Tail(s) \in Seq(DOMAIN H \ T) /\ Distinct(Tail(s))
      /\ b \in Elements(s) /\ Elements(Tail(s)) = Elements(s) \ {b}
  BY TailOK DEF HAvail
<1>2. b \in DOMAIN H \ T /\ Available(H, b) /\ H[b].isFree
  BY <1>1 DEF HAvail, Available
<1> HIDE DEF b
<1>3. InUse(F, T) = InUse(H, T) \cup {b}
  BY <1>2 DEF InUse, b
<1>4. HCoalesced(F, T)
  <2> SUFFICES ASSUME NEW x \in DOMAIN F \ T, F[x].isFree
               PROVE  ~F[F[x].higher].isFree
    BY DEF HCoalesced
  <2>1. x \in DOMAIN H \ T /\ H[x].isFree /\ F[x].higher = H[x].higher
    BY <1>2 DEF b
  <2>2. H[x].higher \in DOMAIN H /\ ~H[H[x].higher].isFree
    BY <2>1 DEF HOK, HUp, HCoalesced
  <2> QED
    BY <2>1, <2>2, <1>2 DEF b
<1>5. {x \in DOMAIN F \ T : Available(F, x)}
        = {x \in DOMAIN H \ T : Available(H, x)} \ {b}
  <2>1. \A x \in DOMAIN H \ T : x # b => (Available(F, x) <=> Available(H, x))
    BY DEF Available, Size, b
  <2>2. ~Available(F, b)
    BY DEF Available, b
  <2> QED
    BY <2>1, <2>2
<1> QED
  BY <1>1, <1>3, <1>4, <1>5 DEF HAvail, b

-----------------------------------------------------------------------------
(* New chunks.                                                             *)

Inside(x, m) == m <= x /\ x < m + BytesPerAlloc

\* The terminators T are those of the chunks C.
Placed(T, C) == C \subseteq ChunkBase /\ T = {Terminator(m) : m \in C}

\* Every block lies in one chunk, from its header to its end.
LEMMA InsideOK ==
  ASSUME NEW H, NEW T, NEW C, HOK(H, T), Placed(T, C), NEW x \in DOMAIN H
  PROVE  \E m \in C : /\ Inside(x, m)
                      /\ x \notin T => Inside(H[x].higher, m)
<1> USE SizesAssumption, ChunkAssumption
<1>1. \A t \in T : \E m \in C : m \in Nat /\ t = Terminator(m)
  BY DEF Placed
<1>2. CASE x \in T
  <2>1. PICK m \in C : m \in Nat /\ x = Terminator(m)
    BY <1>1, <1>2
  <2> QED
    BY <2>1, <1>2 DEF Inside, Terminator
<1>3. CASE x \notin T
  <2>1. H[x].terminator \in T
    BY <1>3 DEF HOK, HUp
  <2>2. PICK m \in C : m \in Nat /\ H[x].terminator = Terminator(m)
    BY <2>1, <1>1
  <2>3. /\ x + BytesPerAlloc >= Terminator(m) + SizeofMinBlock
        /\ H[x].higher <= Terminator(m) /\ H[x].higher > Start(x)
        /\ x \in Nat /\ H[x].higher \in Nat
    BY <2>2, <1>3 DEF HOK, HWithin, HUp, HTyped
  <2> QED
    BY <2>2, <2>3 DEF Inside, Terminator, Start
<1> QED
  BY <1>2, <1>3

\* A is H with a chunk at m added to it.
Grown(A, U, H, T, C, m) ==
  /\ HOK(A, U) /\ HCoalesced(A, U) /\ HAvail(A, U, <<m>>)
  /\ Placed(U, C \cup {m})
  /\ InUse(A, U) = InUse(H, T)
  /\ \A x \in DOMAIN H : A[x] = H[x]

\* addMem adds one free block to the heap and leaves the others alone.
LEMMA AddMemOK ==
  ASSUME NEW H, NEW T, NEW C, HOK(H, T), HCoalesced(H, T), HAvail(H, T, <<>>),
         Placed(T, C), NEW m \in ChunkBase \ C, NEW A, A = AddMem(H, m),
         NEW U, U = T \cup {Terminator(m)}
  PROVE  Grown(A, U, H, T, C, m)
<1> DEFINE t == Terminator(m)
<1> U = T \cup {t}
  OBVIOUS
<1> USE NULLAssumption, SizesAssumption
<1>1. m \in Nat /\ t \in Nat /\ m + SizeofMinBlock + MinAllocSize <= t /\ m < t
      /\ m + BytesPerAlloc = t + SizeofMinBlock
  BY ChunkAssumption DEF Terminator
<1> HIDE DEF t
<1>2. \A x \in DOMAIN H : /\ x < m \/ x > t
                          /\ x \notin T /\ x < m => H[x].higher < m
  <2> TAKE x \in DOMAIN H
  <2>1. PICK k \in C : Inside(x, k) /\ (x \notin T => Inside(H[x].higher, k))
    BY InsideOK
  <2>2. k \in Nat /\ k # m /\ (k + BytesPerAlloc <= m \/ m + BytesPerAlloc <= k)
    BY ChunkAssumption DEF Placed
  <2>3. x \in Nat /\ (x \notin T => H[x].higher \in Nat)
    BY DEF HOK, HTyped, HUp
  <2> QED
    BY <2>1, <2>2, <2>3, <1>1 DEF Inside
<1>3. m \notin DOMAIN H /\ t \notin DOMAIN H /\ m # t /\ T \subseteq DOMAIN H
  BY <1>1, <1>2, SMTT(30) DEF HOK, HTyped
<1>4. /\ DOMAIN A = DOMAIN H \cup {m, t}
      /\ A[m] = [lower |-> NULL, higher |-> t, terminator |-> t, isFree |-> TRUE]
      /\ A[t] = Used(m, NULL, NULL)
      /\ \A x \in DOMAIN H : A[x] = H[x]
  BY <1>1, <1>3 DEF AddMem, t
<1>5. /\ A[m].lower = NULL /\ A[m].higher = t /\ A[m].terminator = t /\ A[m].isFree
      /\ A[t].lower = m /\ A[t].higher = NULL /\ A[t].terminator = NULL
      /\ ~A[t].isFree /\ A[m] \in Header /\ A[t] \in Header
  BY <1>1, <1>4 DEF Header, Addr, Used
<1>6. HTyped(A, U)
  <2>1. \A x \in DOMAIN A : A[x] \in Header
    BY <1>4, <1>5 DEF HOK, HTyped
  <2>2. A = [x \in DOMAIN A |-> A[x]]
    BY DEF AddMem
  <2> QED
    BY <1>1, <1>3, <1>4, <2>1, <2>2 DEF HOK, HTyped
<1>7. HUp(A, U)
  <2> SUFFICES ASSUME NEW x \in DOMAIN A \ U
               PROVE  /\ A[x].higher \in DOMAIN A /\ A[x].higher > Start(x)
                      /\ A[A[x].higher].lower = x /\ A[x].terminator \in U
                      /\ ChunkOf(A, A[x].higher) = A[x].terminator
    BY DEF HUp
  <2>1. CASE x = m
    BY <2>1, <1>1, <1>4, <1>5 DEF Start, ChunkOf
  <2>2. CASE x # m
    <3>1. x \in DOMAIN H \ T
      BY <2>2, <1>4
    <3>2. /\ H[x].higher \in DOMAIN H /\ H[x].higher > Start(x)
          /\ H[H[x].higher].lower = x /\ H[x].terminator \in T
          /\ ChunkOf(H, H[x].higher) = H[x].terminator
      BY <3>1 DEF HOK, HUp
    <3> QED
      BY <3>1, <3>2, <1>4 DEF ChunkOf
  <2> QED
    BY <2>1, <2>2
<1>8. HDown(A, U)
  <2> SUFFICES ASSUME NEW x \in DOMAIN A, A[x].lower # NULL
               PROVE  A[x].lower \in DOMAIN A \ U /\ A[A[x].lower].higher = x
    BY DEF HDown
  <2>1. CASE x \in {m, t}
    BY <2>1, <1>3, <1>4, <1>5
  <2>2. CASE x \notin {m, t}
    <3>1. x \in DOMAIN H /\ A[x] = H[x]
      BY <2>2, <1>4
    <3>2. H[x].lower \in DOMAIN H \ T /\ H[H[x].lower].higher = x
      BY <3>1 DEF HOK, HDown
    <3> QED
      BY <3>1, <3>2, <1>3, <1>4
  <2> QED
    BY <2>1, <2>2
<1>9. HTerm(A, U)
  <2> SUFFICES ASSUME NEW x \in U
               PROVE  /\ A[x].higher = NULL /\ A[x].terminator = NULL
                      /\ ~A[x].isFree /\ A[x].lower # NULL
    BY DEF HTerm
  <2>1. CASE x = t
    BY <2>1, <1>1, <1>5
  <2>2. CASE x \in T
    BY <2>2, <1>3, <1>4 DEF HOK, HTerm
  <2> QED
    BY <2>1, <2>2
<1>10. HApart(A, U)
  <2> SUFFICES ASSUME NEW x \in DOMAIN A \ U, NEW d \in DOMAIN A, d > x
               PROVE  d >= A[x].higher
    BY DEF HApart
  <2>1. CASE x = m
    <3>1. A[x].higher = t /\ d \in Nat
      BY <2>1, <1>1, <1>4, <1>5 DEF HOK, HTyped
    <3>2. d = t \/ d > t
      BY <2>1, <3>1, <1>1, <1>2, <1>4, SMTT(30)
    <3> QED
      BY <3>1, <3>2, <1>1
  <2>2. CASE x # m
    <3>1. x \in DOMAIN H \ T /\ A[x].higher = H[x].higher /\ x \in Nat
          /\ H[x].higher \in Nat
      BY <2>2, <1>4 DEF HOK, HTyped, HUp
    <3>2. CASE d \in DOMAIN H
      BY <3>1, <3>2 DEF HOK, HApart
    <3>3. CASE d \in {m, t}
      BY <3>1, <3>3, <1>1, <1>2, SMTT(30)
    <3> QED
      BY <3>2, <3>3, <1>4
  <2> QED
    BY <2>1, <2>2
<1>11. HWithin(A, U)
  <2> SUFFICES ASSUME NEW x \in DOMAIN A \ U
               PROVE  /\ x + BytesPerAlloc >= A[x].terminator + SizeofMinBlock
                      /\ A[x].higher <= A[x].terminator
                      /\ A[x].lower = NULL =>
                           x + BytesPerAlloc = A[x].terminator + SizeofMinBlock
    BY DEF HWithin
  <2>1. CASE x = m
    BY <2>1, <1>1, <1>5
  <2>2. CASE x # m
    BY <2>2, <1>4 DEF HOK, HWithin
  <2> QED
    BY <2>1, <2>2
<1>12. HOK(A, U)
  BY <1>6, <1>7, <1>8, <1>9, <1>10, <1>11 DEF HOK
<1>13. HCoalesced(A, U)
  <2> SUFFICES ASSUME NEW x \in DOMAIN A \ U, A[x].isFree
               PROVE  ~A[A[x].higher].isFree
    BY DEF HCoalesced
  <2>1. CASE x = m
    BY <2>1, <1>5
  <2>2. CASE x # m
    <3>1. x \in DOMAIN H \ T /\ A[x] = H[x] /\ H[x].higher \in DOMAIN H
      BY <2>2, <1>4 DEF HOK, HUp
    <3> QED
      BY <3>1, <1>4 DEF HCoalesced
  <2> QED
    BY <2>1, <2>2
<1>14. HAvail(A, U, <<m>>)
  <2>1. Available(A, m)
    BY <1>1, <1>5 DEF Available, Size, Start
  <2>2. \A x \in DOMAIN H \ T : ~Available(H, x)
    BY DEF HAvail, Elements
  <2>3. \A x \in DOMAIN A \ U : Available(A, x) <=> x = m
    BY <2>1, <2>2, <1>4 DEF Available, Size
  <2>4. m \in DOMAIN A \ U
    BY <1>3, <1>4
  <2>5. Elements(<<m>>) = {m} /\ Distinct(<<m>>)
    BY DEF Elements, Distinct
  <2>6. {x \in DOMAIN A \ U : Available(A, x)} = {m}
    BY <2>3, <2>4
  <2>7. <<m>> \in Seq(DOMAIN A \ U)
    BY <2>4
  <2> QED
    BY <2>5, <2>6, <2>7 DEF HAvail
<1>15. InUse(A, U) = InUse(H, T)
  BY <1>3, <1>4, <1>5 DEF InUse
<1>16. Placed(U, C \cup {m})
  BY DEF Placed, t
<1> QED
  BY <1>4, <1>12, <1>13, <1>14, <1>15, <1>16 DEF Grown

-----------------------------------------------------------------------------
(* Arithmetic of addresses.                                                *)

\* Division with remainder.
LEMMA DivMod ==
  ASSUME NEW a \in Int, NEW n \in Nat \ {0}
  PROVE  /\ a \div n \in Int /\ a % n \in 0 .. n - 1
         /\ a = n * (a \div n) + (a % n)
<1>1. a \div n \in Int /\ a % n \in Int
  OBVIOUS
<1>2. a % n >= 0
  OBVIOUS
<1>3. a % n < n
  OBVIOUS
<1>4. a = n * (a \div n) + (a % n)
  OBVIOUS
<1> QED
  BY <1>1, <1>2, <1>3, <1>4

\* The remainder is determined by its range.
LEMMA ModUnique ==
  ASSUME NEW n \in Nat \ {0}, NEW q \in Int, NEW r \in 0 .. n - 1
  PROVE  (n * q + r) % n = r
<1> DEFINE a == n * q + r
           p == a \div n
           s == a % n
<1>1. a \in Int /\ p \in Int /\ s \in 0 .. n - 1 /\ a = n * p + s
  BY DivMod
<1> HIDE DEF p, s
<1>2. n * (p - q) = r - s
  BY <1>1
<1>3. ~(p > q)
  <2> SUFFICES ASSUME p > q PROVE FALSE
    OBVIOUS
  <2>1. n * (p - q) >= n
    BY <1>1
  <2> QED
    BY <2>1, <1>1, <1>2
<1>4. ~(p < q)
  <2> SUFFICES ASSUME p < q PROVE FALSE
    OBVIOUS
  <2>1. n * (p - q) <= -n
    BY <1>1
  <2> QED
    BY <2>1, <1>1, <1>2
<1> QED
  BY <1>1, <1>2, <1>3, <1>4 DEF s

\* alignUp and the mask of addRemainder move an address up and down.
LEMMA AlignOK ==
  ASSUME NEW a \in Nat, NEW n \in Nat \ {0}
  PROVE  /\ AlignUp(a, n) \in Nat /\ AlignUp(a, n) >= a
         /\ AlignDown(a, n) \in Int /\ AlignDown(a, n) <= a
<1>1. (a + n - 1) % n \in 0 .. n - 1 /\ a % n \in 0 .. n - 1
  BY DivMod
<1> QED
  BY <1>1 DEF AlignUp, AlignDown

\* The last header of a chunk leads firstBlock back to the chunk's first byte.
LEMMA FirstBlockOK ==
  ASSUME NEW m \in ChunkBase
  PROVE  FirstBlock(Terminator(m)) = m
<1> USE SizesAssumption
<1> DEFINE n == BytesPerPage
           t == Terminator(m)
           q == m \div n + BytesPerAlloc \div n
           r == n - 1 - SizeofMinBlock
<1>1. m \in Nat /\ m % n = 0
  BY ChunkAssumption
<1>2. m = n * (m \div n) /\ m \div n \in Int
  BY <1>1, DivMod
<1>3. BytesPerAlloc = n * (BytesPerAlloc \div n) /\ BytesPerAlloc \div n \in Int
  BY DivMod
<1>4. m + BytesPerAlloc = n * q /\ q \in Int
  BY <1>2, <1>3
<1>5. t + n - 1 = n * q + r /\ r \in 0 .. n - 1
  BY <1>1, <1>4 DEF Terminator
<1>6. (t + n - 1) % n = r
  BY <1>4, <1>5, ModUnique, SMTT(30)
<1> HIDE DEF q
<1> QED
  BY <1>1, <1>4, <1>5, <1>6 DEF FirstBlock, AlignUp, AlignDown

-----------------------------------------------------------------------------
(* What the clients hold: the ranges R and the lists C.                    *)

Owned(R, C, c) == {GetBlock(r) : r \in R[c]} \cup Elements(C[c])
AllOwned(R, C) == UNION {Owned(R, C, c) : c \in Client}

HoldingTyped(R, C) ==
  /\ R \in [Client -> SUBSET [start : Nat, end : Nat]]
  /\ C \in [Client -> Seq(Nat)]

RangesRight(H, T, R) ==
  \A c \in Client : \A r \in R[c] :
    /\ GetBlock(r) \in InUse(H, T)
    /\ H[GetBlock(r)].higher = r.end
    /\ r.end - r.start >= MinAllocSize

ListsRight(H, T, C) ==
  \A c \in Client : Elements(C[c]) \subseteq InUse(H, T) /\ Distinct(C[c])

OwnedOnce(R, C) ==
  /\ \A c \in Client : \A r \in R[c] : GetBlock(r) \notin Elements(C[c])
  /\ \A c, d \in Client : c # d => Owned(R, C, c) \cap Owned(R, C, d) = {}

Holding(H, T, R, C) ==
  /\ HoldingTyped(R, C) /\ RangesRight(H, T, R) /\ ListsRight(H, T, C)
  /\ OwnedOnce(R, C)

\* What clients hold are used blocks of the heap.
LEMMA OwnedInUse ==
  ASSUME NEW H, NEW T, NEW R, NEW C, Holding(H, T, R, C)
  PROVE  AllOwned(R, C) \subseteq InUse(H, T)
BY DEF Holding, RangesRight, ListsRight, AllOwned, Owned

\* A change to the headers that leaves what is owned in use and in its place.
LEMMA HoldKeep ==
  ASSUME NEW H, NEW T, NEW R, NEW C, Holding(H, T, R, C),
         NEW J, NEW U, AllOwned(R, C) \subseteq InUse(J, U),
         \A x \in AllOwned(R, C) : J[x].higher = H[x].higher
  PROVE  Holding(J, U, R, C)
<1>1. \A c \in Client : Owned(R, C, c) \subseteq AllOwned(R, C)
  BY DEF AllOwned
<1>2. RangesRight(J, U, R)
  <2> SUFFICES ASSUME NEW c \in Client, NEW r \in R[c]
               PROVE  /\ GetBlock(r) \in InUse(J, U)
                      /\ J[GetBlock(r)].higher = r.end
                      /\ r.end - r.start >= MinAllocSize
    BY DEF RangesRight
  <2>1. GetBlock(r) \in AllOwned(R, C)
    BY <1>1 DEF Owned
  <2> QED
    BY <2>1 DEF Holding, RangesRight
<1>3. ListsRight(J, U, C)
  BY <1>1 DEF Holding, ListsRight, Owned
<1> QED
  BY <1>2, <1>3 DEF Holding

\* A client gives up a range: nobody owns its block any more.
Lost(H, T, R, C, Q, b) ==
  /\ Holding(H, T, Q, C)
  /\ AllOwned(Q, C) = AllOwned(R, C) \ {b}

\* A client that gives up a range loses its block and nothing else.
LEMMA HoldDrop ==
  ASSUME NEW H, NEW T, NEW R, NEW C, Holding(H, T, R, C),
         NEW c \in Client, NEW r \in R[c],
         NEW Q, Q = [R EXCEPT ![c] = @ \ {r}]
  PROVE  Lost(H, T, R, C, Q, GetBlock(r))
<1> USE SizesAssumption
<1>1. /\ HoldingTyped(R, C) /\ RangesRight(H, T, R) /\ ListsRight(H, T, C)
      /\ OwnedOnce(R, C)
  BY DEF Holding
<1>2. /\ Q[c] = R[c] \ {r}
      /\ \A d \in Client : d # c => Q[d] = R[d]
      /\ \A d \in Client : Q[d] \subseteq R[d]
      /\ Q \in [Client -> SUBSET [start : Nat, end : Nat]]
  BY <1>1 DEF HoldingTyped
<1>3. \A q \in R[c] : GetBlock(q) = GetBlock(r) => q = r
  <2> SUFFICES ASSUME NEW q \in R[c], GetBlock(q) = GetBlock(r)
               PROVE  q = r
    OBVIOUS
  <2>1. q \in [start : Nat, end : Nat] /\ r \in [start : Nat, end : Nat]
    BY <1>1 DEF HoldingTyped
  <2>2. q.start = r.start
    BY <2>1 DEF GetBlock
  <2>3. q.end = r.end
    BY <1>1 DEF RangesRight
  <2> QED
    BY <2>1, <2>2, <2>3
<1>4. GetBlock(r) \notin Elements(C[c])
  BY <1>1 DEF OwnedOnce
<1>5. Owned(Q, C, c) = Owned(R, C, c) \ {GetBlock(r)}
  BY <1>2, <1>3, <1>4 DEF Owned
<1>6. \A d \in Client : d # c => Owned(Q, C, d) = Owned(R, C, d)
  BY <1>2 DEF Owned
<1>7. GetBlock(r) \in Owned(R, C, c)
  BY DEF Owned
<1>8. \A d \in Client : d # c => GetBlock(r) \notin Owned(R, C, d)
  BY <1>1, <1>7 DEF OwnedOnce
<1>9. OwnedOnce(Q, C)
  <2>1. \A d \in Client : Owned(Q, C, d) \subseteq Owned(R, C, d)
    BY <1>5, <1>6
  <2> QED
    BY <2>1, <1>1, <1>2 DEF OwnedOnce
<1>10. RangesRight(H, T, Q) /\ HoldingTyped(Q, C)
  BY <1>1, <1>2 DEF RangesRight, HoldingTyped
<1>11. AllOwned(Q, C) = AllOwned(R, C) \ {GetBlock(r)}
  BY <1>5, <1>6, <1>7, <1>8, ZenonT(60) DEF AllOwned
<1> QED
  BY <1>1, <1>9, <1>10, <1>11 DEF Holding, Lost

\* A client is given a block nobody owns, as a range.
Gained(H, T, R, C, Q, b) ==
  /\ Holding(H, T, Q, C)
  /\ AllOwned(Q, C) = AllOwned(R, C) \cup {b}

\* A used block no one holds can be given to a client as a range.
LEMMA HoldRange ==
  ASSUME NEW H, NEW T, NEW R, NEW C, Holding(H, T, R, C),
         NEW c \in Client, NEW b \in InUse(H, T), b \notin AllOwned(R, C),
         b \in Nat, H[b].higher \in Nat, Size(H, b) >= MinAllocSize,
         NEW Q, Q = [R EXCEPT ![c] = @ \cup {RangeOf(H, b)}]
  PROVE  Gained(H, T, R, C, Q, b)
<1> DEFINE r == RangeOf(H, b)
<1> USE SizesAssumption
<1>1. /\ HoldingTyped(R, C) /\ RangesRight(H, T, R) /\ ListsRight(H, T, C)
      /\ OwnedOnce(R, C)
  BY DEF Holding
<1>2. /\ r \in [start : Nat, end : Nat] /\ GetBlock(r) = b /\ r.end = H[b].higher
      /\ r.end - r.start >= MinAllocSize
  BY DEF RangeOf, GetBlock, Start, Size
<1> HIDE DEF r
<1>3. /\ Q[c] = R[c] \cup {r}
      /\ \A d \in Client : d # c => Q[d] = R[d]
      /\ Q \in [Client -> SUBSET [start : Nat, end : Nat]]
  BY <1>1, <1>2 DEF HoldingTyped, r
<1>4. \A d \in Client : b \notin Owned(R, C, d)
  BY DEF AllOwned
<1>5. Owned(Q, C, c) = Owned(R, C, c) \cup {b}
  BY <1>2, <1>3 DEF Owned
<1>6. \A d \in Client : d # c => Owned(Q, C, d) = Owned(R, C, d)
  BY <1>3 DEF Owned
<1>7. OwnedOnce(Q, C)
  <2>1. \A d \in Client : \A q \in Q[d] : GetBlock(q) \notin Elements(C[d])
    <3> TAKE d \in Client
    <3> TAKE q \in Q[d]
    <3>1. CASE d = c /\ q = r
      BY <3>1, <1>2, <1>4 DEF Owned
    <3>2. CASE ~(d = c /\ q = r)
      <4>1. q \in R[d]
        BY <3>2, <1>3
      <4> QED
        BY <4>1, <1>1 DEF OwnedOnce
    <3> QED
      BY <3>1, <3>2
  <2>2. \A d, e \in Client : d # e => Owned(Q, C, d) \cap Owned(Q, C, e) = {}
    <3> SUFFICES ASSUME NEW d \in Client, NEW e \in Client, d # e
                 PROVE  Owned(Q, C, d) \cap Owned(Q, C, e) = {}
      OBVIOUS
    <3>1. Owned(R, C, d) \cap Owned(R, C, e) = {}
      BY <1>1 DEF OwnedOnce
    <3>2. b \notin Owned(R, C, d) /\ b \notin Owned(R, C, e)
      BY <1>4
    <3>3. \A f \in Client : \A x \in Owned(Q, C, f) : x \in Owned(R, C, f) \/ (f = c /\ x = b)
      BY <1>5, <1>6
    <3> QED
      BY <3>1, <3>2, <3>3
  <2> QED
    BY <2>1, <2>2 DEF OwnedOnce
<1>8. RangesRight(H, T, Q)
  <2> SUFFICES ASSUME NEW d \in Client, NEW q \in Q[d]
               PROVE  /\ GetBlock(q) \in InUse(H, T)
                      /\ H[GetBlock(q)].higher = q.end
                      /\ q.end - q.start >= MinAllocSize
    BY DEF RangesRight
  <2>1. CASE d = c /\ q = r
    BY <2>1, <1>2
  <2>2. CASE ~(d = c /\ q = r)
    BY <2>2, <1>1, <1>3 DEF RangesRight
  <2> QED
    BY <2>1, <2>2
<1>9. AllOwned(Q, C) = AllOwned(R, C) \cup {b}
  BY <1>5, <1>6 DEF AllOwned
<1> QED
  BY <1>1, <1>3, <1>7, <1>8, <1>9 DEF Holding, HoldingTyped, Gained

\* A client puts a block nobody owns at the head of its list.
Listed(H, T, R, C, D, b) ==
  /\ Holding(H, T, R, D)
  /\ AllOwned(R, D) = AllOwned(R, C) \cup {b}

\* A used block no one holds can be put on a client's list.
LEMMA HoldCons ==
  ASSUME NEW H, NEW T, NEW R, NEW C, Holding(H, T, R, C),
         NEW c \in Client, NEW b \in InUse(H, T), b \notin AllOwned(R, C), b \in Nat,
         NEW D, D = [C EXCEPT ![c] = <<b>> \o @]
  PROVE  Listed(H, T, R, C, D, b)
<1>1. /\ HoldingTyped(R, C) /\ RangesRight(H, T, R) /\ ListsRight(H, T, C)
      /\ OwnedOnce(R, C)
  BY DEF Holding
<1>2. \A d \in Client : b \notin Owned(R, C, d)
  BY DEF AllOwned
<1>3. /\ C[c] \in Seq(Nat) /\ Distinct(C[c]) /\ b \notin Elements(C[c])
  BY <1>1, <1>2 DEF HoldingTyped, ListsRight, Owned
<1>4. /\ <<b>> \o C[c] \in Seq(Nat) /\ Distinct(<<b>> \o C[c])
      /\ Elements(<<b>> \o C[c]) = Elements(C[c]) \cup {b}
  BY <1>3, ConsOK
<1>5. /\ D[c] = <<b>> \o C[c]
      /\ \A d \in Client : d # c => D[d] = C[d]
      /\ D \in [Client -> Seq(Nat)]
  BY <1>1, <1>4 DEF HoldingTyped
<1>6. Owned(R, D, c) = Owned(R, C, c) \cup {b}
  BY <1>4, <1>5 DEF Owned
<1>7. \A d \in Client : d # c => Owned(R, D, d) = Owned(R, C, d)
  BY <1>5 DEF Owned
<1>8. OwnedOnce(R, D)
  <2>1. \A d \in Client : \A q \in R[d] : GetBlock(q) \notin Elements(D[d])
    <3> TAKE d \in Client
    <3> TAKE q \in R[d]
    <3>1. GetBlock(q) # b
      BY <1>2 DEF Owned
    <3>2. GetBlock(q) \notin Elements(C[d])
      BY <1>1 DEF OwnedOnce
    <3> QED
      BY <3>1, <3>2, <1>4, <1>5
  <2>2. \A d, e \in Client : d # e => Owned(R, D, d) \cap Owned(R, D, e) = {}
    <3> SUFFICES ASSUME NEW d \in Client, NEW e \in Client, d # e
                 PROVE  Owned(R, D, d) \cap Owned(R, D, e) = {}
      OBVIOUS
    <3>1. Owned(R, C, d) \cap Owned(R, C, e) = {}
      BY <1>1 DEF OwnedOnce
    <3>2. b \notin Owned(R, C, d) /\ b \notin Owned(R, C, e)
      BY <1>2
    <3> QED
      BY <3>1, <3>2, <1>6, <1>7
  <2> QED
    BY <2>1, <2>2 DEF OwnedOnce
<1>9. ListsRight(H, T, D)
  BY <1>1, <1>4, <1>5 DEF ListsRight
<1>10. AllOwned(R, D) = AllOwned(R, C) \cup {b}
  BY <1>6, <1>7 DEF AllOwned
<1> QED
  BY <1>1, <1>5, <1>8, <1>9, <1>10 DEF Holding, HoldingTyped, Listed

\* A client takes the first block off its list.
Unlisted(H, T, R, C, D, b) ==
  /\ Holding(H, T, R, D)
  /\ AllOwned(R, D) = AllOwned(R, C) \ {b}
  /\ b \in InUse(H, T)

\* The block freeAll takes off a list is no longer held by anyone.
LEMMA HoldTail ==
  ASSUME NEW H, NEW T, NEW R, NEW C, Holding(H, T, R, C),
         NEW c \in Client, C[c] # <<>>,
         NEW D, D = [C EXCEPT ![c] = Tail(@)]
  PROVE  Unlisted(H, T, R, C, D, Head(C[c]))
<1> DEFINE b == Head(C[c])
<1>1. /\ HoldingTyped(R, C) /\ RangesRight(H, T, R) /\ ListsRight(H, T, C)
      /\ OwnedOnce(R, C)
  BY DEF Holding
<1>2. C[c] \in Seq(Nat) /\ Distinct(C[c])
  BY <1>1 DEF HoldingTyped, ListsRight
<1>3. /\ Tail(C[c]) \in Seq(Nat) /\ Distinct(Tail(C[c])) /\ b \in Elements(C[c])
      /\ Elements(Tail(C[c])) = Elements(C[c]) \ {b}
  BY <1>2, TailOK
<1> HIDE DEF b
<1>4. /\ D[c] = Tail(C[c])
      /\ \A d \in Client : d # c => D[d] = C[d]
      /\ D \in [Client -> Seq(Nat)]
  BY <1>1, <1>3 DEF HoldingTyped
<1>5. \A r \in R[c] : GetBlock(r) # b
  BY <1>1, <1>3 DEF OwnedOnce
<1>6. Owned(R, D, c) = Owned(R, C, c) \ {b}
  BY <1>3, <1>4, <1>5 DEF Owned
<1>7. \A d \in Client : d # c => Owned(R, D, d) = Owned(R, C, d)
  BY <1>4 DEF Owned
<1>8. b \in Owned(R, C, c) /\ b \in InUse(H, T)
  BY <1>1, <1>3 DEF Owned, ListsRight
<1>9. \A d \in Client : d # c => b \notin Owned(R, C, d)
  BY <1>1, <1>8 DEF OwnedOnce
<1>10. OwnedOnce(R, D)
  <2>1. \A d \in Client : Owned(R, D, d) \subseteq Owned(R, C, d)
    BY <1>6, <1>7
  <2>2. \A d \in Client : Elements(D[d]) \subseteq Elements(C[d])
    BY <1>3, <1>4
  <2> QED
    BY <2>1, <2>2, <1>1 DEF OwnedOnce
<1>11. ListsRight(H, T, D)
  BY <1>1, <1>3, <1>4 DEF ListsRight
<1>12. AllOwned(R, D) = AllOwned(R, C) \ {b}
  BY <1>6, <1>7, <1>9 DEF AllOwned
<1> QED
  BY <1>1, <1>4, <1>8, <1>10, <1>11, <1>12 DEF Holding, HoldingTyped, Unlisted, b

-----------------------------------------------------------------------------
(* alloc.                                                                  *)

HeapOK(H, T, s) == HOK(H, T) /\ HCoalesced(H, T) /\ HAvail(H, T, s)

\* Clearing the flag of a block in use changes nothing.
LEMMA SetFreeSame ==
  ASSUME NEW H, NEW T, HOK(H, T), NEW b \in DOMAIN H \ T, ~H[b].isFree,
         NEW F, F = SetFree(H, b, FALSE)
  PROVE  F = H
<1>1. H[b] \in Header /\ H \in [DOMAIN H -> Header]
  BY DEF HOK, HTyped
<1>2. [H[b] EXCEPT !.isFree = FALSE] = H[b]
  BY <1>1 DEF Header
<1>3. F = [H EXCEPT ![b] = [H[b] EXCEPT !.isFree = FALSE]]
  BY DEF SetFree
<1> QED
  BY <1>1, <1>2, <1>3

\* What alloc returns: one block that was not in use, of at least the minimal
\* size.
Carved(J, a, H, T, s, b1) ==
  /\ HeapOK(J, T, a)
  /\ b1 \notin InUse(H, T)
  /\ InUse(J, T) = InUse(H, T) \cup {b1}
  /\ Size(J, b1) >= MinAllocSize
  /\ \A x \in InUse(H, T) : J[x].higher = H[x].higher

\* Whether it is split or not, the block alloc takes from the free list is a
\* used block that no one held, and large enough.
LEMMA CarveOK ==
  ASSUME NEW H, NEW T, NEW s, HeapOK(H, T, s), s # <<>>,
         NEW c \in Client, NEW limit \in ByteLimits,
         Carve([hdr |-> H, avail |-> s], c, limit)
  PROVE  /\ \E b1 : /\ Carved(hdr', availblocks', H, T, s, b1)
                    /\ range' = [range EXCEPT ![c] = @ \cup {RangeOf(hdr', b1)}]
         /\ isExec' \subseteq isExec
<1> DEFINE b        == Head(s)
           size     == Size(H, b)
           split    == limit > 0 /\ size > limit
           exactFit == size >= limit + HeaderSpaceFor(1) + BlkSpaceFor(1)
           consume  == IF exactFit THEN limit + HeaderSpaceFor(1)
                                   ELSE BlkSpaceFor(1)
           b1       == IF split THEN H[b].higher - consume ELSE b
           S        == IF split THEN Split(H, b, b1) ELSE H
           J        == SetFree(S, b1, FALSE)
<1> USE SizesAssumption
<1>1. /\ hdr' = J
      /\ availblocks' = IF split THEN s ELSE Tail(s)
      /\ isExec' \subseteq isExec
      /\ range' = [range EXCEPT ![c] = @ \cup {RangeOf(J, b1)}]
  BY DEF Carve
<1>2. b \in DOMAIN H \ T /\ Available(H, b)
  <2>1. b \in Elements(s)
    BY TailOK DEF HeapOK, HAvail
  <2> QED
    BY <2>1 DEF HeapOK, HAvail
<1>3. /\ b \in Nat /\ H[b].higher \in Nat /\ size = H[b].higher - Start(b)
      /\ size >= MinAllocSize /\ H[b].isFree /\ size \in Int
  BY <1>2 DEF HeapOK, HOK, HTyped, HUp, Size, Available, Start
<1> HIDE DEF b
<1>4. CASE ~split
  <2>1. b1 = b /\ J = SetFree(H, b, FALSE) /\ availblocks' = Tail(s)
    BY <1>1, <1>4
  <2>2. FreeSet(J, H, T, b, FALSE)
    BY <2>1, <1>2, SetFreeOK DEF HeapOK
  <2> HIDE DEF J, b1
  <2>3. HCoalesced(J, T) /\ HAvail(J, T, Tail(s)) /\ InUse(J, T) = InUse(H, T) \cup {b}
    BY <2>2, TakeOK, ZenonT(60) DEF HeapOK, b
  <2>4. b \notin InUse(H, T) /\ \A x \in InUse(H, T) : x \in DOMAIN H
    BY <1>3 DEF InUse
  <2>5. Size(J, b) = size
    BY <2>2, <1>2 DEF FreeSet, Size
  <2>6. Carved(J, Tail(s), H, T, s, b)
    BY <2>2, <2>3, <2>4, <2>5, <1>3 DEF Carved, HeapOK, FreeSet
  <2> QED
    BY <2>1, <2>6, <1>1
<1>5. CASE split
  <2>1. /\ limit \in Nat \ {0} /\ limit > 2 * (SizeofMinBlock + MinAllocSize)
        /\ size > limit
    BY <1>5, LimitAssumption
  <2>2. /\ consume \in Nat /\ consume >= SizeofMinBlock + MinAllocSize
        /\ size - consume >= MinAllocSize
    <3>1. HeaderSpaceFor(1) = SizeofMinBlock
          /\ BlkSpaceFor(1) = MinAllocSize + SizeofMinBlock
      BY DEF HeaderSpaceFor, BlkSpaceFor
    <3> HIDE DEF size
    <3>2. CASE exactFit
      BY <3>1, <3>2, <2>1, <1>3
    <3>3. CASE ~exactFit
      BY <3>1, <3>3, <2>1, <1>3
    <3> QED
      BY <3>2, <3>3
  <2> HIDE DEF consume
  <2>3. /\ b1 = H[b].higher - consume /\ b1 \in Nat
        /\ b1 - Start(b) >= MinAllocSize
        /\ Start(b) < b1 /\ Start(b1) < H[b].higher
        /\ H[b].higher - Start(b1) >= MinAllocSize
    BY <2>2, <1>3, <1>5, SMTT(30) DEF Start
  <2>4. S = Split(H, b, b1) /\ availblocks' = s
    BY <1>1, <1>5
  <2> HIDE DEF b1, S
  <2>5. CutInTwo(S, H, T, b, b1)
    BY <2>3, <2>4, <1>2, SplitOK DEF HeapOK
  <2>6. HCoalesced(S, T) /\ HAvail(S, T, s) /\ InUse(S, T) = InUse(H, T) \cup {b1}
    BY <2>3, <2>5, <1>2, SplitFreeOK DEF HeapOK
  <2>7. b1 \in DOMAIN S \ T /\ ~S[b1].isFree /\ HOK(S, T)
    BY <2>6, <2>5 DEF InUse, CutInTwo
  <2>8. J = S
    BY <2>7, SetFreeSame
  <2> HIDE DEF J
  <2>9. b1 \notin InUse(H, T) /\ \A x \in InUse(H, T) : x \in DOMAIN H /\ x # b
    BY <2>5, <1>3 DEF InUse, CutInTwo
  <2>10. Size(J, b1) >= MinAllocSize
    BY <2>3, <2>5, <2>8 DEF CutInTwo, Size
  <2>11. \A x \in InUse(H, T) : J[x].higher = H[x].higher
    BY <2>5, <2>8, <2>9 DEF CutInTwo
  <2>12. Carved(J, s, H, T, s, b1)
    BY <2>6, <2>7, <2>8, <2>9, <2>10, <2>11 DEF Carved, HeapOK
  <2> QED
    BY <2>4, <2>12, <1>1
<1> QED
  BY <1>4, <1>5

-----------------------------------------------------------------------------
(* The operations, seen from the clients.                                  *)

\* Freeing a block nobody owns.
Released(J, a, H, T, R, C, b) ==
  /\ HeapOK(J, T, a)
  /\ Holding(J, T, R, C)
  /\ InUse(J, T) = InUse(H, T) \ {b}

\* Freeing a used block that no one holds keeps the heap in order.
LEMMA FreeUnowned ==
  ASSUME NEW H, NEW T, NEW s, HeapOK(H, T, s), NEW R, NEW C, Holding(H, T, R, C),
         NEW b \in InUse(H, T), b \notin AllOwned(R, C),
         NEW r, r = Freed([hdr |-> H, avail |-> s], b)
  PROVE  Released(r.hdr, r.avail, H, T, R, C, b)
<1>1. /\ HOK(r.hdr, T) /\ HCoalesced(r.hdr, T) /\ HAvail(r.hdr, T, r.avail)
      /\ InUse(r.hdr, T) = InUse(H, T) \ {b}
      /\ \A x \in InUse(H, T) \ {b} : /\ r.hdr[x].higher = H[x].higher
                                      /\ r.hdr[x].terminator = H[x].terminator
  BY FreedOK DEF HeapOK
<1>2. AllOwned(R, C) \subseteq InUse(H, T) \ {b}
  BY OwnedInUse
<1>3. Holding(r.hdr, T, R, C)
  BY <1>1, <1>2, HoldKeep
<1> QED
  BY <1>1, <1>3 DEF HeapOK, Released

\* Cutting a block in use that nobody owns.
Divided(S, H, T, s, R, C, b, n) ==
  /\ HeapOK(S, T, s)
  /\ Holding(S, T, R, C)
  /\ InUse(S, T) = InUse(H, T) \cup {n}
  /\ n \notin InUse(H, T)
  /\ S[n].higher = H[b].higher

\* addRemainder may cut a used block that no one holds.
LEMMA SplitUnowned ==
  ASSUME NEW H, NEW T, NEW s, HeapOK(H, T, s), NEW R, NEW C, Holding(H, T, R, C),
         NEW b \in InUse(H, T), b \notin AllOwned(R, C),
         NEW n \in Nat, Start(b) < n, Start(n) < H[b].higher,
         NEW S, S = Split(H, b, n)
  PROVE  Divided(S, H, T, s, R, C, b, n)
<1>1. b \in DOMAIN H \ T
  BY DEF InUse
<1>2. CutInTwo(S, H, T, b, n)
  BY <1>1, SplitOK DEF HeapOK
<1>3. /\ HCoalesced(S, T) /\ HAvail(S, T, s) /\ InUse(S, T) = InUse(H, T) \cup {n}
  BY <1>2, SplitUsedOK DEF HeapOK
<1>4. n \notin InUse(H, T) /\ \A x \in InUse(H, T) \ {b} : S[x].higher = H[x].higher
  BY <1>2 DEF CutInTwo, InUse
<1>5. AllOwned(R, C) \subseteq InUse(H, T) \ {b}
  BY OwnedInUse
<1>6. Holding(S, T, R, C)
  BY <1>3, <1>4, <1>5, HoldKeep
<1> QED
  BY <1>2, <1>3, <1>4, <1>6 DEF HeapOK, CutInTwo, Divided

-----------------------------------------------------------------------------
(* The inductive invariant.                                                *)

IInv ==
  /\ HeapOK(hdr, heapblocks, availblocks)
  /\ Placed(heapblocks, chunks)
  /\ Holding(hdr, heapblocks, range, code)
  /\ isExec \subseteq heapblocks
  /\ freeing \in Client \cup {NULL}

\* Every block in use is owned.
AllHeld == InUse(hdr, heapblocks) = AllOwned(range, code)

\* What each step does: IInv always, and AllHeld, unless holes may be right
\* aligned and it is addRemainder's.
Kept == IInv' /\ (AllHeld => AllHeld')
Preserved == IInv' /\ ("right" \notin HoleShapes /\ AllHeld => AllHeld')

\* The empty allocator satisfies the invariant.
LEMMA InitOK == Init => IInv /\ AllHeld
<1> SUFFICES ASSUME Init PROVE IInv /\ AllHeld
  OBVIOUS
<1> USE DEF Init
<1>1. DOMAIN hdr = {} /\ heapblocks = {} /\ availblocks = <<>>
  OBVIOUS
<1>2. HOK(hdr, heapblocks)
  BY <1>1 DEF HOK, HTyped, HUp, HDown, HTerm, HApart, HWithin
<1>3. HCoalesced(hdr, heapblocks) /\ HAvail(hdr, heapblocks, availblocks)
  BY <1>1 DEF HCoalesced, HAvail, Elements, Distinct
<1>4. Placed(heapblocks, chunks)
  BY DEF Placed
<1>5. \A c \in Client : range[c] = {} /\ code[c] = <<>> /\ Owned(range, code, c) = {}
  BY DEF Owned, Elements
<1>6. Holding(hdr, heapblocks, range, code)
  <2>1. HoldingTyped(range, code)
    BY <1>5 DEF HoldingTyped
  <2>2. RangesRight(hdr, heapblocks, range)
    BY <1>5 DEF RangesRight
  <2>3. Elements(<<>>) = {} /\ Distinct(<<>>)
    BY DEF Elements, Distinct
  <2>4. ListsRight(hdr, heapblocks, code)
    BY <1>5, <2>3 DEF ListsRight
  <2>5. OwnedOnce(range, code)
    BY <1>5 DEF OwnedOnce
  <2> QED
    BY <2>1, <2>2, <2>4, <2>5 DEF Holding
<1>7. AllHeld
  BY <1>1, <1>5 DEF AllHeld, InUse, AllOwned
<1> QED
  BY <1>2, <1>3, <1>4, <1>6, <1>7 DEF IInv, HeapOK

\* The block of a range: in use, with the extent the range says.
LEMMA RangeBlock ==
  ASSUME IInv, NEW c \in Client, NEW r \in range[c]
  PROVE  /\ r \in [start : Nat, end : Nat]
         /\ GetBlock(r) \in InUse(hdr, heapblocks) /\ GetBlock(r) \in Nat
         /\ Start(GetBlock(r)) = r.start
         /\ hdr[GetBlock(r)].higher = r.end
<1>1. r \in [start : Nat, end : Nat]
  BY DEF IInv, Holding, HoldingTyped
<1>2. GetBlock(r) \in InUse(hdr, heapblocks) /\ hdr[GetBlock(r)].higher = r.end
  BY DEF IInv, Holding, RangesRight
<1>3. GetBlock(r) \in Nat
  BY <1>2 DEF IInv, HeapOK, HOK, HTyped, InUse
<1>4. Start(GetBlock(r)) = r.start
  BY <1>1, SizesAssumption DEF Start, GetBlock
<1> QED
  BY <1>1, <1>2, <1>3, <1>4

\* The block of a range is in use and on no list of its client's.
LEMMA RangeOwned ==
  ASSUME IInv, NEW c \in Client, NEW r \in range[c]
  PROVE  /\ GetBlock(r) \in InUse(hdr, heapblocks) /\ GetBlock(r) \in DOMAIN hdr \ heapblocks
         /\ code \in [Client -> Seq(Nat)]
         /\ Elements(code[c]) \subseteq InUse(hdr, heapblocks) \ {GetBlock(r)}
<1>1. GetBlock(r) \in InUse(hdr, heapblocks)
  BY RangeBlock
<1>2. GetBlock(r) \in DOMAIN hdr \ heapblocks
  BY <1>1 DEF InUse
<1>3. HoldingTyped(range, code) /\ ListsRight(hdr, heapblocks, code) /\ OwnedOnce(range, code)
  BY DEF IInv, Holding
<1>4. code \in [Client -> Seq(Nat)]
  BY <1>3 DEF HoldingTyped
<1>5. Elements(code[c]) \subseteq InUse(hdr, heapblocks)
  BY <1>3 DEF ListsRight
<1>6. GetBlock(r) \notin Elements(code[c])
  BY <1>3 DEF OwnedOnce
<1> QED
  BY <1>1, <1>2, <1>4, <1>5, <1>6

\* A block carved out of a heap goes to its client.
LEMMA CarvedHeld ==
  ASSUME NEW H, NEW T, NEW s, Holding(H, T, range, code), NEW c \in Client,
         NEW b1, Carved(hdr', availblocks', H, T, s, b1),
         range' = [range EXCEPT ![c] = @ \cup {RangeOf(hdr', b1)}], code' = code
  PROVE  /\ HeapOK(hdr', T, availblocks')
         /\ Holding(hdr', T, range', code')
         /\ InUse(H, T) = AllOwned(range, code) =>
              InUse(hdr', T) = AllOwned(range', code')
<1>1. /\ HeapOK(hdr', T, availblocks') /\ b1 \notin InUse(H, T)
      /\ InUse(hdr', T) = InUse(H, T) \cup {b1} /\ Size(hdr', b1) >= MinAllocSize
      /\ \A x \in InUse(H, T) : hdr'[x].higher = H[x].higher
  BY DEF Carved
<1>2. AllOwned(range, code) \subseteq InUse(H, T)
  BY OwnedInUse
<1>3. Holding(hdr', T, range, code)
  BY <1>1, <1>2, HoldKeep
<1>4. b1 \in InUse(hdr', T) /\ b1 \notin AllOwned(range, code)
  BY <1>1, <1>2
<1>5. b1 \in Nat /\ hdr'[b1].higher \in Nat
  BY <1>1, <1>4 DEF HeapOK, HOK, HTyped, HUp, InUse
<1>6. Gained(hdr', T, range, code, range', b1)
  BY <1>1, <1>3, <1>4, <1>5, HoldRange
<1> QED
  BY <1>1, <1>6 DEF Gained

\* alloc from the free list keeps the invariant.
LEMMA AllocReuseOK ==
  ASSUME IInv, NEW c \in Client, NEW limit \in ByteLimits, AllocReuse(c, limit)
  PROVE  Kept
<1>1. /\ availblocks # <<>> /\ Carve([hdr |-> hdr, avail |-> availblocks], c, limit)
      /\ UNCHANGED <<heapblocks, code, freeing, chunks>>
  BY DEF AllocReuse, Heap
<1>2. HeapOK(hdr, heapblocks, availblocks) /\ Holding(hdr, heapblocks, range, code)
  BY DEF IInv
<1>3. /\ \E b1 : /\ Carved(hdr', availblocks', hdr, heapblocks, availblocks, b1)
                 /\ range' = [range EXCEPT ![c] = @ \cup {RangeOf(hdr', b1)}]
      /\ isExec' \subseteq isExec
  BY <1>1, <1>2, CarveOK
<1>4. /\ HeapOK(hdr', heapblocks, availblocks')
      /\ Holding(hdr', heapblocks, range', code')
      /\ InUse(hdr, heapblocks) = AllOwned(range, code) =>
           InUse(hdr', heapblocks) = AllOwned(range', code')
  BY <1>1, <1>2, <1>3, CarvedHeld
<1> QED
  BY <1>1, <1>3, <1>4 DEF Kept, IInv, AllHeld

\* alloc from a new chunk keeps the invariant.
LEMMA AllocNewChunkOK ==
  ASSUME IInv, NEW c \in Client, NEW limit \in ByteLimits, NEW m \in ChunkBase,
         AllocNewChunk(c, limit, m)
  PROVE  Kept
<1> DEFINE A == AddMem(hdr, m)
           U == heapblocks \cup {Terminator(m)}
<1>1. /\ availblocks = <<>> /\ m \in ChunkBase \ chunks
      /\ chunks' = chunks \cup {m} /\ heapblocks' = U
      /\ Carve([hdr |-> A, avail |-> <<m>>], c, limit)
      /\ UNCHANGED <<code, freeing>>
  BY DEF AllocNewChunk
<1>2. /\ HOK(hdr, heapblocks) /\ HCoalesced(hdr, heapblocks)
      /\ HAvail(hdr, heapblocks, <<>>) /\ Placed(heapblocks, chunks)
      /\ Holding(hdr, heapblocks, range, code)
  BY <1>1 DEF IInv, HeapOK
<1> A = AddMem(hdr, m) /\ U = heapblocks \cup {Terminator(m)}
  OBVIOUS
<1> HIDE DEF A, U
<1>a. Grown(A, U, hdr, heapblocks, chunks, m)
  BY <1>1, <1>2, AddMemOK
<1>3. /\ HOK(A, U) /\ HCoalesced(A, U) /\ HAvail(A, U, <<m>>)
      /\ Placed(U, chunks \cup {m})
      /\ InUse(A, U) = InUse(hdr, heapblocks)
      /\ \A x \in DOMAIN hdr : A[x] = hdr[x]
  BY <1>a DEF Grown
<1>4. HeapOK(A, U, <<m>>)
  BY <1>3 DEF HeapOK
<1>5. Holding(A, U, range, code)
  <2>1. AllOwned(range, code) \subseteq InUse(hdr, heapblocks)
    BY <1>2, OwnedInUse
  <2>2. \A x \in AllOwned(range, code) : A[x].higher = hdr[x].higher
    BY <2>1, <1>3 DEF InUse
  <2> QED
    BY <2>1, <2>2, <1>2, <1>3, HoldKeep
<1>6. /\ \E b1 : /\ Carved(hdr', availblocks', A, U, <<m>>, b1)
                 /\ range' = [range EXCEPT ![c] = @ \cup {RangeOf(hdr', b1)}]
      /\ isExec' \subseteq isExec
  <2>1. <<m>> # <<>>
    OBVIOUS
  <2> QED
    BY <2>1, <1>1, <1>4, CarveOK
<1>7. /\ HeapOK(hdr', U, availblocks')
      /\ Holding(hdr', U, range', code')
      /\ InUse(A, U) = AllOwned(range, code) =>
           InUse(hdr', U) = AllOwned(range', code')
  BY <1>1, <1>5, <1>6, CarvedHeld
<1>8. isExec' \subseteq heapblocks'
  BY <1>1, <1>6 DEF IInv, U
<1> QED
  BY <1>1, <1>3, <1>7, <1>8 DEF Kept, IInv, AllHeld

-----------------------------------------------------------------------------
(* free, add and freeAll.                                                  *)

\* A range its client gives up: the block is in use and nobody owns it.
LEMMA RangeDropped ==
  ASSUME IInv, NEW c \in Client, NEW r \in range[c],
         range' = [range EXCEPT ![c] = @ \ {r}]
  PROVE  /\ Holding(hdr, heapblocks, range', code)
         /\ AllOwned(range', code) = AllOwned(range, code) \ {GetBlock(r)}
         /\ GetBlock(r) \in AllOwned(range, code)
         /\ GetBlock(r) \in InUse(hdr, heapblocks)
<1>1. Holding(hdr, heapblocks, range, code)
  BY DEF IInv
<1>2. Lost(hdr, heapblocks, range, code, range', GetBlock(r))
  BY <1>1, HoldDrop
<1>3. GetBlock(r) \in AllOwned(range, code)
  BY DEF AllOwned, Owned
<1> QED
  BY <1>1, <1>2, <1>3, OwnedInUse DEF Lost

\* free keeps the invariant.
LEMMA FreeOK ==
  ASSUME IInv, NEW c \in Client, NEW r \in range[c], Free(c, r)
  PROVE  Kept
<1> DEFINE b == GetBlock(r)
           f == Freed([hdr |-> hdr, avail |-> availblocks], b)
<1>1. /\ hdr' = f.hdr /\ availblocks' = f.avail
      /\ range' = [range EXCEPT ![c] = @ \ {r}]
      /\ UNCHANGED <<heapblocks, isExec, code, freeing, chunks>>
  BY DEF Free, SetHeap, Heap
<1>2. /\ Holding(hdr, heapblocks, range', code)
      /\ AllOwned(range', code) = AllOwned(range, code) \ {b}
      /\ b \in InUse(hdr, heapblocks)
  BY <1>1, RangeDropped
<1> f = Freed([hdr |-> hdr, avail |-> availblocks], b)
  OBVIOUS
<1> HIDE DEF b, f
<1>3. HeapOK(hdr, heapblocks, availblocks) /\ b \notin AllOwned(range', code)
  BY <1>2 DEF IInv
<1>4. Released(f.hdr, f.avail, hdr, heapblocks, range', code, b)
  BY <1>2, <1>3, FreeUnowned
<1> QED
  BY <1>1, <1>2, <1>4 DEF Released, Kept, IInv, AllHeld

\* add keeps the invariant.
LEMMA AddOK ==
  ASSUME IInv, NEW c \in Client, NEW r \in range[c], Add(c, r)
  PROVE  Kept
<1> DEFINE b == GetBlock(r)
<1>1. /\ code' = [code EXCEPT ![c] = <<b>> \o @]
      /\ range' = [range EXCEPT ![c] = @ \ {r}]
      /\ UNCHANGED <<hdr, heapblocks, availblocks, isExec, freeing, chunks>>
  BY DEF Add
<1>2. /\ Holding(hdr, heapblocks, range', code)
      /\ AllOwned(range', code) = AllOwned(range, code) \ {b}
      /\ b \in InUse(hdr, heapblocks) /\ b \in AllOwned(range, code)
  BY <1>1, RangeDropped
<1>3. b \in Nat
  BY RangeBlock
<1> HIDE DEF b
<1>4. b \notin AllOwned(range', code)
  BY <1>2
<1>5. Listed(hdr, heapblocks, range', code, code', b)
  BY <1>1, <1>2, <1>3, <1>4, HoldCons
<1> QED
  BY <1>1, <1>2, <1>5 DEF Listed, Kept, IInv, AllHeld

\* The start of freeAll keeps the invariant.
LEMMA FreeAllOK ==
  ASSUME IInv, NEW c \in Client, FreeAll(c)
  PROVE  Kept
BY DEF FreeAll, Kept, IInv, AllHeld

\* Each round of freeAll's loop keeps the invariant.
LEMMA FreeAllStepOK ==
  ASSUME IInv, NEW c \in Client, FreeAllStep(c)
  PROVE  Kept
<1> DEFINE b == Head(code[c])
           f == Freed([hdr |-> hdr, avail |-> availblocks], b)
<1>1. /\ hdr' = f.hdr /\ availblocks' = f.avail
      /\ code[c] # <<>> /\ code' = [code EXCEPT ![c] = Tail(@)]
      /\ UNCHANGED <<heapblocks, isExec, range, chunks>>
      /\ freeing' \in Client \cup {NULL}
  BY DEF FreeAllStep, SetHeap, Heap
<1>2. HeapOK(hdr, heapblocks, availblocks) /\ Holding(hdr, heapblocks, range, code)
  BY DEF IInv
<1>3. Unlisted(hdr, heapblocks, range, code, code', b)
  BY <1>1, <1>2, HoldTail
<1> f = Freed([hdr |-> hdr, avail |-> availblocks], b)
  OBVIOUS
<1> HIDE DEF b, f
<1>4. /\ Holding(hdr, heapblocks, range, code') /\ b \in InUse(hdr, heapblocks)
      /\ b \notin AllOwned(range, code')
      /\ AllOwned(range, code') = AllOwned(range, code) \ {b}
  BY <1>3 DEF Unlisted
<1>5. Released(f.hdr, f.avail, hdr, heapblocks, range, code', b)
  BY <1>2, <1>4, FreeUnowned
<1> QED
  BY <1>1, <1>4, <1>5 DEF Released, Kept, IInv, AllHeld

-----------------------------------------------------------------------------
(* addRemainder.                                                           *)

\* addRemainder with a hole that is too small: the block goes on the list.
LEMMA KeepWholeOK ==
  ASSUME IInv, NEW c \in Client, NEW r \in range[c],
         range' = [range EXCEPT ![c] = @ \ {r}],
         UNCHANGED <<heapblocks, isExec, freeing, chunks>>, KeepWhole(c, r)
  PROVE  Kept
<1> DEFINE b == GetBlock(r)
<1>1. code' = [code EXCEPT ![c] = <<b>> \o @] /\ UNCHANGED <<hdr, availblocks>>
  BY DEF KeepWhole
<1>2. /\ Holding(hdr, heapblocks, range', code)
      /\ AllOwned(range', code) = AllOwned(range, code) \ {b}
      /\ b \in InUse(hdr, heapblocks) /\ b \in AllOwned(range, code)
  BY RangeDropped
<1>3. b \in Nat
  BY RangeBlock
<1> HIDE DEF b
<1>4. b \notin AllOwned(range', code)
  BY <1>2
<1>5. Listed(hdr, heapblocks, range', code, code', b)
  BY <1>1, <1>2, <1>3, <1>4, HoldCons
<1> QED
  BY <1>1, <1>2, <1>5 DEF Listed, Kept, IInv, AllHeld

\* addRemainder with a hole that is everything: the block is freed.
LEMMA FreeWholeOK ==
  ASSUME IInv, NEW c \in Client, NEW r \in range[c],
         range' = [range EXCEPT ![c] = @ \ {r}],
         UNCHANGED <<heapblocks, isExec, freeing, chunks>>, FreeWhole(r)
  PROVE  Kept
<1> DEFINE b == GetBlock(r)
           f == Freed([hdr |-> hdr, avail |-> availblocks], b)
<1>1. /\ hdr' = f.hdr /\ availblocks' = f.avail /\ UNCHANGED code
  BY DEF FreeWhole, SetHeap, Heap
<1>2. /\ Holding(hdr, heapblocks, range', code)
      /\ AllOwned(range', code) = AllOwned(range, code) \ {b}
      /\ b \in InUse(hdr, heapblocks)
  BY RangeDropped
<1> f = Freed([hdr |-> hdr, avail |-> availblocks], b)
  OBVIOUS
<1> HIDE DEF b, f
<1>3. HeapOK(hdr, heapblocks, availblocks) /\ b \notin AllOwned(range', code)
  BY <1>2 DEF IInv
<1>4. Released(f.hdr, f.avail, hdr, heapblocks, range', code, b)
  BY <1>2, <1>3, FreeUnowned
<1> QED
  BY <1>1, <1>2, <1>4 DEF Released, Kept, IInv, AllHeld

\* What alignment leaves of a hole that is big enough lies in the range, and
\* there is room in it for two headers and the smallest free block.
LEMMA HoleOK ==
  ASSUME IInv, NEW c \in Client, NEW r \in range[c],
         NEW holeStart \in Nat, NEW holeEnd \in Nat,
         r.start <= holeStart, holeEnd <= r.end,
         NEW hole, hole = Hole(holeStart, holeEnd), BigHole(hole)
  PROVE  /\ hole.from \in Nat /\ hole.to \in Nat
         /\ r.start <= hole.from /\ hole.to <= r.end /\ hole.to <= holeEnd
         /\ hole.to >= hole.from + 3 * SizeofMinBlock + MinAllocSize
<1> USE SizesAssumption
<1>1. r.start \in Nat /\ r.end \in Nat
  BY RangeBlock
<1>2. /\ hole.from = AlignUp(holeStart, PtrSize) /\ hole.to = AlignDown(holeEnd, PtrSize)
  BY DEF Hole
<1>3. /\ hole.from \in Nat /\ hole.from >= holeStart
      /\ hole.to \in Int /\ hole.to <= holeEnd
  BY <1>2, AlignOK
<1>4. hole.to >= hole.from + 3 * SizeofMinBlock + MinAllocSize
  BY <1>3 DEF BigHole, MinHole, HeaderSpaceFor, BlkSpaceFor
<1> QED
  BY <1>1, <1>3, <1>4

\* addRemainder with a hole at the lower end: cut in two, the lower part freed.
LEMMA FreeLowerPartOK ==
  ASSUME IInv, NEW c \in Client, NEW r \in range[c],
         range' = [range EXCEPT ![c] = @ \ {r}],
         UNCHANGED <<heapblocks, isExec, freeing, chunks>>,
         NEW hole, hole.from \in Nat, hole.to \in Nat,
         hole.from = r.start, hole.to < r.end,
         hole.to >= hole.from + 3 * SizeofMinBlock + MinAllocSize,
         FreeLowerPart(c, r, hole)
  PROVE  Kept
<1> DEFINE b  == GetBlock(r)
           b2 == hole.to - SizeofMinBlock
           S  == Split(hdr, b, b2)
           f  == Freed([hdr |-> S, avail |-> availblocks], b)
<1> USE SizesAssumption
<1>1. /\ hdr' = f.hdr /\ availblocks' = f.avail
      /\ code' = [code EXCEPT ![c] = <<b2>> \o @]
  BY SMTT(30) DEF FreeLowerPart, SetHeap, Heap
<1>2. /\ Holding(hdr, heapblocks, range', code)
      /\ AllOwned(range', code) = AllOwned(range, code) \ {b}
      /\ b \in InUse(hdr, heapblocks) /\ b \in AllOwned(range, code)
  BY RangeDropped
<1>3. /\ b \in Nat /\ Start(b) = r.start /\ hdr[b].higher = r.end
      /\ r.start \in Nat /\ r.end \in Nat
  BY RangeBlock
<1>4. b2 \in Nat /\ Start(b) < b2 /\ Start(b2) < hdr[b].higher /\ b2 # b
  BY <1>3 DEF Start
<1> /\ f = Freed([hdr |-> S, avail |-> availblocks], b)
    /\ S = Split(hdr, b, b2)
  OBVIOUS
<1> HIDE DEF b, b2, S, f
<1>5. HeapOK(hdr, heapblocks, availblocks) /\ b \notin AllOwned(range', code)
  BY <1>2 DEF IInv
<1>6. Divided(S, hdr, heapblocks, availblocks, range', code, b, b2)
  BY <1>2, <1>4, <1>5, SplitUnowned
<1>7. /\ HeapOK(S, heapblocks, availblocks) /\ Holding(S, heapblocks, range', code)
      /\ InUse(S, heapblocks) = InUse(hdr, heapblocks) \cup {b2}
      /\ b2 \notin InUse(hdr, heapblocks) /\ b \in InUse(S, heapblocks)
  BY <1>2, <1>6 DEF Divided
<1>8. Released(f.hdr, f.avail, S, heapblocks, range', code, b)
  BY <1>5, <1>7, FreeUnowned
<1>9. /\ HeapOK(f.hdr, heapblocks, f.avail) /\ Holding(f.hdr, heapblocks, range', code)
      /\ InUse(f.hdr, heapblocks) = (InUse(hdr, heapblocks) \ {b}) \cup {b2}
  BY <1>4, <1>7, <1>8 DEF Released
<1>10. b2 \in InUse(f.hdr, heapblocks) /\ b2 \notin AllOwned(range', code)
  <2>1. AllOwned(range', code) \subseteq InUse(hdr, heapblocks)
    BY <1>2, OwnedInUse
  <2> QED
    BY <2>1, <1>7, <1>9
<1>11. Listed(f.hdr, heapblocks, range', code, code', b2)
  BY <1>1, <1>4, <1>9, <1>10, HoldCons
<1> QED
  BY <1>1, <1>2, <1>9, <1>11 DEF Listed, Kept, IInv, AllHeld

\* A list with two blocks in front, one after the other.
LEMMA TwoCons ==
  ASSUME NEW S, NEW s \in Seq(S), NEW a \in S, NEW b \in S
  PROVE  <<a, b>> \o s = <<a>> \o (<<b>> \o s)
<1> DEFINE u == <<a, b>> \o s
           v == <<a>> \o (<<b>> \o s)
<1>1. u \in Seq(S) /\ v \in Seq(S) /\ Len(u) = Len(s) + 2 /\ Len(v) = Len(s) + 2
  OBVIOUS
<1>2. ASSUME NEW i \in 1 .. Len(s) + 2 PROVE u[i] = v[i]
  OBVIOUS
<1> HIDE DEF u, v
<1> QED
  BY <1>1, <1>2, SeqEqual DEF u, v

\* addRemainder with a hole in the middle: cut in three, the middle freed.
LEMMA FreeMiddlePartOK ==
  ASSUME IInv, NEW c \in Client, NEW r \in range[c],
         range' = [range EXCEPT ![c] = @ \ {r}],
         UNCHANGED <<heapblocks, isExec, freeing, chunks>>,
         NEW hole, hole.from \in Nat, hole.to \in Nat,
         r.start < hole.from, hole.to < r.end,
         hole.to >= hole.from + 3 * SizeofMinBlock + MinAllocSize,
         FreeMiddlePart(c, r, hole)
  PROVE  Kept
<1> DEFINE b1 == GetBlock(r)
           b2 == hole.from
           b3 == hole.to - SizeofMinBlock
           S1 == Split(hdr, b1, b2)
           S2 == Split(S1, b2, b3)
           f  == Freed([hdr |-> S2, avail |-> availblocks], b2)
           D  == [code EXCEPT ![c] = <<b3>> \o @]
<1> USE SizesAssumption
<1>1. /\ hdr' = f.hdr /\ availblocks' = f.avail
      /\ code' = [code EXCEPT ![c] = <<b1, b3>> \o @]
  BY SMTT(30) DEF FreeMiddlePart, SetHeap, Heap
<1>2. /\ Holding(hdr, heapblocks, range', code)
      /\ AllOwned(range', code) = AllOwned(range, code) \ {b1}
      /\ b1 \in InUse(hdr, heapblocks) /\ b1 \in AllOwned(range, code)
  BY RangeDropped
<1>3. /\ b1 \in Nat /\ Start(b1) = r.start /\ hdr[b1].higher = r.end
      /\ r.start \in Nat /\ r.end \in Nat
  BY RangeBlock
<1>4. /\ b2 \in Nat /\ Start(b1) < b2 /\ Start(b2) < hdr[b1].higher /\ b2 # b1
      /\ b3 \in Nat /\ Start(b2) < b3 /\ Start(b3) < hdr[b1].higher
      /\ b3 # b1 /\ b3 # b2
  BY <1>3 DEF Start
<1>5. code[c] \in Seq(Nat) /\ code \in [Client -> Seq(Nat)]
  BY DEF IInv, Holding, HoldingTyped
<1> /\ f = Freed([hdr |-> S2, avail |-> availblocks], b2)
    /\ S1 = Split(hdr, b1, b2) /\ S2 = Split(S1, b2, b3)
    /\ D = [code EXCEPT ![c] = <<b3>> \o @]
  OBVIOUS
<1> HIDE DEF b1, b2, b3, S1, S2, f, D
<1>6. code' = [D EXCEPT ![c] = <<b1>> \o @]
  <2>1. <<b1, b3>> \o code[c] = <<b1>> \o (<<b3>> \o code[c])
    BY <1>3, <1>4, <1>5, TwoCons, SMTT(30)
  <2> QED
    BY <2>1, <1>1, <1>5
<1>7. HeapOK(hdr, heapblocks, availblocks) /\ b1 \notin AllOwned(range', code)
  BY <1>2 DEF IInv
<1>8. Divided(S1, hdr, heapblocks, availblocks, range', code, b1, b2)
  BY <1>2, <1>4, <1>7, SplitUnowned
<1>9. /\ HeapOK(S1, heapblocks, availblocks) /\ Holding(S1, heapblocks, range', code)
      /\ InUse(S1, heapblocks) = InUse(hdr, heapblocks) \cup {b2}
      /\ b2 \notin InUse(hdr, heapblocks) /\ b2 \in InUse(S1, heapblocks)
      /\ S1[b2].higher = hdr[b1].higher
  BY <1>8 DEF Divided
<1>10. AllOwned(range', code) \subseteq InUse(hdr, heapblocks)
  BY <1>2, OwnedInUse
<1>11. b2 \notin AllOwned(range', code)
  BY <1>9, <1>10
<1>12. Divided(S2, S1, heapblocks, availblocks, range', code, b2, b3)
  BY <1>4, <1>9, <1>11, SplitUnowned
<1>13. /\ HeapOK(S2, heapblocks, availblocks) /\ Holding(S2, heapblocks, range', code)
       /\ InUse(S2, heapblocks) = InUse(hdr, heapblocks) \cup {b2, b3}
       /\ b3 \notin InUse(hdr, heapblocks) /\ b2 \in InUse(S2, heapblocks)
  BY <1>9, <1>12 DEF Divided
<1>14. Released(f.hdr, f.avail, S2, heapblocks, range', code, b2)
  BY <1>11, <1>13, FreeUnowned
<1>15. /\ HeapOK(f.hdr, heapblocks, f.avail) /\ Holding(f.hdr, heapblocks, range', code)
       /\ InUse(f.hdr, heapblocks) = InUse(hdr, heapblocks) \cup {b3}
  BY <1>4, <1>9, <1>13, <1>14 DEF Released
<1>16. b3 \in InUse(f.hdr, heapblocks) /\ b3 \notin AllOwned(range', code)
  BY <1>10, <1>13, <1>15
<1>17. Listed(f.hdr, heapblocks, range', code, D, b3)
  BY <1>4, <1>15, <1>16, HoldCons
<1>18. /\ Holding(f.hdr, heapblocks, range', D)
       /\ AllOwned(range', D) = AllOwned(range', code) \cup {b3}
       /\ b1 \in InUse(f.hdr, heapblocks) /\ b1 \notin AllOwned(range', D)
  BY <1>2, <1>4, <1>7, <1>15, <1>17 DEF Listed
<1>19. Listed(f.hdr, heapblocks, range', D, code', b1)
  BY <1>3, <1>6, <1>18, HoldCons
<1>20. /\ Holding(f.hdr, heapblocks, range', code')
       /\ AllOwned(range', code') = AllOwned(range, code) \cup {b3}
  BY <1>2, <1>18, <1>19, ZenonT(60) DEF Listed
<1> QED
  BY <1>1, <1>15, <1>20 DEF Kept, IInv, AllHeld

\* addRemainder keeps the invariant whatever the hole; a block can be lost only
\* when the hole is right aligned.
LEMMA AddRemainderOK ==
  ASSUME IInv, NEW c \in Client, NEW r \in range[c],
         NEW holeStart \in r.start .. r.end, NEW holeEnd \in r.start .. r.end,
         AddRemainder(c, r, holeStart, holeEnd)
  PROVE  Preserved /\ (holeEnd < r.end => Kept)
<1> DEFINE hole == Hole(holeStart, holeEnd)
           shape == HoleShape(r, hole)
<1>1. /\ range' = [range EXCEPT ![c] = @ \ {r}]
      /\ UNCHANGED <<heapblocks, isExec, freeing, chunks>>
      /\ r.start <= holeStart /\ holeEnd <= r.end
  BY DEF AddRemainder
<1>2. r.start \in Nat /\ r.end \in Nat /\ holeStart \in Nat /\ holeEnd \in Nat
  BY RangeBlock
<1>3. CASE ~BigHole(hole) /\ KeepWhole(c, r)
  BY <1>1, <1>3, KeepWholeOK DEF Kept, Preserved
<1>4. CASE BigHole(hole)
  <2> hole = Hole(holeStart, holeEnd)
    OBVIOUS
  <2> HIDE DEF hole
  <2>1. /\ hole.from \in Nat /\ hole.to \in Nat
        /\ r.start <= hole.from /\ hole.to <= r.end /\ hole.to <= holeEnd
        /\ hole.to >= hole.from + 3 * SizeofMinBlock + MinAllocSize
    BY <1>1, <1>2, <1>4, HoleOK
  <2>2. \/ shape = "left" /\ hole.to = r.end /\ FreeWhole(r)
        \/ shape = "left" /\ hole.to # r.end /\ FreeLowerPart(c, r, hole)
        \/ shape = "right" /\ "right" \in HoleShapes /\ DropWhole
        \/ shape = "middle" /\ FreeMiddlePart(c, r, hole)
    BY <1>4 DEF AddRemainder, hole
  <2>3. CASE shape = "left" /\ hole.to = r.end /\ FreeWhole(r)
    BY <2>3, <1>1, FreeWholeOK DEF Kept, Preserved
  <2>4. CASE shape = "left" /\ hole.to # r.end /\ FreeLowerPart(c, r, hole)
    <3>1. hole.from = r.start /\ hole.to < r.end
      BY <2>1, <2>4, <1>2 DEF HoleShape
    <3> QED
      BY <3>1, <2>1, <2>4, <1>1, FreeLowerPartOK DEF Kept, Preserved
  <2>5. CASE shape = "right" /\ "right" \in HoleShapes /\ DropWhole
    <3>1. Holding(hdr, heapblocks, range', code)
      BY <1>1, RangeDropped
    <3>2. hole.to = r.end
      BY <2>5 DEF HoleShape
    <3> QED
      BY <3>1, <3>2, <2>1, <2>5, <1>1, <1>2 DEF DropWhole, Preserved, IInv
  <2>6. CASE shape = "middle" /\ FreeMiddlePart(c, r, hole)
    <3>1. r.start < hole.from /\ hole.to < r.end
      BY <2>1, <2>6, <1>2 DEF HoleShape
    <3> QED
      BY <3>1, <2>1, <2>6, <1>1, FreeMiddlePartOK DEF Kept, Preserved
  <2> QED
    BY <2>2, <2>3, <2>4, <2>5, <2>6
<1>5. BigHole(hole) \/ (~BigHole(hole) /\ KeepWhole(c, r))
  BY Zenon DEF AddRemainder
<1> QED
  BY <1>3, <1>4, <1>5

-----------------------------------------------------------------------------
(* Protection, reset, and the step.                                        *)

\* Protecting the chunks of a client's list keeps the invariant.
LEMMA MarkExecOK ==
  ASSUME IInv, NEW c \in Client, MarkExec(c)
  PROVE  Kept
<1>1. /\ isExec' = isExec \cup {hdr[code[c][i]].terminator : i \in DOMAIN code[c]}
      /\ UNCHANGED <<hdr, heapblocks, availblocks, code, range, freeing, chunks>>
  BY DEF MarkExec
<1>2. \A i \in DOMAIN code[c] : hdr[code[c][i]].terminator \in heapblocks
  <2> TAKE i \in DOMAIN code[c]
  <2>1. code[c][i] \in InUse(hdr, heapblocks)
    BY DEF IInv, Holding, ListsRight, Elements
  <2> QED
    BY <2>1 DEF InUse, IInv, HeapOK, HOK, HUp
<1> QED
  BY <1>1, <1>2 DEF Kept, IInv, AllHeld

\* So do the other two changes of protection.
LEMMA MarkOK ==
  ASSUME IInv,
         MarkAllExec \/ \E c \in Client : \E r \in range[c] : MarkBlockWrite(c, r)
  PROVE  Kept
BY DEF MarkAllExec, MarkBlockWrite, Kept, IInv, AllHeld

\* reset keeps the invariant: no block is left and no one holds any.
LEMMA ResetOK ==
  ASSUME IInv, Reset
  PROVE  Kept
<1>1. /\ chunks' = chunks \ {FirstBlock(t) : t \in heapblocks}
      /\ heapblocks' = {} /\ availblocks' = <<>> /\ isExec' = {}
      /\ code' = [c \in Client |-> <<>>] /\ range' = [c \in Client |-> {}]
      /\ freeing' = freeing /\ DOMAIN hdr' = {} /\ hdr' = [b \in {} |-> NULL]
  BY DEF Reset
<1>2. chunks' = {}
  <2>1. \A m \in chunks : m \in {FirstBlock(t) : t \in heapblocks}
    <3> TAKE m \in chunks
    <3>1. Terminator(m) \in heapblocks /\ m \in ChunkBase
      BY DEF IInv, Placed
    <3>2. FirstBlock(Terminator(m)) = m
      BY <3>1, FirstBlockOK
    <3> QED
      BY <3>1, <3>2
  <2> QED
    BY <2>1, <1>1
<1>3. HOK(hdr', heapblocks')
  BY <1>1 DEF HOK, HTyped, HUp, HDown, HTerm, HApart, HWithin
<1>4. HCoalesced(hdr', heapblocks') /\ HAvail(hdr', heapblocks', availblocks')
  BY <1>1 DEF HCoalesced, HAvail, Elements, Distinct
<1>5. Placed(heapblocks', chunks')
  BY <1>1, <1>2 DEF Placed
<1>6. \A c \in Client : /\ range'[c] = {} /\ code'[c] = <<>>
                        /\ Owned(range', code', c) = {}
  BY <1>1 DEF Owned, Elements
<1>7. Holding(hdr', heapblocks', range', code')
  <2>1. HoldingTyped(range', code')
    BY <1>1 DEF HoldingTyped
  <2>2. RangesRight(hdr', heapblocks', range')
    BY <1>6 DEF RangesRight
  <2>3. Elements(<<>>) = {} /\ Distinct(<<>>)
    BY DEF Elements, Distinct
  <2>4. ListsRight(hdr', heapblocks', code')
    BY <1>6, <2>3 DEF ListsRight
  <2>5. OwnedOnce(range', code')
    BY <1>6 DEF OwnedOnce
  <2> QED
    BY <2>1, <2>2, <2>4, <2>5 DEF Holding
<1>8. InUse(hdr', heapblocks') = AllOwned(range', code')
  BY <1>1, <1>6 DEF InUse, AllOwned
<1> QED
  BY <1>1, <1>3, <1>4, <1>5, <1>7, <1>8 DEF Kept, IInv, HeapOK, AllHeld

\* The invariant is inductive.
LEMMA StepOK == IInv /\ [Next]_vars => Preserved
<1> SUFFICES ASSUME IInv, [Next]_vars PROVE Preserved
  OBVIOUS
<1>1. ASSUME NEW c \in Client, NEW limit \in ByteLimits, AllocReuse(c, limit)
      PROVE  Preserved
  BY <1>1, AllocReuseOK DEF Kept, Preserved
<1>2. ASSUME NEW c \in Client, NEW limit \in ByteLimits, NEW m \in ChunkBase,
             AllocNewChunk(c, limit, m)
      PROVE  Preserved
  BY <1>2, AllocNewChunkOK DEF Kept, Preserved
<1>3. ASSUME NEW c \in Client, NEW r \in range[c], Free(c, r)
      PROVE  Preserved
  BY <1>3, FreeOK DEF Kept, Preserved
<1>4. ASSUME NEW c \in Client, NEW r \in range[c], Add(c, r)
      PROVE  Preserved
  BY <1>4, AddOK DEF Kept, Preserved
<1>5. ASSUME NEW c \in Client, NEW r \in range[c], MarkBlockWrite(c, r)
      PROVE  Preserved
  BY <1>5, MarkOK DEF Kept, Preserved
<1>6. ASSUME NEW c \in Client, NEW r \in range[c],
             NEW from \in r.start .. r.end, NEW to \in r.start .. r.end,
             AddRemainder(c, r, from, to)
      PROVE  Preserved
  BY <1>6, AddRemainderOK
<1>7. ASSUME NEW c \in Client, FreeAll(c)
      PROVE  Preserved
  BY <1>7, FreeAllOK DEF Kept, Preserved
<1>8. ASSUME NEW c \in Client, FreeAllStep(c)
      PROVE  Preserved
  BY <1>8, FreeAllStepOK DEF Kept, Preserved
<1>9. ASSUME NEW c \in Client, MarkExec(c)
      PROVE  Preserved
  BY <1>9, MarkExecOK DEF Kept, Preserved
<1>10. CASE MarkAllExec
  BY <1>10, MarkOK DEF Kept, Preserved
<1>11. CASE Reset
  BY <1>11, ResetOK DEF Kept, Preserved
<1>12. CASE UNCHANGED vars
  BY <1>12 DEF vars, Preserved, IInv, AllHeld
<1> QED
  BY <1>1, <1>2, <1>3, <1>4, <1>5, <1>6, <1>7, <1>8, <1>9, <1>10, <1>11, <1>12
     DEF Next, Kept, Preserved

\* The inductive invariant holds in every reachable state.
THEOREM InvariantHolds == Spec => []IInv
<1>1. Init => IInv
  BY InitOK
<1>2. IInv /\ [Next]_vars => IInv'
  BY StepOK DEF Preserved
<1> QED
  BY <1>1, <1>2, PTL DEF Spec

-----------------------------------------------------------------------------
(* The properties the runs check, for every value of the constants.        *)

\* Every field has its type in every reachable state.
THEOREM TypeCorrect == Spec => []TypeOK
<1>1. IInv => TypeOK
  <2> SUFFICES ASSUME IInv PROVE TypeOK
    OBVIOUS
  <2>1. /\ DOMAIN hdr \subseteq Nat /\ heapblocks \subseteq DOMAIN hdr
        /\ \A b \in DOMAIN hdr : hdr[b] \in Header
        /\ availblocks \in Seq(Blocks) /\ isExec \subseteq heapblocks
        /\ freeing \in Client \cup {NULL} /\ chunks \subseteq ChunkBase
    BY DEF IInv, HeapOK, HOK, HTyped, HAvail, Blocks, Placed
  <2>2. /\ code \in [Client -> Seq(Nat)] /\ DOMAIN range = Client
        /\ \A c \in Client : range[c] \subseteq [start : Nat, end : Nat]
    BY DEF IInv, Holding, HoldingTyped
  <2> QED
    BY <2>1, <2>2 DEF TypeOK
<1> QED
  BY <1>1, InvariantHolds, PTL

\* The neighbour links of CodeList are always inverse to each other and end at
\* the terminator of the chunk: the ABORT_UNLESSes of alloc and free never fire.
THEOREM AlwaysLinked == Spec => []Linked
<1>1. IInv => Linked
  BY DEF IInv, HeapOK, HOK, HUp, HDown, HTerm, HTyped, Linked, LinkedUp, LinkedDown,
         Blocks
<1> QED
  BY <1>1, InvariantHolds, PTL

\* Blocks never overlap, whatever alloc, free and addRemainder split and merge.
THEOREM NeverOverlap == Spec => []NoOverlap
<1>1. IInv => NoOverlap
  BY DEF IInv, HeapOK, HOK, HApart, NoOverlap, Blocks
<1> QED
  BY <1>1, InvariantHolds, PTL

\* No part of a chunk ever drops out of its list of blocks.
THEOREM AlwaysCovered == Spec => []ChunkCovered
<1>1. IInv => ChunkCovered
  <2> SUFFICES ASSUME IInv, NEW b \in Blocks, hdr[b].lower = NULL
               PROVE  b = FirstBlock(hdr[b].terminator)
    BY DEF ChunkCovered
  <2>1. /\ hdr[b].terminator \in heapblocks /\ b \in Nat
        /\ b + BytesPerAlloc = hdr[b].terminator + SizeofMinBlock
    BY DEF IInv, HeapOK, HOK, HUp, HWithin, HTyped, Blocks
  <2>2. PICK m \in chunks : hdr[b].terminator = Terminator(m) /\ m \in ChunkBase
    BY <2>1 DEF IInv, Placed
  <2>3. b = m
    BY <2>1, <2>2, SizesAssumption, ChunkAssumption DEF Terminator
  <2> QED
    BY <2>2, <2>3, FirstBlockOK
<1> QED
  BY <1>1, InvariantHolds, PTL

\* The chunks that reset gives back are exactly those the embedder gave out.
THEOREM ChunksNeverLost == Spec => []ChunksAccounted
<1>1. IInv => ChunksAccounted
  <2> SUFFICES ASSUME IInv PROVE chunks = {FirstBlock(t) : t \in heapblocks}
    BY DEF ChunksAccounted
  <2>1. /\ heapblocks = {Terminator(m) : m \in chunks}
        /\ \A m \in chunks : FirstBlock(Terminator(m)) = m
    BY FirstBlockOK DEF IInv, Placed
  <2> QED
    BY <2>1
<1> QED
  BY <1>1, InvariantHolds, PTL

\* Free neighbours are always merged.
THEOREM AlwaysCoalesced == Spec => []Coalesced
<1>1. IInv => Coalesced
  BY DEF IInv, HeapOK, HCoalesced, Coalesced, Blocks
<1> QED
  BY <1>1, InvariantHolds, PTL

\* A block is on availblocks exactly when it is free and large enough, once.
THEOREM AvailAlwaysExact == Spec => []AvailExact
<1>1. IInv => AvailExact
  BY DEF IInv, HeapOK, HAvail, AvailExact, Blocks, Elements, Distinct, ToSet
<1> QED
  BY <1>1, InvariantHolds, PTL

\* What a client holds stays in use and keeps the extent the client was told,
\* whatever it and the others allocate, free and split.
THEOREM HoldingsStayIntact == Spec => []HoldingsIntact
<1>1. IInv => HoldingsIntact
  <2> SUFFICES ASSUME IInv, NEW c \in Client
               PROVE  /\ \A r \in range[c] : /\ GetBlock(r) \in Blocks
                                             /\ ~hdr[GetBlock(r)].isFree
                                             /\ RangeOf(hdr, GetBlock(r)) = r
                      /\ \A i \in DOMAIN code[c] : /\ code[c][i] \in Blocks
                                                   /\ ~hdr[code[c][i]].isFree
    BY DEF HoldingsIntact
  <2>1. ASSUME NEW r \in range[c]
        PROVE  /\ GetBlock(r) \in Blocks /\ ~hdr[GetBlock(r)].isFree
               /\ RangeOf(hdr, GetBlock(r)) = r
    BY RangeBlock DEF InUse, Blocks, RangeOf
  <2>2. ASSUME NEW i \in DOMAIN code[c]
        PROVE  code[c][i] \in Blocks /\ ~hdr[code[c][i]].isFree
    BY DEF IInv, Holding, ListsRight, Elements, InUse, Blocks
  <2> QED
    BY <2>1, <2>2
<1> QED
  BY <1>1, InvariantHolds, PTL

\* No block is ever held twice.
THEOREM AlwaysOneHolder == Spec => []OneHolder
<1>1. IInv => OneHolder
  <2> SUFFICES ASSUME IInv PROVE OneHolder
    OBVIOUS
  <2>1. ASSUME NEW c \in Client, NEW b, Holds(c, b)
        PROVE  b \in Owned(range, code, c)
    BY <2>1 DEF Holds, Owned, Elements
  <2>2. OwnedOnce(range, code) /\ \A c \in Client : Distinct(code[c])
    BY DEF IInv, Holding, ListsRight
  <2>3. ASSUME NEW c \in Client, NEW d \in Client, NEW b \in Blocks,
               Holds(c, b), Holds(d, b)
        PROVE  c = d
    BY <2>1, <2>2, <2>3 DEF OwnedOnce
  <2>4. ASSUME NEW c \in Client
        PROVE  /\ \A i, j \in DOMAIN code[c] : code[c][i] = code[c][j] => i = j
               /\ \A r \in range[c] : \A i \in DOMAIN code[c] :
                    code[c][i] # GetBlock(r)
    BY <2>2 DEF OwnedOnce, Distinct, Elements
  <2> QED
    BY <2>3, <2>4 DEF OneHolder
<1> QED
  BY <1>1, InvariantHolds, PTL

\* The block list of each chunk is a chain of all its blocks, side by side.
THEOREM AlwaysWellFormed == Spec => []WellFormed
<1>1. Linked /\ NoOverlap /\ ChunkCovered => WellFormed
  BY DEF WellFormed
<1> QED
  BY <1>1, AlwaysLinked, NeverOverlap, AlwaysCovered, PTL

\* The free list and the block list say the same.
THEOREM AvailAlwaysRight == Spec => []AvailRight
<1>1. Coalesced /\ AvailExact => AvailRight
  BY DEF AvailRight
<1> QED
  BY <1>1, AlwaysCoalesced, AvailAlwaysExact, PTL

\* What clients hold stays theirs, whole and once.
THEOREM HoldingsAlwaysSound == Spec => []HoldingsSound
<1>1. HoldingsIntact /\ OneHolder => HoldingsSound
  BY DEF HoldingsSound
<1> QED
  BY <1>1, HoldingsStayIntact, AlwaysOneHolder, PTL

\* Every range alloc returns has room for the largest instruction sequence.
THEOREM RangesAlwaysUsable == Spec => []RangesUsable
<1>1. IInv => RangesUsable
  BY DEF IInv, Holding, RangesRight, RangesUsable
<1> QED
  BY <1>1, InvariantHolds, PTL

\* When no hole is aligned with the end of its range, no block is ever leaked:
\* every block that is not free is held by a client.
THEOREM NothingLost == "right" \notin HoleShapes => (Spec => []NoBlockLost)
<1> SUFFICES ASSUME "right" \notin HoleShapes PROVE Spec => []NoBlockLost
  OBVIOUS
<1> DEFINE Both == IInv /\ AllHeld
<1>1. Init => Both
  BY InitOK
<1>2. Both /\ [Next]_vars => Both'
  BY StepOK DEF Preserved
<1>3. Both => NoBlockLost
  <2> SUFFICES ASSUME IInv, AllHeld, NEW b \in Blocks, ~hdr[b].isFree
               PROVE  \E c \in Client : Holds(c, b)
    BY DEF NoBlockLost
  <2>1. PICK c \in Client : b \in Owned(range, code, c)
    BY DEF AllHeld, InUse, Blocks, AllOwned
  <2>2. Holds(c, b)
    BY <2>1 DEF Owned, Elements, Holds
  <2> QED
    BY <2>2
<1> HIDE DEF Both
<1> QED
  BY <1>1, <1>2, <1>3, PTL DEF Spec

-----------------------------------------------------------------------------
(* Multiples of n.                                                         *)

\* The sum and the difference of multiples are multiples.
LEMMA MultipleSum ==
  ASSUME NEW n \in Nat \ {0}, NEW a \in Int, NEW b \in Int, a % n = 0, b % n = 0
  PROVE  (a + b) % n = 0 /\ (a - b) % n = 0
<1>1. /\ a = n * (a \div n) /\ a \div n \in Int
      /\ b = n * (b \div n) /\ b \div n \in Int
  BY DivMod
<1>2. ASSUME NEW p \in Int, NEW q \in Int, a = n * p, b = n * q
      PROVE  (a + b) % n = 0 /\ (a - b) % n = 0
  <2>1. a + b = n * (p + q) + 0 /\ a - b = n * (p - q) + 0
    BY <1>2
  <2>2. (n * (p + q) + 0) % n = 0 /\ (n * (p - q) + 0) % n = 0
    BY ModUnique
  <2> QED
    BY <2>1, <2>2
<1> QED
  BY <1>1, <1>2

\* alignUp leaves a multiple alone, and a mask leaves a multiple.
LEMMA MultipleAlign ==
  ASSUME NEW n \in Nat \ {0}, NEW a \in Nat
  PROVE  /\ a % n = 0 => AlignUp(a, n) = a
         /\ AlignDown(a, n) % n = 0
<1>1. a = n * (a \div n) + (a % n) /\ a \div n \in Int /\ a % n \in 0 .. n - 1
  BY DivMod
<1>2. ASSUME NEW q \in Int, NEW r \in 0 .. n - 1, a = n * q + r, r = a % n
      PROVE  /\ r = 0 => AlignUp(a, n) = a
             /\ AlignDown(a, n) % n = 0
  <2>1. ASSUME r = 0
        PROVE  AlignUp(a, n) = a
    <3>1. a + n - 1 = n * q + (n - 1)
      BY <1>2, <2>1
    <3>2. (n * q + (n - 1)) % n = n - 1
      BY ModUnique
    <3>3. (a + n - 1) % n = n - 1
      BY <3>1, <3>2
    <3>4. AlignUp(a, n) = (a + n - 1) - ((a + n - 1) % n)
      BY DEF AlignUp, AlignDown
    <3> QED
      BY <3>3, <3>4
  <2>2. a - (a % n) = n * q + 0
    BY <1>2
  <2>3. (n * q + 0) % n = 0
    BY ModUnique
  <2> QED
    BY <2>1, <2>2, <2>3 DEF AlignDown
<1> QED
  BY <1>1, <1>2

-----------------------------------------------------------------------------
(* Sizes of free blocks.                                                   *)

\* The blocks S stay in use, where they are and as large as they are.
Steady(S) ==
  \A x \in S : /\ x \in InUse(hdr', heapblocks')
               /\ hdr'[x].higher = hdr[x].higher
               /\ hdr'[x].terminator = hdr[x].terminator

\* Free blocks have room for K bytes.
FreeRoom(H, T, K) == \A b \in DOMAIN H \ T : H[b].isFree => Size(H, b) >= K

LEMMA SomeRoom ==
  ASSUME NEW H, NEW T, HOK(H, T)
  PROVE  FreeRoom(H, T, 0)
BY SizesAssumption DEF HOK, HTyped, HUp, FreeRoom, Size, Start

\* A merge makes no block smaller.
LEMMA AbsorbGrows ==
  ASSUME NEW H, NEW T, HOK(H, T), NEW b \in DOMAIN H \ T, NEW A, Absorbed(A, H, T, b)
  PROVE  \A x \in DOMAIN A \ T : Size(A, x) >= Size(H, x)
<1> USE SizesAssumption
<1>1. DOMAIN H \subseteq Nat /\ \A x \in DOMAIN H \ T : H[x].higher \in DOMAIN H
  BY DEF HOK, HTyped, HUp
<1>2. H[H[b].higher].higher > H[b].higher /\ H[H[b].higher].higher \in Nat
  BY <1>1 DEF Absorbed, HOK, HUp, HTyped, Start
<1>3. ASSUME NEW x \in DOMAIN A \ T
      PROVE  Size(A, x) >= Size(H, x)
  BY <1>1, <1>2, <1>3 DEF Absorbed, Size, Start
<1> QED
  BY <1>3

\* free leaves free what was free, or merges it into a larger block.
LEMMA FreedGrows ==
  ASSUME NEW H, NEW T, NEW s, HOK(H, T),
         NEW b \in InUse(H, T), NEW r, r = Freed([hdr |-> H, avail |-> s], b)
  PROVE  /\ DOMAIN r.hdr \subseteq DOMAIN H
         /\ \A x \in DOMAIN r.hdr \ T :
              /\ Size(r.hdr, x) >= Size(H, x)
              /\ r.hdr[x].isFree => H[x].isFree \/ x = b
<1> DEFINE lower     == H[b].lower
           mergeLow  == lower # NULL /\ H[lower].isFree
           blk       == IF mergeLow THEN lower ELSE b
           H1        == IF mergeLow THEN Absorb(H, lower) ELSE H
           higher    == H1[blk].higher
           mergeHigh == H1[higher].isFree
           H2        == IF mergeHigh THEN Absorb(H1, blk) ELSE H1
           H3        == SetFree(H2, blk, TRUE)
<1>1. b \in DOMAIN H \ T /\ ~H[b].isFree
  BY SMTT(30) DEF InUse
<1>2. r.hdr = H3
  BY DEF Freed
<1> DEFINE Grows(J, G) ==
      /\ HOK(J, T) /\ DOMAIN J \subseteq DOMAIN G
      /\ \A x \in DOMAIN J : J[x].isFree = G[x].isFree
      /\ \A x \in DOMAIN J \ T : Size(J, x) >= Size(G, x) /\ Size(J, x) \in Int
<1>3. ASSUME NEW J, HOK(J, T)
      PROVE  \A x \in DOMAIN J \ T : Size(J, x) \in Int
  BY <1>3, SizesAssumption DEF HOK, HTyped, HUp, Size, Start
<1>4. ASSUME NEW G, NEW d \in DOMAIN G \ T, HOK(G, T), G[d].higher \notin T
      PROVE  Grows(Absorb(G, d), G) /\ d \in DOMAIN Absorb(G, d)
  <2>1. PICK A : A = Absorb(G, d)
    OBVIOUS
  <2>2. Absorbed(A, G, T, d)
    BY <1>4, <2>1, AbsorbOK
  <2>3. HOK(A, T) /\ \A x \in DOMAIN A \ T : Size(A, x) >= Size(G, x)
    BY <1>4, <2>2, AbsorbGrows DEF Absorbed
  <2> QED
    BY <1>3, <2>1, <2>2, <2>3 DEF Absorbed
<1>5. Grows(H1, H) /\ blk \in DOMAIN H1 \ T /\ (blk = b \/ H[blk].isFree)
  <2>1. CASE mergeLow
    <3>1. lower \in DOMAIN H \ T /\ H[lower].higher = b
      BY <2>1, <1>1 DEF HOK, HDown
    <3> QED
      BY <1>1, <1>4, <2>1, <3>1
  <2>2. CASE ~mergeLow
    <3>1. \A x \in DOMAIN H \ T : Size(H, x) \in Int
      BY <1>3
    <3> QED
      BY <1>1, <2>2, <3>1
  <2> QED
    BY <2>1, <2>2
<1> HIDE DEF H1, blk
<1>6. Grows(H2, H1) /\ blk \in DOMAIN H2 \ T
  <2>1. CASE mergeHigh
    <3>1. higher \notin T
      BY <1>5, <2>1 DEF HOK, HTerm
    <3> QED
      BY <1>4, <1>5, <2>1, <3>1
  <2>2. CASE ~mergeHigh
    <3>1. \A x \in DOMAIN H1 \ T : Size(H1, x) \in Int
      BY <1>3, <1>5
    <3> QED
      BY <1>5, <2>2, <3>1
  <2> QED
    BY <2>1, <2>2
<1> HIDE DEF H2
<1>7. /\ DOMAIN H3 = DOMAIN H2
      /\ \A x \in DOMAIN H3 \ T : /\ Size(H3, x) = Size(H2, x)
                                  /\ H3[x].isFree => x = blk \/ H2[x].isFree
  <2>1. FreeSet(H3, H2, T, blk, TRUE)
    BY <1>6, SetFreeOK
  <2> QED
    BY <2>1 DEF FreeSet, Size
<1> HIDE DEF H3
<1>8. \A x \in DOMAIN H3 \ T : Size(H3, x) >= Size(H, x)
  <2> TAKE x \in DOMAIN H3 \ T
  <2>1. Size(H, x) \in Int
    BY <1>3, <1>5, <1>6, <1>7
  <2> QED
    BY <2>1, <1>5, <1>6, <1>7
<1> QED
  BY <1>2, <1>5, <1>6, <1>7, <1>8

-----------------------------------------------------------------------------
(* alloc without a limit.                                                  *)

\* A range r that no block in use was, for client c, of at least K bytes.
Taken(c, r, K) ==
  /\ r \in [start : Nat, end : Nat] /\ r \notin range[c]
  /\ GetBlock(r) \in InUse(hdr', heapblocks') \ InUse(hdr, heapblocks)
  /\ range' = [range EXCEPT ![c] = @ \cup {r}]
  /\ isExec' = isExec \ {hdr'[GetBlock(r)].terminator}
  /\ r.end - r.start >= K

\* What alloc does once there is an available block: the first is taken whole.
LEMMA CarveWhole ==
  ASSUME NEW H, NEW T, NEW s, HeapOK(H, T, s), s # <<>>, NEW c \in Client,
         Carve([hdr |-> H, avail |-> s], c, 0)
  PROVE  LET b == Head(s) IN
         /\ b \in DOMAIN H \ T /\ H[b].isFree
         /\ FreeSet(hdr', H, T, b, FALSE) /\ hdr' = SetFree(H, b, FALSE)
         /\ isExec' = isExec \ {H[b].terminator}
         /\ range' = [range EXCEPT ![c] = @ \cup {RangeOf(hdr', b)}]
<1> DEFINE b == Head(s)
<1>1. b \in DOMAIN H \ T /\ H[b].isFree
  <2>1. b \in Elements(s)
    BY TailOK DEF HeapOK, HAvail
  <2> QED
    BY <2>1 DEF HeapOK, HAvail, Available
<1>2. /\ hdr' = SetFree(H, b, FALSE)
      /\ isExec' = isExec \ {H[b].terminator}
      /\ range' = [range EXCEPT ![c] = @ \cup {RangeOf(SetFree(H, b, FALSE), b)}]
  BY DEF Carve
<1> HIDE DEF b
<1>3. FreeSet(SetFree(H, b, FALSE), H, T, b, FALSE)
  BY <1>1, SetFreeOK DEF HeapOK
<1> QED
  BY <1>1, <1>2, <1>3 DEF b

LEMMA CarveTakes ==
  ASSUME IInv, NEW H, NEW s, HeapOK(H, heapblocks', s), s # <<>>, NEW c \in Client,
         Carve([hdr |-> H, avail |-> s], c, 0),
         NEW K \in Nat, FreeRoom(H, heapblocks', K),
         InUse(H, heapblocks') = InUse(hdr, heapblocks),
         \A x \in DOMAIN hdr : H[x] = hdr[x]
  PROVE  /\ Steady(InUse(hdr, heapblocks)) /\ FreeRoom(hdr', heapblocks', K)
         /\ DOMAIN hdr' = DOMAIN H
         /\ \E r : Taken(c, r, K)
<1> USE SizesAssumption
<1>1. PICK b : b = Head(s)
  OBVIOUS
<1>2. /\ b \in DOMAIN H \ heapblocks' /\ H[b].isFree
      /\ FreeSet(hdr', H, heapblocks', b, FALSE)
      /\ isExec' = isExec \ {H[b].terminator}
      /\ range' = [range EXCEPT ![c] = @ \cup {RangeOf(hdr', b)}]
  BY <1>1, CarveWhole
<1>3. /\ DOMAIN hdr' = DOMAIN H /\ ~hdr'[b].isFree
      /\ \A x \in DOMAIN H : /\ hdr'[x].higher = H[x].higher
                             /\ hdr'[x].terminator = H[x].terminator
                             /\ x # b => hdr'[x].isFree = H[x].isFree
  BY <1>2 DEF FreeSet
<1>4. InUse(hdr', heapblocks') = InUse(hdr, heapblocks) \cup {b}
      /\ b \notin InUse(hdr, heapblocks)
  BY <1>2, <1>3 DEF InUse
<1>5. Steady(InUse(hdr, heapblocks))
  BY <1>3, <1>4 DEF Steady, InUse
<1>6. FreeRoom(hdr', heapblocks', K)
  BY <1>3 DEF FreeRoom, Size
<1>7. b \in Nat /\ H[b].higher \in Nat /\ H[b].higher > Start(b)
      /\ H[b].higher - Start(b) >= K
  BY <1>2 DEF HeapOK, HOK, HTyped, HUp, FreeRoom, Size
<1> DEFINE r == RangeOf(hdr', b)
<1>8. r = [start |-> Start(b), end |-> H[b].higher]
  BY <1>2, <1>3 DEF RangeOf
<1>9. /\ r \in [start : Nat, end : Nat] /\ GetBlock(r) = b
      /\ r.end - r.start >= K
  BY <1>7, <1>8 DEF GetBlock, Start
<1> HIDE DEF r
<1>10. r \notin range[c]
  BY <1>4, <1>9, RangeBlock
<1>11. Taken(c, r, K)
  BY <1>2, <1>3, <1>4, <1>9, <1>10 DEF Taken, r
<1> QED
  BY <1>3, <1>5, <1>6, <1>11

\* alloc with no limit returns a whole block no one held, and makes its chunk
\* writable; what others hold is left alone.
LEMMA AllocStep ==
  ASSUME IInv, 0 \in ByteLimits, NEW c \in Client, NEW K \in Nat,
         K <= BytesPerAlloc - HeaderSpaceFor(2), FreeRoom(hdr, heapblocks, K),
         AllocReuse(c, 0) \/ \E m \in ChunkBase : AllocNewChunk(c, 0, m)
  PROVE  /\ Kept /\ Steady(InUse(hdr, heapblocks)) /\ FreeRoom(hdr', heapblocks', K)
         /\ code' = code /\ freeing = NULL /\ freeing' = NULL
         /\ \E r : Taken(c, r, K)
         /\ \A x \in DOMAIN hdr' :
              x \in DOMAIN hdr \/ \E m \in ChunkBase : x \in {m, Terminator(m)}
<1>1. CASE AllocReuse(c, 0)
  <2>1. HeapOK(hdr, heapblocks, availblocks)
    BY DEF IInv
  <2>2. /\ availblocks # <<>> /\ Carve([hdr |-> hdr, avail |-> availblocks], c, 0)
        /\ UNCHANGED <<heapblocks, code, freeing, chunks>> /\ freeing = NULL
    BY <1>1 DEF AllocReuse, Heap
  <2> QED
    BY <1>1, <2>1, <2>2, AllocReuseOK, CarveTakes
<1>2. ASSUME NEW m \in ChunkBase, AllocNewChunk(c, 0, m)
      PROVE  /\ Kept /\ Steady(InUse(hdr, heapblocks)) /\ FreeRoom(hdr', heapblocks', K)
             /\ code' = code /\ freeing = NULL /\ freeing' = NULL
             /\ \E r : Taken(c, r, K)
             /\ \A x \in DOMAIN hdr' : x \in DOMAIN hdr \/ x \in {m, Terminator(m)}
  <2>1. PICK A : A = AddMem(hdr, m)
    OBVIOUS
  <2>2. /\ availblocks = <<>> /\ m \in ChunkBase \ chunks /\ freeing = NULL
        /\ heapblocks' = heapblocks \cup {Terminator(m)}
        /\ Carve([hdr |-> A, avail |-> <<m>>], c, 0)
        /\ UNCHANGED <<code, freeing>>
    BY <1>2, <2>1 DEF AllocNewChunk
  <2>3. /\ HOK(hdr, heapblocks) /\ HCoalesced(hdr, heapblocks)
        /\ HAvail(hdr, heapblocks, <<>>) /\ Placed(heapblocks, chunks)
    BY <2>2 DEF IInv, HeapOK
  <2>4. Grown(A, heapblocks', hdr, heapblocks, chunks, m)
    BY <2>1, <2>2, <2>3, AddMemOK
  <2>5. /\ HeapOK(A, heapblocks', <<m>>)
        /\ InUse(A, heapblocks') = InUse(hdr, heapblocks)
        /\ \A x \in DOMAIN hdr : A[x] = hdr[x]
    BY <2>4 DEF Grown, HeapOK
  <2>6. DOMAIN A = DOMAIN hdr \cup {m, Terminator(m)}
    BY <2>1 DEF AddMem
  <2>7. FreeRoom(A, heapblocks', K)
    <3>1. m \in Nat /\ Terminator(m) # m
      BY ChunkAssumption, SizesAssumption DEF Terminator
    <3>2. A[m].higher = Terminator(m)
      BY <2>1, <3>1 DEF AddMem
    <3>3. Size(A, m) >= K
      BY <3>1, <3>2, SizesAssumption
         DEF Size, Start, Terminator, HeaderSpaceFor
    <3> QED
      BY <2>2, <2>5, <2>6, <3>3 DEF FreeRoom, Size
  <2>8. <<m>> # <<>>
    OBVIOUS
  <2>9. Kept
    BY <1>2, AllocNewChunkOK
  <2> QED
    BY <2>2, <2>5, <2>6, <2>7, <2>8, <2>9, CarveTakes
<1> QED
  BY <1>1, <1>2

-----------------------------------------------------------------------------
(* free, freeAll and addRemainder.                                         *)

\* Freeing block b of a heap with headers H and available blocks s.
LEMMA FreedStep ==
  ASSUME NEW H, NEW T, NEW s, HeapOK(H, T, s), NEW b \in InUse(H, T),
         NEW f, f = Freed([hdr |-> H, avail |-> s], b)
  PROVE  /\ \A x \in InUse(H, T) \ {b} : /\ x \in InUse(f.hdr, T)
                                         /\ f.hdr[x].higher = H[x].higher
                                         /\ f.hdr[x].terminator = H[x].terminator
         /\ DOMAIN f.hdr \subseteq DOMAIN H
         /\ \A K \in Nat : FreeRoom(H, T, K) /\ Size(H, b) >= K
                             => FreeRoom(f.hdr, T, K)
<1>1. /\ HOK(f.hdr, T) /\ InUse(f.hdr, T) = InUse(H, T) \ {b}
      /\ \A x \in InUse(H, T) \ {b} : /\ f.hdr[x].higher = H[x].higher
                                      /\ f.hdr[x].terminator = H[x].terminator
  BY FreedOK DEF HeapOK
<1>2. /\ DOMAIN f.hdr \subseteq DOMAIN H
      /\ \A x \in DOMAIN f.hdr \ T : /\ Size(f.hdr, x) >= Size(H, x)
                                     /\ f.hdr[x].isFree => H[x].isFree \/ x = b
  BY FreedGrows DEF HeapOK
<1>3. /\ \A x \in DOMAIN H \ T : Size(H, x) \in Int
      /\ \A x \in DOMAIN f.hdr \ T : Size(f.hdr, x) \in Int
  BY <1>1, SizesAssumption DEF HeapOK, HOK, HTyped, HUp, Size, Start
<1>4. ASSUME NEW K \in Nat, FreeRoom(H, T, K), Size(H, b) >= K,
             NEW x \in DOMAIN f.hdr \ T, f.hdr[x].isFree
      PROVE  Size(f.hdr, x) >= K
  <2>1. x \in DOMAIN H \ T /\ (H[x].isFree \/ x = b)
    BY <1>2, <1>4
  <2>2. Size(H, x) >= K
    BY <1>4, <2>1 DEF FreeRoom
  <2> QED
    BY <1>2, <1>3, <1>4, <2>1, <2>2
<1> QED
  BY <1>1, <1>2, <1>4 DEF FreeRoom

\* The size of the block of a range is that of the range.
LEMMA RangeSize ==
  ASSUME IInv, NEW c \in Client, NEW r \in range[c]
  PROVE  Size(hdr, GetBlock(r)) = r.end - r.start
BY RangeBlock DEF Size

LEMMA FreeStep ==
  ASSUME IInv, NEW c \in Client, NEW r \in range[c], Free(c, r),
         NEW K \in Nat, FreeRoom(hdr, heapblocks, K), r.end - r.start >= K
  PROVE  /\ Kept /\ Steady(InUse(hdr, heapblocks) \ {GetBlock(r)})
         /\ FreeRoom(hdr', heapblocks', K) /\ DOMAIN hdr' \subseteq DOMAIN hdr
<1> DEFINE b == GetBlock(r)
           f == Freed([hdr |-> hdr, avail |-> availblocks], b)
<1>1. hdr' = f.hdr /\ heapblocks' = heapblocks
  BY DEF Free, SetHeap, Heap
<1>2. HeapOK(hdr, heapblocks, availblocks) /\ b \in InUse(hdr, heapblocks)
  BY RangeBlock DEF IInv
<1>3. Size(hdr, b) >= K
  BY RangeSize
<1> f = Freed([hdr |-> hdr, avail |-> availblocks], b)
  OBVIOUS
<1> HIDE DEF f
<1>4. /\ \A x \in InUse(hdr, heapblocks) \ {b} :
           /\ x \in InUse(f.hdr, heapblocks)
           /\ f.hdr[x].higher = hdr[x].higher
           /\ f.hdr[x].terminator = hdr[x].terminator
      /\ DOMAIN f.hdr \subseteq DOMAIN hdr /\ FreeRoom(f.hdr, heapblocks, K)
  BY <1>2, <1>3, FreedStep
<1> QED
  BY <1>1, <1>4, FreeOK DEF Steady

LEMMA FreeAllStepStep ==
  ASSUME IInv, NEW c \in Client, FreeAllStep(c),
         NEW K \in Nat, FreeRoom(hdr, heapblocks, K), Size(hdr, Head(code[c])) >= K
  PROVE  /\ Kept /\ Steady(InUse(hdr, heapblocks) \ {Head(code[c])})
         /\ Head(code[c]) \in Elements(code[c])
         /\ Elements(code'[c]) = Elements(code[c]) \ {Head(code[c])}
         /\ FreeRoom(hdr', heapblocks', K) /\ DOMAIN hdr' \subseteq DOMAIN hdr
<1> DEFINE b == Head(code[c])
           f == Freed([hdr |-> hdr, avail |-> availblocks], b)
<1>1. /\ hdr' = f.hdr /\ heapblocks' = heapblocks
      /\ code[c] # <<>> /\ code' = [code EXCEPT ![c] = Tail(@)]
  BY DEF FreeAllStep, SetHeap, Heap
<1>2. /\ code \in [Client -> Seq(Nat)] /\ Distinct(code[c])
      /\ Elements(code[c]) \subseteq InUse(hdr, heapblocks)
  BY DEF IInv, Holding, HoldingTyped, ListsRight
<1>3. b \in Elements(code[c]) /\ Elements(Tail(code[c])) = Elements(code[c]) \ {b}
  BY <1>1, <1>2, TailOK
<1>4. HeapOK(hdr, heapblocks, availblocks) /\ b \in InUse(hdr, heapblocks)
  BY <1>2, <1>3 DEF IInv
<1> f = Freed([hdr |-> hdr, avail |-> availblocks], b)
  OBVIOUS
<1> HIDE DEF f
<1>5. /\ \A x \in InUse(hdr, heapblocks) \ {b} :
           /\ x \in InUse(f.hdr, heapblocks)
           /\ f.hdr[x].higher = hdr[x].higher
           /\ f.hdr[x].terminator = hdr[x].terminator
      /\ DOMAIN f.hdr \subseteq DOMAIN hdr /\ FreeRoom(f.hdr, heapblocks, K)
  BY <1>4, FreedStep
<1> QED
  BY <1>1, <1>2, <1>3, <1>5, FreeAllStepOK DEF Steady

\* addRemainder with a hole from the start of an aligned range to short of its
\* end: the block is kept, or cut at n and its lower part freed.
CutAt(c, b, n) ==
  /\ n \in Nat /\ Start(b) < n /\ Start(n) < hdr[b].higher /\ n % PtrSize = 0
  /\ n - Start(b) >= HeaderSpaceFor(2) + MinAllocSize
  /\ SetHeap(Freed([hdr |-> Split(hdr, b, n), avail |-> availblocks], b))
  /\ code' = [code EXCEPT ![c] = <<n>> \o @]

LEMMA RemainderCases ==
  ASSUME IInv, NEW c \in Client, NEW r \in range[c], NEW e \in r.start .. r.end,
         e < r.end, AddRemainder(c, r, r.start, e),
         r.start % PtrSize = 0, SizeofMinBlock % PtrSize = 0
  PROVE  \/ KeepWhole(c, r)
         \/ \E n : CutAt(c, GetBlock(r), n)
<1> DEFINE hole == Hole(r.start, e)
           b    == GetBlock(r)
<1> USE SizesAssumption
<1>1. /\ r.start \in Nat /\ r.end \in Nat /\ e \in Nat
      /\ Start(b) = r.start /\ hdr[b].higher = r.end
  BY RangeBlock
<1>2. hole.from = r.start /\ hole.to % PtrSize = 0
  BY <1>1, MultipleAlign DEF Hole
<1>3. PICK h : h = Hole(r.start, e)
  OBVIOUS
<1>4. CASE BigHole(hole)
  <2>1. /\ h.to \in Nat /\ h.from = r.start /\ h.to <= e
        /\ h.to >= h.from + 3 * SizeofMinBlock + MinAllocSize
    <3>1. BigHole(h) /\ r.start <= r.start /\ e <= r.end
      BY <1>1, <1>3, <1>4
    <3> QED
      BY <1>1, <1>2, <1>3, <3>1, HoleOK
  <2>2. HoleShape(r, hole) = "left" /\ hole.to # r.end
    BY <1>1, <1>2, <1>3, <2>1 DEF HoleShape
  <2>3. FreeLowerPart(c, r, hole)
    BY <1>4, <2>2 DEF AddRemainder
  <2>4. PICK n : n = hole.to - SizeofMinBlock
    OBVIOUS
  <2>5. n % PtrSize = 0
    <3>1. hole.to \in Nat
      BY <1>3, <2>1
    <3> QED
      BY <1>2, <2>4, <3>1, MultipleSum
  <2>6. /\ n \in Nat /\ Start(b) < n /\ Start(n) < hdr[b].higher
        /\ n - Start(b) >= HeaderSpaceFor(2) + MinAllocSize
    BY <1>1, <1>3, <2>1, <2>4 DEF Start, HeaderSpaceFor
  <2>7. /\ SetHeap(Freed([hdr |-> Split(hdr, b, n), avail |-> availblocks], b))
        /\ code' = [code EXCEPT ![c] = <<n>> \o @]
    BY <2>3, <2>4 DEF FreeLowerPart, Heap
  <2>8. CutAt(c, b, n)
    BY <2>5, <2>6, <2>7 DEF CutAt
  <2> QED
    BY <2>8
<1>5. CASE ~BigHole(hole)
  BY <1>5 DEF AddRemainder
<1> QED
  BY <1>4, <1>5

\* Cutting a block in use in two leaves a heap with both parts in use.
LEMMA CutUsed ==
  ASSUME NEW H, NEW T, NEW s, HeapOK(H, T, s), NEW b \in InUse(H, T),
         NEW n \in Nat, Start(b) < n, Start(n) < H[b].higher,
         NEW S, S = Split(H, b, n)
  PROVE  /\ HeapOK(S, T, s) /\ CutInTwo(S, H, T, b, n)
         /\ InUse(S, T) = InUse(H, T) \cup {n}
<1>1. b \in DOMAIN H \ T
  BY DEF InUse
<1>2. CutInTwo(S, H, T, b, n)
  BY <1>1, SplitOK DEF HeapOK
<1>3. /\ HCoalesced(S, T) /\ HAvail(S, T, s)
      /\ InUse(S, T) = InUse(H, T) \cup {n}
  BY <1>2, SplitUsedOK DEF HeapOK
<1> QED
  BY <1>2, <1>3 DEF HeapOK, CutInTwo

\* A cut leaves a heap with the upper part n of b in use.
LEMMA CutHeap ==
  ASSUME IInv, NEW c \in Client, NEW b \in InUse(hdr, heapblocks), NEW n, CutAt(c, b, n),
         NEW S, S = Split(hdr, b, n)
  PROVE  /\ HeapOK(S, heapblocks, availblocks) /\ CutInTwo(S, hdr, heapblocks, b, n)
         /\ InUse(S, heapblocks) = InUse(hdr, heapblocks) \cup {n}
BY CutUsed DEF CutAt, IInv

\* Some block of the range stays on the list, the hole is large enough, and no
\* other block is touched.
LEMMA RemainderStep ==
  ASSUME IInv, NEW c \in Client, NEW r \in range[c], NEW e \in r.start .. r.end,
         e < r.end, AddRemainder(c, r, r.start, e),
         r.start % PtrSize = 0, SizeofMinBlock % PtrSize = 0,
         NEW K \in Nat, K <= HeaderSpaceFor(2) + MinAllocSize,
         FreeRoom(hdr, heapblocks, K)
  PROVE  /\ Kept /\ Steady(InUse(hdr, heapblocks) \ {GetBlock(r)})
         /\ FreeRoom(hdr', heapblocks', K)
         /\ \E b : /\ b \in InUse(hdr', heapblocks')
                   /\ code' = [code EXCEPT ![c] = <<b>> \o @]
                   /\ hdr'[b].terminator = hdr[GetBlock(r)].terminator
                   /\ DOMAIN hdr' \subseteq DOMAIN hdr \cup {b}
                   /\ b \in DOMAIN hdr \/ b % PtrSize = 0
<1> USE SizesAssumption
<1>1. PICK b1 : b1 = GetBlock(r)
  OBVIOUS
<1>2. b1 \in InUse(hdr, heapblocks) /\ b1 \in Nat /\ r.start \in r.start .. r.end
  BY <1>1, RangeBlock
<1>3. Kept /\ heapblocks' = heapblocks
  BY <1>2, AddRemainderOK DEF AddRemainder
<1>4. CASE KeepWhole(c, r)
  <2>1. code' = [code EXCEPT ![c] = <<b1>> \o @] /\ UNCHANGED <<hdr, availblocks>>
    BY <1>1, <1>4 DEF KeepWhole
  <2> QED
    BY <1>1, <1>2, <1>3, <2>1 DEF Steady, InUse
<1>5. ASSUME NEW b2, CutAt(c, b1, b2)
      PROVE  /\ Steady(InUse(hdr, heapblocks) \ {b1})
             /\ FreeRoom(hdr', heapblocks', K)
             /\ \E b : /\ b \in InUse(hdr', heapblocks')
                       /\ code' = [code EXCEPT ![c] = <<b>> \o @]
                       /\ hdr'[b].terminator = hdr[b1].terminator
                       /\ DOMAIN hdr' \subseteq DOMAIN hdr \cup {b}
                       /\ b \in DOMAIN hdr \/ b % PtrSize = 0
  <2>1. PICK S : S = Split(hdr, b1, b2)
    OBVIOUS
  <2>2. PICK f : f = Freed([hdr |-> S, avail |-> availblocks], b1)
    OBVIOUS
  <2>3. /\ hdr' = f.hdr /\ code' = [code EXCEPT ![c] = <<b2>> \o @]
        /\ b2 \in Nat /\ b2 % PtrSize = 0 /\ b2 - Start(b1) >= K
    BY <1>2, <1>5, <2>1, <2>2 DEF CutAt, SetHeap, Start, HeaderSpaceFor
  <2>4. /\ HeapOK(S, heapblocks, availblocks) /\ CutInTwo(S, hdr, heapblocks, b1, b2)
        /\ InUse(S, heapblocks) = InUse(hdr, heapblocks) \cup {b2}
    BY <1>2, <1>5, <2>1, CutHeap
  <2>5. /\ \A x \in InUse(hdr, heapblocks) \ {b1} :
             S[x].higher = hdr[x].higher /\ S[x].terminator = hdr[x].terminator
        /\ S[b2].terminator = hdr[b1].terminator
        /\ DOMAIN S = DOMAIN hdr \cup {b2} /\ b2 # b1
        /\ Size(S, b1) >= K
    BY <1>2, <2>3, <2>4 DEF CutInTwo, InUse, Size
  <2>6. FreeRoom(S, heapblocks, K)
    <3>1. ASSUME NEW x \in DOMAIN S \ heapblocks, S[x].isFree
          PROVE  Size(S, x) >= K
      <4>1. x \in DOMAIN hdr \ heapblocks /\ hdr[x].isFree /\ x # b1
        BY <1>2, <2>4, <3>1 DEF CutInTwo, InUse
      <4>2. Size(hdr, x) >= K
        BY <4>1 DEF FreeRoom
      <4> QED
        BY <2>4, <4>1, <4>2 DEF CutInTwo, Size
    <3> QED
      BY <3>1 DEF FreeRoom
  <2>7. /\ \A x \in InUse(S, heapblocks) \ {b1} :
              /\ x \in InUse(f.hdr, heapblocks)
              /\ f.hdr[x].higher = S[x].higher
              /\ f.hdr[x].terminator = S[x].terminator
         /\ DOMAIN f.hdr \subseteq DOMAIN S
         /\ FreeRoom(f.hdr, heapblocks, K)
    BY <1>2, <2>2, <2>4, <2>5, <2>6, FreedStep
  <2>8. /\ b2 \in InUse(hdr', heapblocks')
        /\ hdr'[b2].terminator = hdr[b1].terminator
        /\ DOMAIN hdr' \subseteq DOMAIN hdr \cup {b2}
    BY <1>3, <2>3, <2>4, <2>5, <2>7
  <2>9. Steady(InUse(hdr, heapblocks) \ {b1}) /\ FreeRoom(hdr', heapblocks', K)
    BY <1>3, <2>3, <2>4, <2>5, <2>7 DEF Steady
  <2> QED
    BY <2>3, <2>8, <2>9
<1>6. KeepWhole(c, r) \/ \E n : CutAt(c, b1, n)
  BY <1>1, RemainderCases
<1> QED
  BY <1>1, <1>3, <1>4, <1>5, <1>6

-----------------------------------------------------------------------------
(* Which headers an operation writes to, as long as every free block is    *)
(* the first of its chunk: then free merges nothing and unlinks nothing.   *)

Lowest(H, T) == \A b \in DOMAIN H \ T : H[b].isFree => H[b].lower = NULL

\* Headers are written in chunk t only, links of lists included.
OnlyWrites(t) ==
  \A x \in DOMAIN hdr' :
    ChunkOf(hdr', x) # t =>
      /\ x \in DOMAIN hdr /\ hdr'[x] = hdr[x]
      /\ Successor(availblocks', code', x) = Successor(availblocks, code, x)

\* What is the first block of a chunk stays so.
StaysLowest ==
  /\ Lowest(hdr', heapblocks')
  /\ \A x \in DOMAIN hdr \cap DOMAIN hdr' : hdr[x].lower = NULL => hdr'[x].lower = NULL

\* Putting a on a list changes no link but its own.
LEMMA AfterCons ==
  ASSUME NEW S, NEW s \in Seq(S), NEW a \in S, NEW x, x # a
  PROVE  After(<<a>> \o s, x) = After(s, x)
<1> DEFINE u == <<a>> \o s
<1>1. /\ Len(u) = Len(s) + 1 /\ Len(s) \in Nat /\ u[1] = a
      /\ \A i \in 2 .. Len(s) + 1 : u[i] = s[i - 1]
  OBVIOUS
<1> HIDE DEF u
<1>2. ASSUME NEW i \in 1 .. Len(u) - 1, u[i] = x
      PROVE  i - 1 \in 1 .. Len(s) - 1 /\ s[i - 1] = x /\ u[i + 1] = s[i - 1 + 1]
  BY <1>1, <1>2
<1>3. ASSUME NEW k \in 1 .. Len(s) - 1, s[k] = x
      PROVE  k + 1 \in 1 .. Len(u) - 1 /\ u[k + 1] = x /\ u[k + 1 + 1] = s[k + 1]
  BY <1>1, <1>3
<1>4. After(u, x) \subseteq After(s, x)
  <2> SUFFICES ASSUME NEW i \in 1 .. Len(u) - 1, u[i] = x
               PROVE  \E k \in 1 .. Len(s) - 1 : s[k] = x /\ u[i + 1] = s[k + 1]
    BY DEF After
  <2> QED
    BY <1>2
<1>5. After(s, x) \subseteq After(u, x)
  <2> SUFFICES ASSUME NEW k \in 1 .. Len(s) - 1, s[k] = x
               PROVE  \E i \in 1 .. Len(u) - 1 : u[i] = x /\ s[k + 1] = u[i + 1]
    BY DEF After
  <2> QED
    BY <1>3
<1> QED
  BY <1>4, <1>5 DEF u

LEMMA AfterTail ==
  ASSUME NEW S, NEW s \in Seq(S), s # <<>>, NEW x, x # Head(s)
  PROVE  After(Tail(s), x) = After(s, x)
<1>1. Head(s) \in S /\ Tail(s) \in Seq(S) /\ s = <<Head(s)>> \o Tail(s)
  OBVIOUS
<1>2. PICK a \in S : a = Head(s)
  BY <1>1
<1>3. PICK t \in Seq(S) : t = Tail(s)
  BY <1>1
<1>4. s = <<a>> \o t /\ x # a
  BY <1>1, <1>2, <1>3
<1>5. After(<<a>> \o t, x) = After(t, x)
  BY <1>4, AfterCons
<1> QED
  BY <1>3, <1>4, <1>5

\* The next block of x is the same when x is at the head of no list that a
\* step puts something on or takes something from.
LEMMA SuccessorSame ==
  ASSUME NEW a, NEW e, NEW C, NEW D, NEW x, After(e, x) = After(a, x),
         \A d \in Client : After(D[d], x) = After(C[d], x)
  PROVE  Successor(e, D, x) = Successor(a, C, x)
<1>1. UNION {After(D[d], x) : d \in Client} = UNION {After(C[d], x) : d \in Client}
  OBVIOUS
<1> QED
  BY <1>1 DEF Successor

LEMMA PlainFreed ==
  ASSUME NEW g, NEW T, HeapOK(g.hdr, T, g.avail), Lowest(g.hdr, T),
         NEW b, b \in InUse(g.hdr, T), g.hdr[b].lower = NULL,
         NEW f, f = Freed(g, b)
  PROVE  /\ f.hdr = SetFree(g.hdr, b, TRUE)
         /\ f.avail = g.avail \/ f.avail = <<b>> \o g.avail
<1>1. PICK H : H = g.hdr
  OBVIOUS
<1>2. /\ b \in DOMAIN H \ T /\ b # NULL
      /\ H[b].higher \in DOMAIN H /\ H[H[b].higher].lower = b
  BY <1>1, NULLAssumption DEF InUse, HeapOK, HOK, HTyped, HUp
<1>3. ~H[H[b].higher].isFree
  BY <1>1, <1>2 DEF HeapOK, HOK, HTerm, Lowest
<1> QED
  BY <1>1, <1>3 DEF Freed

LEMMA AllocWrites ==
  ASSUME IInv, 0 \in ByteLimits, NEW c \in Client, Lowest(hdr, heapblocks),
         AllocReuse(c, 0) \/ \E m \in ChunkBase : AllocNewChunk(c, 0, m)
  PROVE  /\ StaysLowest
         /\ \E b : /\ range' = [range EXCEPT ![c] = @ \cup {RangeOf(hdr', b)}]
                   /\ b \in Nat /\ hdr'[b].lower = NULL /\ OnlyWrites(hdr'[b].terminator)
                   /\ hdr'[b].terminator \notin isExec'
<1>1. ASSUME NEW H, NEW s, HeapOK(H, heapblocks', s), s # <<>>,
             Carve([hdr |-> H, avail |-> s], c, 0), Lowest(H, heapblocks'),
             code' = code, availblocks' = Tail(s),
             \A x \in DOMAIN hdr : H[x] = hdr[x],
             \A x \in DOMAIN H : x \notin DOMAIN hdr =>
               ChunkOf(H, x) = H[Head(s)].terminator,
             s = availblocks \/ (availblocks = <<>> /\ Tail(s) = <<>>)
      PROVE  /\ StaysLowest
             /\ \E b : /\ range' = [range EXCEPT ![c] = @ \cup {RangeOf(hdr', b)}]
                       /\ b \in Nat /\ hdr'[b].lower = NULL /\ OnlyWrites(hdr'[b].terminator)
                       /\ hdr'[b].terminator \notin isExec'
  <2>1. PICK b : b = Head(s)
    OBVIOUS
  <2>2. /\ b \in DOMAIN H \ heapblocks' /\ H[b].isFree
        /\ FreeSet(hdr', H, heapblocks', b, FALSE) /\ hdr' = SetFree(H, b, FALSE)
        /\ isExec' = isExec \ {H[b].terminator}
        /\ range' = [range EXCEPT ![c] = @ \cup {RangeOf(hdr', b)}]
    <3>1. PICK T : T = heapblocks'
      OBVIOUS
    <3>2. HeapOK(H, T, s) /\ s # <<>> /\ Carve([hdr |-> H, avail |-> s], c, 0)
      BY <1>1, <3>1
    <3> QED
      BY <2>1, <3>1, <3>2, CarveWhole
  <2>3. /\ DOMAIN hdr' = DOMAIN H /\ \A x \in DOMAIN H \ {b} : hdr'[x] = H[x]
        /\ hdr'[b].lower = H[b].lower /\ hdr'[b].terminator = H[b].terminator
        /\ ~hdr'[b].isFree /\ ChunkOf(hdr', b) = H[b].terminator
    <3>1. H[b].terminator # NULL
      BY <1>1, <2>2, NULLAssumption DEF HeapOK, HOK, HTyped, HUp
    <3>2. \A x \in DOMAIN H \ {b} : hdr'[x] = H[x]
      BY <2>2 DEF SetFree
    <3> QED
      BY <2>2, <3>1, <3>2 DEF FreeSet, ChunkOf
  <2>4. H[b].lower = NULL /\ b \in Nat
    BY <1>1, <2>2 DEF Lowest, HeapOK, HOK, HTyped
  <2>5. Lowest(hdr', heapblocks')
    BY <1>1, <2>3 DEF Lowest
  <2>6. \A x \in DOMAIN hdr \cap DOMAIN hdr' : hdr'[x].lower = hdr[x].lower
    BY <1>1, <2>3
  <2>7. OnlyWrites(H[b].terminator)
    <3> SUFFICES ASSUME NEW x \in DOMAIN hdr', ChunkOf(hdr', x) # H[b].terminator
                 PROVE  /\ x \in DOMAIN hdr /\ hdr'[x] = hdr[x]
                        /\ Successor(availblocks', code', x)
                             = Successor(availblocks, code, x)
      BY DEF OnlyWrites
    <3>1. x # b /\ hdr'[x] = H[x] /\ x \in DOMAIN H
      BY <2>3
    <3>2. ChunkOf(H, x) # H[b].terminator
      BY <3>1 DEF ChunkOf
    <3>3. x \in DOMAIN hdr /\ hdr'[x] = hdr[x]
      BY <1>1, <2>1, <3>1, <3>2
    <3>4. After(availblocks', x) = After(availblocks, x)
      <4>1. CASE s = availblocks
        BY <1>1, <2>1, <3>1, <4>1, AfterTail DEF HeapOK, HAvail
      <4>2. CASE availblocks = <<>> /\ Tail(s) = <<>>
        BY <1>1, <4>2
      <4> QED
        BY <1>1, <4>1, <4>2
    <3> QED
      BY <1>1, <3>3, <3>4, SuccessorSame
  <2> QED
    BY <2>2, <2>3, <2>4, <2>5, <2>6, <2>7 DEF StaysLowest
<1>2. CASE AllocReuse(c, 0)
  <2>1. /\ HeapOK(hdr, heapblocks', availblocks) /\ availblocks # <<>>
        /\ Carve([hdr |-> hdr, avail |-> availblocks], c, 0)
        /\ code' = code /\ heapblocks' = heapblocks
    BY <1>2 DEF AllocReuse, Heap, IInv
  <2>2. availblocks' = Tail(availblocks)
    BY <2>1 DEF Carve
  <2> QED
    BY <1>1, <2>1, <2>2
<1>3. ASSUME NEW m \in ChunkBase, AllocNewChunk(c, 0, m)
      PROVE  /\ StaysLowest
             /\ \E b : /\ range' = [range EXCEPT ![c] = @ \cup {RangeOf(hdr', b)}]
                       /\ b \in Nat /\ hdr'[b].lower = NULL /\ OnlyWrites(hdr'[b].terminator)
                       /\ hdr'[b].terminator \notin isExec'
  <2>1. PICK A : A = AddMem(hdr, m)
    OBVIOUS
  <2>2. /\ availblocks = <<>> /\ m \in ChunkBase \ chunks
        /\ heapblocks' = heapblocks \cup {Terminator(m)}
        /\ Carve([hdr |-> A, avail |-> <<m>>], c, 0)
        /\ code' = code
    BY <1>3, <2>1 DEF AllocNewChunk
  <2>3. /\ HOK(hdr, heapblocks) /\ HCoalesced(hdr, heapblocks)
        /\ HAvail(hdr, heapblocks, <<>>) /\ Placed(heapblocks, chunks)
    BY <2>2 DEF IInv, HeapOK
  <2>4. Grown(A, heapblocks', hdr, heapblocks, chunks, m)
    BY <2>1, <2>2, <2>3, AddMemOK
  <2>5. HeapOK(A, heapblocks', <<m>>) /\ \A x \in DOMAIN hdr : A[x] = hdr[x]
    BY <2>4 DEF Grown, HeapOK
  <2>6. /\ Head(<<m>>) = m /\ Tail(<<m>>) = <<>> /\ <<m>> # <<>>
        /\ availblocks' = Tail(<<m>>)
    BY <2>2 DEF Carve
  <2>7. m \in Nat /\ Terminator(m) \in Nat /\ Terminator(m) # m
    BY ChunkAssumption, SizesAssumption DEF Terminator
  <2>8. /\ DOMAIN A = DOMAIN hdr \cup {m, Terminator(m)}
        /\ A[m].terminator = Terminator(m) /\ A[m].lower = NULL
        /\ A[Terminator(m)].terminator = NULL
    <3>1. DOMAIN A = DOMAIN hdr \cup {m, Terminator(m)}
      BY <2>1 DEF AddMem
    <3>2. A[m] = [lower |-> NULL, higher |-> Terminator(m),
                  terminator |-> Terminator(m), isFree |-> TRUE]
      BY <2>1, <2>7 DEF AddMem
    <3>3. A[Terminator(m)] = Used(m, NULL, NULL)
      BY <2>1, <2>7 DEF AddMem
    <3> QED
      BY <3>1, <3>2, <3>3 DEF Used
  <2>9. Lowest(A, heapblocks')
    BY <2>2, <2>5, <2>8 DEF Lowest
  <2>10. \A x \in DOMAIN A : x \notin DOMAIN hdr => ChunkOf(A, x) = A[m].terminator
    BY <2>7, <2>8, NULLAssumption DEF ChunkOf
  <2> QED
    BY <1>1, <2>2, <2>5, <2>6, <2>9, <2>10
<1> QED
  BY <1>2, <1>3

\* add: the link of the block is written.
LEMMA AddWrites ==
  ASSUME IInv, NEW c \in Client, NEW r \in range[c], Add(c, r), Lowest(hdr, heapblocks)
  PROVE  StaysLowest /\ OnlyWrites(hdr[GetBlock(r)].terminator)
<1>1. PICK b : b = GetBlock(r)
  OBVIOUS
<1>2. /\ code' = [code EXCEPT ![c] = <<b>> \o @]
      /\ UNCHANGED <<hdr, heapblocks, availblocks>>
      /\ code \in [Client -> Seq(Nat)]
  BY <1>1 DEF Add, IInv, Holding, HoldingTyped
<1>3. b \in DOMAIN hdr \ heapblocks /\ b \in Nat
  BY <1>1, RangeBlock DEF InUse
<1>4. hdr[b].terminator # NULL
  BY <1>3, NULLAssumption DEF IInv, HeapOK, HOK, HTyped, HUp
<1>5. ASSUME NEW x \in DOMAIN hdr, ChunkOf(hdr, x) # hdr[b].terminator
      PROVE  Successor(availblocks', code', x) = Successor(availblocks, code, x)
  <2>1. x # b
    BY <1>4, <1>5 DEF ChunkOf
  <2>2. \A d \in Client : After(code'[d], x) = After(code[d], x)
    BY <1>2, <1>3, <2>1, AfterCons
  <2>3. PICK D : D = code'
    OBVIOUS
  <2>4. Successor(availblocks, D, x) = Successor(availblocks, code, x)
    BY <2>2, <2>3, SuccessorSame
  <2> QED
    BY <1>2, <2>3, <2>4
<1>6. OnlyWrites(hdr[b].terminator)
  BY <1>2, <1>5 DEF OnlyWrites
<1>7. StaysLowest
  BY <1>2 DEF StaysLowest, Lowest
<1> QED
  BY <1>1, <1>6, <1>7

\* free, for a block b that is the first of its chunk, when the headers are H
\* and the lists D afterwards change in b's links only.
LEMMA FreedWrites ==
  ASSUME NEW H, NEW T, NEW s, HeapOK(H, T, s), Lowest(H, T),
         NEW b \in InUse(H, T), H[b].lower = NULL,
         NEW f, f = Freed([hdr |-> H, avail |-> s], b)
  PROVE  /\ DOMAIN f.hdr = DOMAIN H /\ \A x \in DOMAIN H \ {b} : f.hdr[x] = H[x]
         /\ ChunkOf(f.hdr, b) = H[b].terminator
         /\ f.hdr[b].terminator = H[b].terminator
         /\ Lowest(f.hdr, T) /\ f.hdr[b].lower = NULL
         /\ \A x : x # b => After(f.avail, x) = After(s, x)
<1>1. b \in DOMAIN H \ T /\ HOK(H, T) /\ s \in Seq(DOMAIN H \ T)
  BY DEF InUse, HeapOK, HAvail
<1>2. f.hdr = SetFree(H, b, TRUE) /\ (f.avail = s \/ f.avail = <<b>> \o s)
  <2>1. PICK g : g = [hdr |-> H, avail |-> s]
    OBVIOUS
  <2>2. g.hdr = H /\ g.avail = s /\ f = Freed(g, b)
    BY <2>1
  <2>3. /\ HeapOK(g.hdr, T, g.avail) /\ Lowest(g.hdr, T)
        /\ b \in InUse(g.hdr, T) /\ g.hdr[b].lower = NULL
    BY <2>2
  <2>4. f.hdr = SetFree(g.hdr, b, TRUE) /\ (f.avail = g.avail \/ f.avail = <<b>> \o g.avail)
    BY <2>2, <2>3, PlainFreed
  <2> QED
    BY <2>2, <2>4
<1>3. PICK F : F = SetFree(H, b, TRUE)
  OBVIOUS
<1>4. /\ DOMAIN F = DOMAIN H /\ \A x \in DOMAIN H \ {b} : F[x] = H[x]
      /\ F[b].lower = H[b].lower /\ F[b].terminator = H[b].terminator
      /\ ChunkOf(F, b) = H[b].terminator
  <2>1. H[b] \in Header /\ H[b].terminator # NULL
    BY <1>1, NULLAssumption DEF HOK, HTyped, HUp
  <2>2. F[b] = [H[b] EXCEPT !.isFree = TRUE] /\ DOMAIN F = DOMAIN H
        /\ \A x \in DOMAIN H \ {b} : F[x] = H[x]
    BY <1>1, <1>3 DEF SetFree
  <2> QED
    BY <2>1, <2>2 DEF Header, ChunkOf
<1>5. Lowest(F, T)
  BY <1>4 DEF Lowest
<1>6. ASSUME NEW x, x # b
      PROVE  After(f.avail, x) = After(s, x)
  <2>1. CASE f.avail = s
    BY <2>1
  <2>2. CASE f.avail = <<b>> \o s
    <3>1. After(<<b>> \o s, x) = After(s, x)
      BY <1>1, <1>6, AfterCons
    <3> QED
      BY <2>2, <3>1
  <2> QED
    BY <1>2, <2>1, <2>2
<1> QED
  BY <1>2, <1>3, <1>4, <1>5, <1>6

LEMMA FreeWrites ==
  ASSUME IInv, NEW c \in Client, NEW r \in range[c], Free(c, r),
         Lowest(hdr, heapblocks), hdr[GetBlock(r)].lower = NULL
  PROVE  StaysLowest /\ OnlyWrites(hdr[GetBlock(r)].terminator)
<1>1. PICK b : b = GetBlock(r)
  OBVIOUS
<1>2. PICK f : f = Freed([hdr |-> hdr, avail |-> availblocks], b)
  OBVIOUS
<1>3. /\ hdr' = f.hdr /\ availblocks' = f.avail /\ heapblocks' = heapblocks
      /\ code' = code
  BY <1>1, <1>2 DEF Free, SetHeap, Heap
<1>4. HeapOK(hdr, heapblocks, availblocks) /\ b \in InUse(hdr, heapblocks)
  BY <1>1, RangeBlock DEF IInv
<1>5. /\ DOMAIN f.hdr = DOMAIN hdr /\ \A x \in DOMAIN hdr \ {b} : f.hdr[x] = hdr[x]
      /\ ChunkOf(f.hdr, b) = hdr[b].terminator
      /\ Lowest(f.hdr, heapblocks) /\ f.hdr[b].lower = NULL
      /\ \A x : x # b => After(f.avail, x) = After(availblocks, x)
  BY <1>1, <1>2, <1>4, FreedWrites
<1>6. ASSUME NEW x \in DOMAIN hdr', ChunkOf(hdr', x) # hdr[b].terminator
      PROVE  /\ x \in DOMAIN hdr /\ hdr'[x] = hdr[x]
             /\ Successor(availblocks', code', x) = Successor(availblocks, code, x)
  <2>1. x # b
    BY <1>3, <1>5, <1>6
  <2>2. After(availblocks', x) = After(availblocks, x)
    BY <1>3, <1>5, <2>1
  <2> QED
    BY <1>3, <1>5, <2>1, <2>2, SuccessorSame
<1>7. OnlyWrites(hdr[b].terminator)
  BY <1>6 DEF OnlyWrites
<1> QED
  BY <1>1, <1>3, <1>5, <1>7 DEF StaysLowest

LEMMA FreeAllStepWrites ==
  ASSUME IInv, NEW c \in Client, FreeAllStep(c),
         Lowest(hdr, heapblocks), hdr[Head(code[c])].lower = NULL
  PROVE  StaysLowest /\ OnlyWrites(hdr[Head(code[c])].terminator)
<1>1. PICK b : b = Head(code[c])
  OBVIOUS
<1>2. PICK f : f = Freed([hdr |-> hdr, avail |-> availblocks], b)
  OBVIOUS
<1>3. /\ hdr' = f.hdr /\ availblocks' = f.avail /\ heapblocks' = heapblocks
      /\ code[c] # <<>> /\ code' = [code EXCEPT ![c] = Tail(@)]
      /\ code \in [Client -> Seq(Nat)]
  BY <1>1, <1>2 DEF FreeAllStep, SetHeap, Heap, IInv, Holding, HoldingTyped
<1>4. HeapOK(hdr, heapblocks, availblocks) /\ b \in InUse(hdr, heapblocks)
  BY <1>1, <1>3, TailOK DEF IInv, Holding, ListsRight
<1>5. /\ DOMAIN f.hdr = DOMAIN hdr /\ \A x \in DOMAIN hdr \ {b} : f.hdr[x] = hdr[x]
      /\ ChunkOf(f.hdr, b) = hdr[b].terminator
      /\ Lowest(f.hdr, heapblocks) /\ f.hdr[b].lower = NULL
      /\ \A x : x # b => After(f.avail, x) = After(availblocks, x)
  BY <1>1, <1>2, <1>4, FreedWrites
<1>6. ASSUME NEW x \in DOMAIN hdr', ChunkOf(hdr', x) # hdr[b].terminator
      PROVE  /\ x \in DOMAIN hdr /\ hdr'[x] = hdr[x]
             /\ Successor(availblocks', code', x) = Successor(availblocks, code, x)
  <2>1. x # b
    BY <1>3, <1>5, <1>6
  <2>2. After(availblocks', x) = After(availblocks, x)
    BY <1>3, <1>5, <2>1
  <2>3. \A d \in Client : After(code'[d], x) = After(code[d], x)
    BY <1>1, <1>3, <2>1, AfterTail
  <2>4. PICK D, e : D = code' /\ e = availblocks'
    OBVIOUS
  <2>5. Successor(e, D, x) = Successor(availblocks, code, x)
    BY <2>2, <2>3, <2>4, SuccessorSame
  <2> QED
    BY <1>3, <1>5, <2>1, <2>4, <2>5
<1>7. OnlyWrites(hdr[b].terminator)
  BY <1>6 DEF OnlyWrites
<1> QED
  BY <1>1, <1>3, <1>5, <1>7 DEF StaysLowest

\* addRemainder writes to the headers of the two parts and of the neighbour
\* above, all in one chunk, and to the links of the two parts.
LEMMA RemainderWrites ==
  ASSUME IInv, NEW c \in Client, NEW r \in range[c], NEW e \in r.start .. r.end,
         e < r.end, AddRemainder(c, r, r.start, e),
         r.start % PtrSize = 0, SizeofMinBlock % PtrSize = 0,
         Lowest(hdr, heapblocks), hdr[GetBlock(r)].lower = NULL
  PROVE  StaysLowest /\ OnlyWrites(hdr[GetBlock(r)].terminator)
<1>1. PICK b : b = GetBlock(r)
  OBVIOUS
<1>2. /\ b \in InUse(hdr, heapblocks) /\ b \in Nat /\ b \in DOMAIN hdr \ heapblocks
      /\ heapblocks' = heapblocks /\ code \in [Client -> Seq(Nat)]
  BY <1>1, RangeBlock DEF AddRemainder, InUse, IInv, Holding, HoldingTyped
<1>3. /\ hdr[b].terminator # NULL /\ hdr[b].higher \in DOMAIN hdr
      /\ ChunkOf(hdr, hdr[b].higher) = hdr[b].terminator
      /\ hdr[hdr[b].higher].lower = b /\ b # NULL
  BY <1>2, NULLAssumption DEF IInv, HeapOK, HOK, HTyped, HUp
<1>4. CASE KeepWhole(c, r)
  <2>1. code' = [code EXCEPT ![c] = <<b>> \o @] /\ UNCHANGED <<hdr, availblocks>>
    BY <1>1, <1>4 DEF KeepWhole
  <2>2. ASSUME NEW x \in DOMAIN hdr, ChunkOf(hdr, x) # hdr[b].terminator
        PROVE  Successor(availblocks', code', x) = Successor(availblocks, code, x)
    <3>1. x # b
      BY <1>3, <2>2 DEF ChunkOf
    <3>2. \A d \in Client : After(code'[d], x) = After(code[d], x)
      BY <1>2, <2>1, <3>1, AfterCons
    <3>3. PICK D : D = code'
      OBVIOUS
    <3>4. Successor(availblocks, D, x) = Successor(availblocks, code, x)
      BY <3>2, <3>3, SuccessorSame
    <3> QED
      BY <2>1, <3>3, <3>4
  <2> QED
    BY <1>1, <1>2, <2>1, <2>2 DEF StaysLowest, Lowest, OnlyWrites
<1>5. ASSUME NEW n, CutAt(c, b, n)
      PROVE  StaysLowest /\ OnlyWrites(hdr[b].terminator)
  <2>1. PICK S : S = Split(hdr, b, n)
    OBVIOUS
  <2>2. PICK f : f = Freed([hdr |-> S, avail |-> availblocks], b)
    OBVIOUS
  <2>3. PICK h : h = hdr[b].higher
    OBVIOUS
  <2>4. /\ hdr' = f.hdr /\ availblocks' = f.avail /\ n \in Nat
        /\ code' = [code EXCEPT ![c] = <<n>> \o @]
    BY <1>5, <2>1, <2>2 DEF CutAt, SetHeap
  <2>5. /\ HeapOK(S, heapblocks, availblocks) /\ CutInTwo(S, hdr, heapblocks, b, n)
        /\ InUse(S, heapblocks) = InUse(hdr, heapblocks) \cup {n}
    BY <1>2, <1>5, <2>1, CutHeap
  <2>6. /\ DOMAIN S = DOMAIN hdr \cup {n} /\ n \notin DOMAIN hdr
        /\ S[n].lower = b /\ ~S[n].isFree /\ S[n].terminator = hdr[b].terminator
        /\ S[b].terminator = hdr[b].terminator
        /\ \A x \in DOMAIN hdr : S[x].isFree = hdr[x].isFree
    BY <1>2, <2>5 DEF CutInTwo
  <2>7. /\ \A x \in DOMAIN hdr \ {b, h} : S[x] = hdr[x]
        /\ S[b].lower = NULL /\ S[h].terminator = hdr[h].terminator
    <3>1. h # b /\ h # n /\ n # b /\ h \in DOMAIN hdr
      BY <1>1, <1>2, <1>3, <2>3, <2>6
    <3>2. /\ \A x \in DOMAIN hdr \ {b, h} : S[x] = hdr[x]
          /\ S[b] = [hdr[b] EXCEPT !.higher = n]
          /\ S[h] = [hdr[h] EXCEPT !.lower = n]
      BY <1>2, <2>1, <2>3, <2>6, <3>1 DEF Split
    <3>3. hdr[b] \in Header /\ hdr[h] \in Header
      BY <1>2, <3>1 DEF IInv, HeapOK, HOK, HTyped
    <3> QED
      BY <1>1, <3>2, <3>3 DEF Header
  <2>8. Lowest(S, heapblocks)
    <3> SUFFICES ASSUME NEW x \in DOMAIN S \ heapblocks, S[x].isFree
                 PROVE  S[x].lower = NULL
      BY DEF Lowest
    <3>1. x \in DOMAIN hdr \ heapblocks /\ hdr[x].isFree /\ x # h
      BY <1>3, <2>3, <2>6 DEF Lowest
    <3> QED
      BY <2>7, <3>1 DEF Lowest
  <2>9. b \in InUse(S, heapblocks)
    BY <1>2, <2>5
  <2>10. /\ DOMAIN f.hdr = DOMAIN S /\ \A x \in DOMAIN S \ {b} : f.hdr[x] = S[x]
         /\ ChunkOf(f.hdr, b) = hdr[b].terminator
         /\ Lowest(f.hdr, heapblocks) /\ f.hdr[b].lower = NULL
         /\ \A x : x # b => After(f.avail, x) = After(availblocks, x)
    BY <2>2, <2>5, <2>6, <2>7, <2>8, <2>9, FreedWrites
  <2>11. StaysLowest
    <3> SUFFICES ASSUME NEW x \in DOMAIN hdr, hdr[x].lower = NULL
                 PROVE  hdr'[x].lower = NULL
      BY <1>2, <2>4, <2>10 DEF StaysLowest
    <3>1. x # h
      BY <1>3, <2>3
    <3> QED
      BY <2>4, <2>6, <2>7, <2>10, <3>1
  <2>12. ASSUME NEW x \in DOMAIN hdr', ChunkOf(hdr', x) # hdr[b].terminator
         PROVE  /\ x \in DOMAIN hdr /\ hdr'[x] = hdr[x]
                /\ Successor(availblocks', code', x) = Successor(availblocks, code, x)
    <3>1. x # b /\ x \in DOMAIN S
      BY <2>4, <2>10, <2>12
    <3>2. hdr'[x] = S[x]
      BY <2>4, <2>10, <3>1
    <3>3. x # n
      BY <1>3, <2>6, <2>12, <3>2 DEF ChunkOf
    <3>4. x # h
      <4>1. ChunkOf(S, h) = ChunkOf(hdr, h)
        BY <2>7 DEF ChunkOf
      <4> QED
        BY <1>3, <2>3, <2>12, <3>2, <4>1 DEF ChunkOf
    <3>5. x \in DOMAIN hdr /\ hdr'[x] = hdr[x]
      BY <2>6, <2>7, <3>1, <3>2, <3>3, <3>4
    <3>6. After(availblocks', x) = After(availblocks, x)
      BY <2>4, <2>10, <3>1
    <3>7. \A d \in Client : After(code'[d], x) = After(code[d], x)
      BY <1>2, <2>4, <3>3, AfterCons
    <3>8. PICK D, a : D = code' /\ a = availblocks'
      OBVIOUS
    <3>9. Successor(a, D, x) = Successor(availblocks, code, x)
      BY <3>6, <3>7, <3>8, SuccessorSame
    <3> QED
      BY <3>5, <3>8, <3>9
  <2>13. OnlyWrites(hdr[b].terminator)
    BY <2>12 DEF OnlyWrites
  <2> QED
    BY <2>11, <2>13
<1>6. KeepWhole(c, r) \/ \E n : CutAt(c, b, n)
  BY <1>1, RemainderCases
<1> QED
  BY <1>1, <1>4, <1>5, <1>6

-----------------------------------------------------------------------------
(* addRemainder keeps all but the hole.                                    *)

\* What is on the list of c stays on it, each block with the bytes it had.
ListKept(c) ==
  \A x \in Elements(code[c]) :
    x \in Elements(code'[c]) /\ hdr'[x].higher = hdr[x].higher

\* A block of the list of c covers the bytes from lo up to hi.
OnList(c, lo, hi) ==
  \E x \in Elements(code'[c]) : Start(x) <= lo /\ hdr'[x].higher >= hi

\* Putting blocks in front of a list leaves what was on it.
LEMMA ConsElements ==
  ASSUME NEW s \in Seq(Nat), NEW t \in Seq(Nat)
  PROVE  Elements(t \o s) = Elements(t) \cup Elements(s)
<1> DEFINE u == t \o s
<1>1. /\ \A i \in DOMAIN t : i \in DOMAIN u /\ u[i] = t[i]
      /\ \A i \in DOMAIN s : i + Len(t) \in DOMAIN u /\ u[i + Len(t)] = s[i]
      /\ \A i \in DOMAIN u : \/ i \in DOMAIN t /\ u[i] = t[i]
                             \/ i - Len(t) \in DOMAIN s /\ u[i] = s[i - Len(t)]
  BY SMTT(30)
<1> HIDE DEF u
<1>2. Elements(t) \subseteq Elements(u)
  BY <1>1 DEF Elements
<1>3. Elements(s) \subseteq Elements(u)
  BY <1>1 DEF Elements
<1>4. Elements(u) \subseteq Elements(t) \cup Elements(s)
  BY <1>1 DEF Elements
<1> QED
  BY <1>2, <1>3, <1>4 DEF u

\* The pieces that are kept, and the code kept before, are bytes of the list.
LEMMA BytesKept ==
  ASSUME NEW c \in Client, NEW r \in [start : Nat, end : Nat],
         NEW from \in Nat, NEW to \in Nat, ListKept(c),
         \A x \in Elements(code'[c]) : x \in Nat /\ hdr'[x].higher \in Nat,
         r.start < from => OnList(c, r.start, from),
         to < r.end => OnList(c, to, r.end)
  PROVE  (r.start .. from - 1) \cup (to .. r.end - 1) \cup
           CodeBytes(hdr, code[c]) \subseteq CodeBytes(hdr', code'[c])
<1>1. /\ CodeBytes(hdr, code[c]) = UNION {Bytes(hdr, x) : x \in Elements(code[c])}
      /\ CodeBytes(hdr', code'[c]) = UNION {Bytes(hdr', x) : x \in Elements(code'[c])}
  BY DEF CodeBytes, Elements
<1>2. CodeBytes(hdr, code[c]) \subseteq CodeBytes(hdr', code'[c])
  <2>1. \A x \in Elements(code[c]) :
          x \in Elements(code'[c]) /\ Bytes(hdr', x) = Bytes(hdr, x)
    BY DEF ListKept, Bytes
  <2> QED
    BY <1>1, <2>1
<1>3. ASSUME NEW lo \in Nat, NEW hi \in Nat, lo < hi => OnList(c, lo, hi)
      PROVE  lo .. hi - 1 \subseteq CodeBytes(hdr', code'[c])
  <2> SUFFICES ASSUME NEW a \in lo .. hi - 1
               PROVE  \E x \in Elements(code'[c]) : a \in Bytes(hdr', x)
    BY <1>1
  <2>1. PICK x \in Elements(code'[c]) : Start(x) <= lo /\ hdr'[x].higher >= hi
    BY <1>3 DEF OnList
  <2>2. Start(x) \in Nat /\ hdr'[x].higher \in Nat
    BY <2>1, SizesAssumption DEF Start
  <2>3. a \in Bytes(hdr', x)
    BY <2>1, <2>2 DEF Bytes
  <2> QED
    BY <2>1, <2>3
<1> QED
  BY <1>2, <1>3

\* What RemainderKept asks of a step, in terms of the blocks on the list.
KeepsRest(c, r, from, to) ==
  /\ ListKept(c)
  /\ r.start < from => OnList(c, r.start, from)
  /\ to < r.end => OnList(c, to, r.end)

\* The block is kept whole.
LEMMA WholeKept ==
  ASSUME IInv, NEW c \in Client, NEW r \in range[c],
         NEW from \in r.start .. r.end, NEW to \in r.start .. r.end,
         KeepWhole(c, r)
  PROVE  KeepsRest(c, r, from, to)
<1>1. PICK b : b = GetBlock(r)
  OBVIOUS
<1>2. /\ b \in Nat /\ Start(b) = r.start /\ hdr[b].higher = r.end
      /\ r.start \in Nat /\ r.end \in Nat /\ code \in [Client -> Seq(Nat)]
  BY <1>1, RangeBlock DEF IInv, Holding, HoldingTyped
<1>3. hdr' = hdr /\ code'[c] = <<b>> \o code[c]
  BY <1>1, <1>2 DEF KeepWhole
<1>4. Elements(code'[c]) = {b} \cup Elements(code[c])
  <2>1. <<b>> \in Seq(Nat) /\ Elements(<<b>>) = {b}
    BY <1>2 DEF Elements
  <2> QED
    BY <1>2, <1>3, <2>1, ConsElements
<1> QED
  BY <1>2, <1>3, <1>4 DEF KeepsRest, ListKept, OnList

\* The hole is at the start: the upper part is kept.
LEMMA UpperKept ==
  ASSUME IInv, NEW c \in Client, NEW r \in range[c],
         NEW from \in r.start .. r.end, NEW to \in r.start .. r.end,
         NEW hole, hole.from \in Nat, hole.to \in Nat, from <= hole.from, hole.to <= to,
         hole.from = r.start, hole.to < r.end,
         hole.to >= hole.from + 3 * SizeofMinBlock + MinAllocSize,
         FreeLowerPart(c, r, hole)
  PROVE  KeepsRest(c, r, from, to)
<1> USE SizesAssumption
<1>1. PICK b, n : b = GetBlock(r) /\ n = hole.to - SizeofMinBlock
  OBVIOUS
<1>2. PICK S : S = Split(hdr, b, n)
  OBVIOUS
<1>3. PICK f : f = Freed([hdr |-> S, avail |-> availblocks], b)
  OBVIOUS
<1>4. /\ b \in InUse(hdr, heapblocks) /\ b \in DOMAIN hdr \ heapblocks
      /\ code \in [Client -> Seq(Nat)]
      /\ Elements(code[c]) \subseteq InUse(hdr, heapblocks) \ {b}
  BY <1>1, RangeOwned
<1>5. /\ b \in Nat /\ b + SizeofMinBlock = r.start /\ hdr[b].higher = r.end
      /\ r.start \in Nat /\ r.end \in Nat
  BY <1>1, RangeBlock DEF Start
<1>6. n \in Nat /\ Start(b) < n /\ Start(n) < hdr[b].higher /\ Start(n) = hole.to
  BY <1>1, <1>5 DEF Start
<1>7. hdr' = f.hdr /\ code'[c] = <<n>> \o code[c]
  <2>1. /\ SetHeap(Freed([hdr |-> S, avail |-> availblocks], b))
        /\ code' = [code EXCEPT ![c] = <<n>> \o @]
    <3>1. /\ SetHeap(Freed([hdr |-> Split(hdr, b, n), avail |-> availblocks], b))
          /\ code' = [code EXCEPT ![c] = <<n>> \o @]
      BY <1>1, SMTT(30) DEF FreeLowerPart, Heap
    <3> QED
      BY <1>2, <3>1
  <2>2. hdr' = f.hdr
    BY <1>3, <2>1 DEF SetHeap
  <2> QED
    BY <1>4, <2>1, <2>2
<1>8. /\ HeapOK(S, heapblocks, availblocks) /\ CutInTwo(S, hdr, heapblocks, b, n)
      /\ InUse(S, heapblocks) = InUse(hdr, heapblocks) \cup {n}
  BY <1>2, <1>4, <1>6, CutUsed DEF IInv
<1>9. /\ \A x \in InUse(S, heapblocks) \ {b} : f.hdr[x].higher = S[x].higher
      /\ n # b
  <2>1. b \in InUse(S, heapblocks)
    BY <1>4, <1>8
  <2>2. n # b
    BY <1>4, <1>8 DEF CutInTwo
  <2> QED
    BY <1>3, <1>8, <2>1, <2>2, FreedStep
<1>10. /\ \A x \in Elements(code[c]) : S[x].higher = hdr[x].higher
       /\ S[n].higher = r.end
  BY <1>4, <1>5, <1>8 DEF CutInTwo, InUse
<1>11. /\ \A x \in Elements(code[c]) : hdr'[x].higher = hdr[x].higher
       /\ hdr'[n].higher = r.end
  BY <1>4, <1>7, <1>8, <1>9, <1>10
<1>12. Elements(code'[c]) = {n} \cup Elements(code[c])
  <2>1. <<n>> \in Seq(Nat) /\ Elements(<<n>>) = {n}
    BY <1>6 DEF Elements
  <2> QED
    BY <1>4, <1>7, <2>1, ConsElements
<1>13. ListKept(c)
  BY <1>11, <1>12 DEF ListKept
<1>14. OnList(c, to, r.end)
  BY <1>5, <1>6, <1>11, <1>12 DEF OnList
<1>15. ~(r.start < from)
  BY <1>5
<1> QED
  BY <1>13, <1>14, <1>15 DEF KeepsRest

\* The hole is in the middle: the parts on both sides are kept.
LEMMA BothSidesKept ==
  ASSUME IInv, NEW c \in Client, NEW r \in range[c],
         NEW from \in r.start .. r.end, NEW to \in r.start .. r.end,
         NEW hole, hole.from \in Nat, hole.to \in Nat, from <= hole.from, hole.to <= to,
         r.start < hole.from, hole.to < r.end,
         hole.to >= hole.from + 3 * SizeofMinBlock + MinAllocSize,
         FreeMiddlePart(c, r, hole)
  PROVE  KeepsRest(c, r, from, to)
<1> USE SizesAssumption
<1>1. PICK b, m, n : b = GetBlock(r) /\ m = hole.from /\ n = hole.to - SizeofMinBlock
  OBVIOUS
<1>2. PICK S, S2 : S = Split(hdr, b, m) /\ S2 = Split(S, m, n)
  OBVIOUS
<1>3. PICK f : f = Freed([hdr |-> S2, avail |-> availblocks], m)
  OBVIOUS
<1>4. /\ b \in InUse(hdr, heapblocks) /\ b \in DOMAIN hdr \ heapblocks
      /\ code \in [Client -> Seq(Nat)]
      /\ Elements(code[c]) \subseteq InUse(hdr, heapblocks) \ {b}
  BY <1>1, RangeOwned
<1>5. /\ b \in Nat /\ b + SizeofMinBlock = r.start /\ hdr[b].higher = r.end
      /\ r.start \in Nat /\ r.end \in Nat
  BY <1>1, RangeBlock DEF Start
<1>6. /\ m \in Nat /\ Start(b) < m /\ Start(m) < hdr[b].higher
      /\ n \in Nat /\ Start(m) < n /\ Start(n) < hdr[b].higher /\ Start(n) = hole.to
  BY <1>1, <1>5 DEF Start
<1>7. hdr' = f.hdr /\ code'[c] = <<b, n>> \o code[c]
  <2>1. /\ SetHeap(Freed([hdr |-> S2, avail |-> availblocks], m))
        /\ code' = [code EXCEPT ![c] = <<b, n>> \o @]
    BY <1>1, <1>2, SMTT(30) DEF FreeMiddlePart, Heap
  <2>2. hdr' = f.hdr
    BY <1>3, <2>1 DEF SetHeap
  <2> QED
    BY <1>4, <2>1, <2>2
<1>8. /\ HeapOK(S, heapblocks, availblocks) /\ CutInTwo(S, hdr, heapblocks, b, m)
      /\ InUse(S, heapblocks) = InUse(hdr, heapblocks) \cup {m}
  BY <1>2, <1>4, <1>6, CutUsed DEF IInv
<1>9. m \in InUse(S, heapblocks) /\ S[m].higher = hdr[b].higher
  BY <1>8 DEF CutInTwo
<1>10. /\ HeapOK(S2, heapblocks, availblocks) /\ CutInTwo(S2, S, heapblocks, m, n)
       /\ InUse(S2, heapblocks) = InUse(hdr, heapblocks) \cup {m, n}
  BY <1>2, <1>6, <1>8, <1>9, CutUsed
<1>11. \A x \in InUse(S2, heapblocks) \ {m} : f.hdr[x].higher = S2[x].higher
  BY <1>3, <1>10, FreedStep
<1>12. /\ m \notin DOMAIN hdr /\ n # m /\ DOMAIN S = DOMAIN hdr \cup {m}
       /\ S2[n].higher = S[m].higher
       /\ \A x \in DOMAIN S \ {m} : S2[x].higher = S[x].higher
       /\ \A x \in DOMAIN hdr \ {b} : S[x].higher = hdr[x].higher
       /\ S[b].higher = m
  BY <1>8, <1>10 DEF CutInTwo
<1>13. /\ \A x \in Elements(code[c]) : S2[x].higher = hdr[x].higher
       /\ S2[b].higher = m /\ S2[n].higher = r.end
  BY <1>4, <1>5, <1>9, <1>12 DEF InUse
<1>14. /\ b \in InUse(S2, heapblocks) \ {m} /\ n \in InUse(S2, heapblocks) \ {m}
       /\ Elements(code[c]) \subseteq InUse(S2, heapblocks) \ {m}
  BY <1>4, <1>10, <1>12 DEF InUse
<1>15. /\ \A x \in Elements(code[c]) : hdr'[x].higher = hdr[x].higher
       /\ hdr'[b].higher = m /\ hdr'[n].higher = r.end
  BY <1>7, <1>11, <1>13, <1>14
<1>16. Elements(code'[c]) = {b, n} \cup Elements(code[c])
  <2>1. <<b, n>> \in Seq(Nat) /\ DOMAIN <<b, n>> = {1, 2}
    BY <1>5, <1>6
  <2>2. Elements(<<b, n>>) = {b, n}
    BY <2>1 DEF Elements
  <2> QED
    BY <1>4, <1>7, <2>1, <2>2, ConsElements
<1>17. ListKept(c)
  BY <1>15, <1>16 DEF ListKept
<1>18. OnList(c, to, r.end)
  BY <1>5, <1>6, <1>15, <1>16 DEF OnList
<1>19. OnList(c, r.start, from)
  BY <1>1, <1>5, <1>15, <1>16 DEF OnList, Start
<1> QED
  BY <1>17, <1>18, <1>19 DEF KeepsRest

\* addRemainder, whatever the hole, as long as none ends with its range.
LEMMA RemainderKeeps ==
  ASSUME IInv, "right" \notin HoleShapes, NEW c \in Client, NEW r \in range[c],
         NEW from \in r.start .. r.end, NEW to \in r.start .. r.end,
         AddRemainder(c, r, from, to)
  PROVE  KeepsRest(c, r, from, to)
<1> DEFINE hole  == Hole(from, to)
           shape == HoleShape(r, hole)
<1>1. r.start \in Nat /\ r.end \in Nat /\ from \in Nat /\ to \in Nat
  BY RangeBlock
<1>2. CASE ~BigHole(hole)
  BY <1>2, WholeKept DEF AddRemainder
<1>3. CASE BigHole(hole)
  <2> hole = Hole(from, to)
    OBVIOUS
  <2> HIDE DEF hole
  <2>1. /\ hole.from \in Nat /\ hole.to \in Nat
        /\ r.start <= hole.from /\ hole.to <= r.end /\ hole.to <= to
        /\ hole.to >= hole.from + 3 * SizeofMinBlock + MinAllocSize
    BY <1>1, <1>3, HoleOK
  <2>2. from <= hole.from
    BY <1>1, AlignOK, SizesAssumption DEF Hole, hole
  <2>3. \/ shape = "left" /\ hole.to = r.end /\ FreeWhole(r)
        \/ shape = "left" /\ hole.to # r.end /\ FreeLowerPart(c, r, hole)
        \/ shape = "middle" /\ FreeMiddlePart(c, r, hole)
    BY <1>3 DEF AddRemainder, hole
  <2>4. CASE shape = "left" /\ hole.to = r.end /\ FreeWhole(r)
    <3>1. from = r.start /\ to = r.end
      BY <1>1, <2>1, <2>2, <2>4 DEF HoleShape
    <3>2. ListKept(c)
      <4>1. PICK b, f : /\ b = GetBlock(r)
                        /\ f = Freed([hdr |-> hdr, avail |-> availblocks], b)
        OBVIOUS
      <4>2. hdr' = f.hdr /\ code' = code
        BY <2>4, <4>1 DEF FreeWhole, SetHeap, Heap
      <4>3. /\ b \in InUse(hdr, heapblocks)
            /\ Elements(code[c]) \subseteq InUse(hdr, heapblocks) \ {b}
        BY <4>1, RangeBlock DEF IInv, Holding, ListsRight, OwnedOnce
      <4>4. \A x \in InUse(hdr, heapblocks) \ {b} : f.hdr[x].higher = hdr[x].higher
        BY <4>1, <4>3, FreedStep DEF IInv
      <4> QED
        BY <4>2, <4>3, <4>4 DEF ListKept
    <3> QED
      BY <1>1, <3>1, <3>2 DEF KeepsRest
  <2>5. CASE shape = "left" /\ hole.to # r.end /\ FreeLowerPart(c, r, hole)
    <3>1. hole.from = r.start /\ hole.to < r.end
      BY <1>1, <2>1, <2>5 DEF HoleShape
    <3> QED
      BY <2>1, <2>2, <2>5, <3>1, UpperKept
  <2>6. CASE shape = "middle" /\ FreeMiddlePart(c, r, hole)
    <3>1. r.start < hole.from /\ hole.to < r.end
      BY <1>1, <2>1, <2>6 DEF HoleShape
    <3> QED
      BY <2>1, <2>2, <2>6, <3>1, BothSidesKept
  <2> QED
    BY <2>3, <2>4, <2>5, <2>6
<1> QED
  BY <1>2, <1>3

\* addRemainder keeps the parts before and after the hole, and all the code that
\* was on the list, for any sizes and any alignment, as long as no hole ends
\* where its range does: for those the code does nothing at all.
THEOREM RemainderAlwaysKept == "right" \notin HoleShapes => (Spec => RemainderKept)
<1> SUFFICES ASSUME "right" \notin HoleShapes PROVE Spec => RemainderKept
  OBVIOUS
<1>1. IInv /\ IInv' /\ [Next]_vars =>
        [\A c \in Client : \A r \in range[c] :
           \A from, to \in r.start .. r.end :
             AddRemainder(c, r, from, to) =>
               (r.start .. from - 1) \cup (to .. r.end - 1) \cup
                 CodeBytes(hdr, code[c]) \subseteq CodeBytes(hdr', code'[c])]_vars
  <2> SUFFICES ASSUME IInv, IInv', NEW c \in Client, NEW r \in range[c],
                      NEW from \in r.start .. r.end, NEW to \in r.start .. r.end,
                      AddRemainder(c, r, from, to)
               PROVE  (r.start .. from - 1) \cup (to .. r.end - 1) \cup
                        CodeBytes(hdr, code[c]) \subseteq CodeBytes(hdr', code'[c])
    OBVIOUS
  <2>1. KeepsRest(c, r, from, to)
    BY RemainderKeeps
  <2>2. r \in [start : Nat, end : Nat] /\ from \in Nat /\ to \in Nat
    BY RangeBlock
  <2>3. \A x \in Elements(code'[c]) : x \in Nat /\ hdr'[x].higher \in Nat
    BY DEF IInv, Holding, ListsRight, InUse, HeapOK, HOK, HTyped, HUp
  <2> QED
    BY <2>1, <2>2, <2>3, BytesKept DEF KeepsRest
<1> QED
  BY <1>1, InvariantHolds, PTL DEF Spec, RemainderKept

=============================================================================
