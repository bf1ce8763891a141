------------------------------ MODULE ARProofs ------------------------------
(***************************************************************************)
(* Proofs about module AR: for every number of values, every size of frame *)
(* and every mixture of kinds, the entries and the reservations name each  *)
(* other, and the frame is an implementation of FrameSlots.                *)
(***************************************************************************)
EXTENDS AR, TLAPS

\* Values that have been reached hold nothing; nor does the one being
\* assembled once its code is there.
Reached ==
  /\ \A i \in Ins : i > next => ar[i] = NULL
  /\ job # "none" => next \in Ins
  /\ job = "freed" => ar[next] = NULL

\* The inductive invariant.
IInv == ARTypeOK /\ EntriesMatch /\ SlotsAligned /\ Reached

-----------------------------------------------------------------------------
(* Arithmetic of one reservation.                                          *)

\* The type of a value's size.
LEMMA SlotsType ==
  ASSUME ARTypeOK, NEW i \in Ins
  PROVE  /\ Slots(i) \in Nat \ {0}
         /\ kind[i].f4 \in BOOLEAN
         /\ kind[i].f4 => Slots(i) = 4
BY ARAssumption DEF ARTypeOK, Slots

\* A value that has slots has all of them below the high-water mark.
LEMMA SlotsBelow ==
  ASSUME ARTypeOK, EntriesMatch, NEW i \in Ins, InAr(i)
  PROVE  /\ ar[i] \in 1..hwm
         /\ ar[i] - Slots(i) + 1 \in 1..hwm
<1>1. ar[i] \in Nat
  BY ARAssumption DEF ARTypeOK, InAr, Entry
<1>2. Slots(i) \in Nat \ {0}
  BY SlotsType
<1>3. Range(ar[i], Slots(i)) \subseteq 1..hwm
  BY DEF EntriesMatch
<1>4. /\ ar[i] \in Range(ar[i], Slots(i))
      /\ ar[i] - Slots(i) + 1 \in Range(ar[i], Slots(i))
  BY <1>1, <1>2 DEF Range
<1> QED
  BY <1>3, <1>4

\* Where the search finds room there is an aligned block of the right size,
\* below the high-water mark.
LEMMA HoleBelow ==
  ASSUME ARTypeOK, NEW i \in Ins, NEW k \in Holes(i)
  PROVE  /\ k \in 1..hwm
         /\ k - Slots(i) + 1 \in 1..hwm
         /\ Slots(i) > 1 => k % 2 = 0
         /\ kind[i].f4 => k % 4 = 0
         /\ \A m \in Range(k, Slots(i)) : entries[m] = NULL
<1> DEFINE n == Slots(i)
<1>1. n \in Nat \ {0} /\ kind[i].f4 \in BOOLEAN /\ (kind[i].f4 => n = 4)
  BY SlotsType
<1>2. hwm \in Nat
  BY ARAssumption DEF ARTypeOK, Entry
<1>3. /\ k \in Start(i)..hwm
      /\ (k - Start(i)) % Step(i) = 0
      /\ IsEmptyRange(k, n)
  BY DEF Holes, Candidates
<1>4. CASE n = 1
  <2>1. Start(i) = 1
    BY <1>4 DEF Start
  <2> QED
    BY <1>1, <1>2, <1>3, <1>4, <2>1 DEF IsEmptyRange
<1>5. CASE n # 1 /\ kind[i].f4
  <2>1. Start(i) = 4 /\ Step(i) = 4 /\ n = 4
    BY <1>1, <1>5 DEF Start, Step
  <2>2. k \in Int /\ k >= 4 /\ k <= hwm /\ (k - 4) % 4 = 0
    BY <1>2, <1>3, <2>1
  <2>3. k % 4 = 0 /\ k % 2 = 0
    BY <2>2
  <2> QED
    BY <1>1, <1>2, <1>3, <2>1, <2>2, <2>3 DEF IsEmptyRange
<1>6. CASE n # 1 /\ ~kind[i].f4
  <2>1. Start(i) = n + (n % 2) /\ Step(i) = 2
    BY <1>1, <1>6 DEF Start, Step
  <2>2. n % 2 \in {0, 1} /\ (n + (n % 2)) % 2 = 0
    BY <1>1
  <2>3. k \in Int /\ k >= n /\ k <= hwm /\ (k - Start(i)) % 2 = 0
    BY <1>1, <1>2, <1>3, <2>1, <2>2
  <2>4. k % 2 = 0
    BY <1>1, <2>1, <2>2, <2>3
  <2> QED
    BY <1>1, <1>2, <1>3, <1>6, <2>3, <2>4 DEF IsEmptyRange
<1> QED
  BY <1>4, <1>5, <1>6

\* So there is above the high-water mark, when the value fits.
LEMMA TopAbove ==
  ASSUME ARTypeOK, NEW i \in Ins, Fits(i)
  PROVE  LET top == hwm + Padding(i) + Slots(i)
         IN /\ top \in Entry
            /\ Padding(i) \in Nat
            /\ top - Slots(i) + 1 > hwm
            /\ Slots(i) > 1 => top % 2 = 0
            /\ kind[i].f4 => top % 4 = 0
<1> DEFINE n == Slots(i)
           p == Padding(i)
<1>1. n \in Nat \ {0} /\ kind[i].f4 \in BOOLEAN /\ (kind[i].f4 => n = 4)
  BY SlotsType
<1>2. hwm \in Nat /\ NJ_MAX_STACK_ENTRY \in Nat
  BY ARAssumption DEF ARTypeOK, Entry
<1>3. n + p <= NJ_MAX_STACK_ENTRY - hwm - 1
  BY DEF Fits, SpaceLeft
<1>4. p \in Nat /\ (n > 1 => (hwm + p + n) % 2 = 0)
                /\ (kind[i].f4 => (hwm + p + n) % 4 = 0)
  <2>1. CASE n = 1
    BY <1>1, <2>1 DEF Padding
  <2>2. CASE n > 1 /\ kind[i].f4
    <3>1. p = (4 - (hwm % 4)) % 4 /\ n = 4
      BY <1>1, <2>2 DEF Padding
    <3> HIDE DEF p, n
    <3> QED
      BY <1>2, <3>1
  <2>3. CASE n > 1 /\ ~kind[i].f4
    <3>1. p = IF hwm % 2 # n % 2 THEN 1 ELSE 0
      BY <1>1, <2>3 DEF Padding
    <3> HIDE DEF p, n
    <3> QED
      BY <1>1, <1>2, <3>1, <2>3
  <2> QED
    BY <1>1, <2>1, <2>2, <2>3
<1> HIDE DEF p, n
<1>5. /\ hwm + p + n \in 0..(NJ_MAX_STACK_ENTRY - 1)
      /\ (hwm + p + n) - n + 1 > hwm
  BY <1>1, <1>2, <1>3, <1>4
<1> QED
  BY <1>4, <1>5 DEF p, n, Entry

-----------------------------------------------------------------------------
(* The steps.                                                              *)

\* A value that had no slots is given a block: entries that were free, in place
\* of a hole or above the old high-water mark.
Given(i, k) ==
  /\ entries' \in [Entry -> Ins \cup {NULL, BAD_ENTRY}]
  /\ hwm' \in Entry /\ hwm <= hwm'
  /\ k \in 1..hwm' /\ k - Slots(i) + 1 \in 1..hwm'
  /\ \A m \in Range(k, Slots(i)) : (m <= hwm => entries[m] = NULL) /\ entries'[m] = i
  /\ \A m \in 0..hwm : m \notin Range(k, Slots(i)) => entries'[m] = entries[m]
  /\ \A m \in (hwm + 1)..hwm' : m \notin Range(k, Slots(i)) => entries'[m] = NULL
  /\ Slots(i) > 1 => k % 2 = 0
  /\ kind[i].f4 => k % 4 = 0
  /\ Occupy(i, k)

\* The search below the high-water mark gives a block that is free and aligned.
LEMMA ReserveHoleGives ==
  ASSUME IInv, NEW i \in Ins, NEW k \in Entry, ReserveHole(i, k)
  PROVE  Given(i, k)
<1>1. k \in Holes(i)
  BY DEF ReserveHole
<1>2. hwm \in Nat /\ hwm < NJ_MAX_STACK_ENTRY /\ hwm' = hwm
  BY ARAssumption DEF IInv, ARTypeOK, Entry, ReserveHole
<1>3. /\ k \in 1..hwm
      /\ k - Slots(i) + 1 \in 1..hwm
      /\ Slots(i) > 1 => k % 2 = 0
      /\ kind[i].f4 => k % 4 = 0
      /\ \A m \in Range(k, Slots(i)) : entries[m] = NULL
  BY <1>1, HoleBelow DEF IInv
<1>4. /\ entries \in [Entry -> Ins \cup {NULL, BAD_ENTRY}]
      /\ entries' = [m \in Entry |-> IF m \in Range(k, Slots(i)) THEN i ELSE entries[m]]
  BY DEF ReserveHole, IInv, ARTypeOK
<1>5. entries' \in [Entry -> Ins \cup {NULL, BAD_ENTRY}]
  BY <1>4
<1>6. Range(k, Slots(i)) \subseteq Entry /\ 0..hwm \subseteq Entry
  BY <1>2, <1>3, ARAssumption DEF Entry, Range
<1>7. \A m \in Range(k, Slots(i)) : entries'[m] = i
  BY <1>4, <1>6
<1>8. \A m \in 0..hwm : m \notin Range(k, Slots(i)) => entries'[m] = entries[m]
  BY <1>4, <1>6
<1>9. Occupy(i, k) /\ hwm \in Entry
  BY DEF ReserveHole, IInv, ARTypeOK
<1> QED
  BY <1>2, <1>3, <1>5, <1>7, <1>8, <1>9 DEF Given

\* So does the reservation above the high-water mark, padding included.
LEMMA ReserveTopGives ==
  ASSUME IInv, NEW i \in Ins, ReserveTop(i)
  PROVE  Given(i, hwm + Padding(i) + Slots(i))
<1> DEFINE n == Slots(i)
           top == hwm + Padding(i) + n
<1>1. Fits(i)
  BY DEF ReserveTop
<1>2. /\ top \in Entry
      /\ Padding(i) \in Nat
      /\ top - n + 1 > hwm
      /\ n > 1 => top % 2 = 0
      /\ kind[i].f4 => top % 4 = 0
  BY <1>1, TopAbove DEF IInv
<1>3. n \in Nat \ {0}
  BY SlotsType DEF IInv
<1>4. hwm \in Nat /\ hwm < NJ_MAX_STACK_ENTRY /\ hwm' = top /\ Occupy(i, top)
  BY ARAssumption DEF IInv, ARTypeOK, Entry, ReserveTop
<1>5. /\ entries \in [Entry -> Ins \cup {NULL, BAD_ENTRY}]
      /\ entries' = [m \in Entry |->
                       CASE m \in Range(top, n) -> i
                         [] m \in (hwm + 1)..(top - n) -> NULL
                         [] OTHER -> entries[m]]
  BY DEF ReserveTop, IInv, ARTypeOK
<1> HIDE DEF top, n
<1>6. top \in Int /\ top >= n /\ top < NJ_MAX_STACK_ENTRY /\ top > hwm
  BY <1>2, <1>3, <1>4, ARAssumption DEF Entry, top
<1>7. Range(top, n) \subseteq Entry /\ 0..top \subseteq Entry
  BY <1>3, <1>6, ARAssumption DEF Entry, Range
<1>8. \A m \in Range(top, n) : m > hwm /\ m \notin (hwm + 1)..(top - n)
  BY <1>2, <1>3, <1>4, <1>6 DEF Range
<1>9. \A m \in Entry :
        /\ m \in Range(top, n) => entries'[m] = i
        /\ m \in (hwm + 1)..(top - n) => entries'[m] = NULL
        /\ m \notin Range(top, n) /\ m \notin (hwm + 1)..(top - n)
             => entries'[m] = entries[m]
  BY <1>5, <1>8
<1>10. entries' \in [Entry -> Ins \cup {NULL, BAD_ENTRY}]
  <2> SUFFICES ASSUME NEW m \in Entry
               PROVE  (CASE m \in Range(top, n) -> i
                         [] m \in (hwm + 1)..(top - n) -> NULL
                         [] OTHER -> entries[m]) \in Ins \cup {NULL, BAD_ENTRY}
    BY <1>5
  <2> QED
    BY <1>5, <1>8
<1>11. \A m \in Range(top, n) : (m <= hwm => entries[m] = NULL) /\ entries'[m] = i
  <2> SUFFICES ASSUME NEW m \in Range(top, n)
               PROVE  ~(m <= hwm) /\ entries'[m] = i
    OBVIOUS
  <2>1. m \in Int /\ m > hwm /\ m \in Entry
    BY <1>6, <1>7, <1>8, <1>3 DEF Range
  <2> QED
    BY <2>1, <1>4, <1>9
<1>12. \A m \in 0..hwm : m \notin Range(top, n) => entries'[m] = entries[m]
  <2> SUFFICES ASSUME NEW m \in 0..hwm, m \notin Range(top, n)
               PROVE  entries'[m] = entries[m]
    OBVIOUS
  <2>1. m \in Entry /\ m \notin (hwm + 1)..(top - n)
    BY <1>4, <1>6, <1>7
  <2> QED
    BY <2>1, <1>9
<1>13. \A m \in (hwm + 1)..top : m \notin Range(top, n) => entries'[m] = NULL
  <2> SUFFICES ASSUME NEW m \in (hwm + 1)..top, m \notin Range(top, n)
               PROVE  entries'[m] = NULL
    OBVIOUS
  <2>1. m \in Entry /\ m \in (hwm + 1)..(top - n)
    BY <1>3, <1>4, <1>6, <1>7 DEF Range
  <2> QED
    BY <2>1, <1>9
<1>14. top \in 1..top /\ top - n + 1 \in 1..top
  BY <1>3, <1>4, <1>6
<1> QED
  BY <1>2, <1>4, <1>6, <1>10, <1>11, <1>12, <1>13, <1>14 DEF Given, top, n

\* The slots of each value, as the frame sees them.
Place == [i \in Ins |-> {m \in 1..hwm : entries[m] = i}]

\* After such a step the block is the value's and nothing else has changed.
LEMMA GivenPlace ==
  ASSUME IInv, NEW i \in Ins, NEW k \in Entry, Given(i, k), ar[i] = NULL
  PROVE  /\ Place[i] = {}
         /\ Place' = [Place EXCEPT ![i] = Range(k, Slots(i))]
         /\ \A j \in Ins : Place[j] \cap Range(k, Slots(i)) = {}
<1> DEFINE n == Slots(i)
           R == Range(k, n)
<1>1. Place[i] = {}
  BY DEF Place, IInv, EntriesMatch, InAr
<1>2. hwm \in Nat /\ hwm' \in Nat /\ k \in Nat /\ n \in Nat \ {0}
  BY SlotsType, ARAssumption DEF IInv, ARTypeOK, Given, Entry
<1>3. R \subseteq 1..hwm'
  BY <1>2 DEF Given, Range
<1>4. i # NULL
  BY ARAssumption DEF Ins
<1>5. \A j \in Ins, m \in 1..hwm : m \in R => entries[m] # j
  BY <1>2, ARAssumption DEF Given, Ins
<1>6. \A j \in Ins : Place[j] \cap R = {}
  BY <1>5 DEF Place
<1>7. ASSUME NEW j \in Ins
      PROVE  {m \in 1..hwm' : entries'[m] = j} = IF j = i THEN R ELSE Place[j]
  <2>1. ASSUME NEW m \in 1..hwm', m \in R
        PROVE  entries'[m] = i
    BY <2>1 DEF Given
  <2>2. ASSUME NEW m \in 1..hwm', m \notin R, m > hwm
        PROVE  entries'[m] = NULL
    <3>1. m \in (hwm + 1)..hwm'
      BY <1>2, <2>2
    <3> QED
      BY <2>2, <3>1 DEF Given
  <2>3. ASSUME NEW m \in 1..hwm', m \notin R, m <= hwm
        PROVE  entries'[m] = entries[m] /\ m \in 1..hwm
    <3>1. m \in 0..hwm /\ m \in 1..hwm
      BY <1>2, <2>3
    <3> QED
      BY <2>3, <3>1 DEF Given
  <2>4. 1..hwm \subseteq 1..hwm' /\ j # NULL
    BY <1>2, ARAssumption DEF Given, Ins
  <2>5. \A m \in 1..hwm' : m > hwm \/ m <= hwm
    BY <1>2
  <2>6. CASE j = i
    <3>1. \A m \in 1..hwm : entries[m] # i
      BY <1>1 DEF Place
    <3> QED
      BY <1>3, <2>1, <2>2, <2>3, <2>4, <2>5, <2>6, <3>1
  <2>7. CASE j # i
    <3>1. \A m \in 1..hwm : entries[m] = j => m \notin R
      BY <1>5
    <3> QED
      BY <2>1, <2>2, <2>3, <2>4, <2>5, <2>7, <3>1 DEF Place
  <2> QED
    BY <2>6, <2>7
<1>8. Place' = [Place EXCEPT ![i] = R]
  BY <1>7 DEF Place
<1> QED
  BY <1>1, <1>6, <1>8

\* Such a step keeps the invariant.
LEMMA GivenKeeps ==
  ASSUME IInv, NEW i \in Ins, NEW k \in Entry, Given(i, k), ar[i] = NULL,
         i <= next, job = "freed" => i # next
  PROVE  IInv'
<1> USE DEF IInv
<1>1. /\ kind' = kind /\ next' = next /\ job' = job /\ error' = error
      /\ fragment' = fragment /\ ar' = [ar EXCEPT ![i] = k]
  BY DEF Given, Occupy
<1>2. hwm \in Nat /\ k \in Nat /\ k # 0 /\ k # NULL /\ next \in Nat
  BY ARAssumption DEF ARTypeOK, Given, Entry
<1>3. ar' \in [Ins -> Entry \cup {NULL}] /\ ar'[i] = k
      /\ \A j \in Ins : j # i => ar'[j] = ar[j]
  BY <1>1 DEF ARTypeOK
<1>4. ARTypeOK'
  <2>1. entries'[0] = entries[0]
    <3>1. 0 \in 0..hwm /\ 0 \notin Range(k, Slots(i))
      BY <1>2, SlotsType DEF Given, Range
    <3> QED
      BY <3>1 DEF Given
  <2> QED
    BY <1>1, <1>3, <2>1 DEF ARTypeOK, Given
<1>5. EntriesMatch'
  <2>1. ASSUME NEW m \in 1..hwm'
        PROVE  entries'[m] # BAD_ENTRY
    <3>1. CASE m \in Range(k, Slots(i))
      BY <3>1, ARAssumption DEF Given, Ins
    <3>2. CASE m \notin Range(k, Slots(i)) /\ m \in 1..hwm
      BY <1>2, <3>2 DEF EntriesMatch, Given
    <3>3. CASE m \notin Range(k, Slots(i)) /\ m \in (hwm + 1)..hwm'
      BY <3>3, ARAssumption DEF Given
    <3> QED
      BY <1>2, <3>1, <3>2, <3>3
  <2>2. ASSUME NEW j \in Ins
        PROVE  Place'[j] = IF InAr(j)' THEN Range(ar'[j], Slots(j)) ELSE {}
    <3>1. Place' = [Place EXCEPT ![i] = Range(k, Slots(i))]
      BY GivenPlace
    <3>2. CASE j = i
      BY <1>2, <1>3, <3>1, <3>2 DEF InAr, Place
    <3>3. CASE j # i
      BY <1>3, <3>1, <3>3 DEF InAr, Place, EntriesMatch
    <3> QED
      BY <3>2, <3>3
  <2>3. \A j \in Ins : Slots(j)' = Slots(j)
    BY <1>1 DEF Slots
  <2> QED
    BY <2>1, <2>2, <2>3 DEF EntriesMatch, Place, Range
<1>6. SlotsAligned'
  BY <1>1, <1>3 DEF SlotsAligned, InAr, Given, Slots
<1>7. Reached'
  <2>1. next \in Ins => next # i \/ ~(job = "freed")
    OBVIOUS
  <2> QED
    BY <1>1, <1>2, <1>3 DEF Reached, Ins
<1> QED
  BY <1>4, <1>5, <1>6, <1>7

\* freeEntryAt finds the whole block, and nothing else.
LEMMA FreedIsBlock ==
  ASSUME ARTypeOK, EntriesMatch, NEW i \in Ins, InAr(i)
  PROVE  Freed(ar[i]) = Range(ar[i], Slots(i))
<1> DEFINE idx == ar[i]
           R == Range(idx, Slots(i))
<1>1. idx \in 1..hwm /\ idx - Slots(i) + 1 \in 1..hwm
  BY SlotsBelow
<1>2. hwm \in Nat /\ Slots(i) \in Nat \ {0}
  BY SlotsType, ARAssumption DEF ARTypeOK, Entry
<1>3. R = {m \in 1..hwm : entries[m] = i}
  BY DEF EntriesMatch
<1>4. entries[idx] = i
  BY <1>1, <1>2, <1>3 DEF Range
<1>5. ASSUME NEW k \in Freed(idx)
      PROVE  k \in R
  BY <1>1, <1>2, <1>3, <1>4, <1>5 DEF Freed
<1>6. ASSUME NEW k \in R
      PROVE  k \in Freed(idx)
  <2>1. k \in 1..idx /\ k..idx \subseteq R
    BY <1>1, <1>2 DEF Range
  <2>2. \A m \in k..idx : entries[m] = i
    BY <1>3, <2>1
  <2> QED
    BY <1>4, <2>1, <2>2 DEF Freed
<1> QED
  BY <1>5, <1>6

\* A step that frees takes the block away and changes nothing else.
LEMMA FreePlace ==
  ASSUME IInv, job = "def", InAr(next), FreeEntryAt(ar[next])
  PROVE  Place' = [Place EXCEPT ![next] = {}]
<1>1. next \in Ins
  BY DEF IInv, Reached
<1>2. Freed(ar[next]) = Range(ar[next], Slots(next))
  BY <1>1, FreedIsBlock DEF IInv
<1>3. Range(ar[next], Slots(next)) = {m \in 1..hwm : entries[m] = next}
  BY <1>1 DEF IInv, EntriesMatch
<1>4. hwm' = hwm /\ hwm \in Nat /\ 1..hwm \subseteq Entry
  BY ARAssumption DEF FreeEntryAt, IInv, ARTypeOK, Entry
<1>5. \A m \in 1..hwm : entries'[m] = IF entries[m] = next THEN NULL ELSE entries[m]
  BY <1>2, <1>3, <1>4 DEF FreeEntryAt
<1>6. ASSUME NEW j \in Ins
      PROVE  {m \in 1..hwm' : entries'[m] = j} = IF j = next THEN {} ELSE Place[j]
  BY <1>4, <1>5, ARAssumption DEF Place, Ins
<1> QED
  BY <1>1, <1>6 DEF Place

\* freeEntryAt keeps the invariant: exactly the entries of the value go.
LEMMA FreeKeeps ==
  ASSUME IInv, job = "def", InAr(next), FreeEntryAt(ar[next])
  PROVE  IInv'
<1> USE DEF IInv
<1>1. next \in Ins
  BY DEF Reached
<1>2. /\ kind' = kind /\ next' = next /\ job' = "freed" /\ error' = error
      /\ fragment' = fragment /\ hwm' = hwm /\ ar' = [ar EXCEPT ![next] = NULL]
      /\ entries' = [m \in Entry |-> IF m \in Freed(ar[next]) THEN NULL
                                                              ELSE entries[m]]
  BY DEF FreeEntryAt
<1>3. ARTypeOK'
  <2>1. 0 \notin Freed(ar[next]) /\ 0 \in Entry
    BY ARAssumption DEF Freed, Entry
  <2> QED
    BY <1>2, <2>1 DEF ARTypeOK
<1>4. EntriesMatch'
  <2>1. 1..hwm \subseteq Entry
    BY ARAssumption DEF ARTypeOK, Entry
  <2>2. \A m \in 1..hwm' : entries'[m] # BAD_ENTRY
    BY <1>2, <2>1, ARAssumption DEF EntriesMatch
  <2>3. ASSUME NEW j \in Ins
        PROVE  Place'[j] = IF InAr(j)' THEN Range(ar'[j], Slots(j)) ELSE {}
    <3>1. Place' = [Place EXCEPT ![next] = {}]
      BY FreePlace
    <3>2. CASE j = next
      BY <1>1, <1>2, <3>1, <3>2 DEF InAr, Place, ARTypeOK
    <3>3. CASE j # next
      BY <1>2, <3>1, <3>3 DEF InAr, Place, EntriesMatch, ARTypeOK
    <3> QED
      BY <3>2, <3>3
  <2>4. \A j \in Ins : Slots(j)' = Slots(j)
    BY <1>2 DEF Slots
  <2> QED
    BY <2>2, <2>3, <2>4 DEF EntriesMatch, Place, Range
<1>5. SlotsAligned'
  BY <1>2 DEF SlotsAligned, InAr, Slots, ARTypeOK
<1>6. Reached'
  BY <1>1, <1>2 DEF Reached, ARTypeOK
<1> QED
  BY <1>3, <1>4, <1>5, <1>6

\* A value that finds no room has index 0, which is no entry.
LEMMA FailKeeps ==
  ASSUME IInv, NEW i \in Ins, ReserveFails(i), ar[i] = NULL,
         i <= next, job = "freed" => i # next
  PROVE  IInv' /\ Place' = Place
<1> USE DEF IInv
<1>1. /\ UNCHANGED <<entries, hwm, kind, next, job, fragment>> /\ error' = TRUE
      /\ ar' = [ar EXCEPT ![i] = 0]
  BY DEF ReserveFails
<1>2. 0 \in Entry /\ next \in Int
  BY ARAssumption DEF Entry, ARTypeOK
<1>3. /\ ar' \in [Ins -> Entry \cup {NULL}]
      /\ \A j \in Ins : InAr(j)' = InAr(j) /\ (InAr(j) => ar'[j] = ar[j])
      /\ \A j \in Ins : j # i => ar'[j] = ar[j]
  BY <1>1, <1>2 DEF ARTypeOK, InAr
<1>4. ARTypeOK'
  BY <1>1, <1>3 DEF ARTypeOK
<1>5. EntriesMatch'
  BY <1>1, <1>3 DEF EntriesMatch, Range, Slots
<1>6. SlotsAligned'
  BY <1>1, <1>3 DEF SlotsAligned, Slots
<1>7. Reached'
  BY <1>1, <1>2, <1>3 DEF Reached, Ins
<1> QED
  BY <1>1, <1>4, <1>5, <1>6, <1>7 DEF Place

-----------------------------------------------------------------------------
(* The invariant.                                                          *)

\* The frame starts empty and in order.
LEMMA InitHolds == Init => IInv /\ Place = [i \in Ins |-> {}]
<1> SUFFICES ASSUME Init PROVE IInv /\ Place = [i \in Ins |-> {}]
  OBVIOUS
<1>1. 0 \in Entry /\ 1..hwm = {}
  BY ARAssumption DEF Entry, Init
<1>2. ARTypeOK
  <2>1. /\ ar \in [Ins -> Entry \cup {NULL}] /\ next \in 0..NumIns
        /\ entries \in [Entry -> Ins \cup {NULL, BAD_ENTRY}]
        /\ fragment \in 0..MaxFragments
    BY ARAssumption DEF Init
  <2> QED
    BY <1>1, <2>1 DEF Init, ARTypeOK
<1>3. \A i \in Ins : ~InAr(i)
  BY DEF Init, InAr
<1>4. EntriesMatch /\ SlotsAligned
  BY <1>1, <1>3 DEF EntriesMatch, SlotsAligned
<1>5. Reached
  BY DEF Init, Reached
<1> QED
  BY <1>1, <1>2, <1>4, <1>5 DEF IInv, Place

\* Every step keeps the invariant, and is a step of the frame.
LEMMA StepHolds ==
  ASSUME IInv, [Next]_vars
  PROVE  IInv' /\ [Frame!Next]_Place
<1> USE DEF IInv
<1>1. ASSUME NEW i \in Ins, NEW k \in Entry, Given(i, k), ar[i] = NULL
      PROVE  Frame!Next
  <2>1. /\ Place[i] = {}
        /\ Place' = [Place EXCEPT ![i] = (k - Slots(i) + 1)..k]
        /\ \A j \in Ins : Place[j] \cap ((k - Slots(i) + 1)..k) = {}
    BY <1>1, GivenPlace DEF Range
  <2>2. /\ k - Slots(i) + 1 \in 1..(NJ_MAX_STACK_ENTRY - 1)
        /\ k \in 1..(NJ_MAX_STACK_ENTRY - 1)
        /\ k - Slots(i) + 1 <= k
    BY <1>1, SlotsType, ARAssumption DEF Given, Entry
  <2>3. Frame!Take(i)
    BY <2>1, <2>2 DEF Frame!Take, Place
  <2> QED
    BY <2>3 DEF Frame!Next
<1>2. ASSUME NEW i \in Ins, FindMemFor(i)
      PROVE  IInv' /\ [Frame!Next]_Place
  <2>1. ar[i] = NULL /\ i <= next /\ (job = "freed" => i # next)
    BY <1>2, ARAssumption DEF FindMemFor, ARTypeOK, Ins
  <2>2. ASSUME NEW k \in Entry, ReserveHole(i, k)
        PROVE  IInv' /\ Frame!Next
    BY <1>1, <2>1, <2>2, ReserveHoleGives, GivenKeeps
  <2>3. ASSUME ReserveTop(i)
        PROVE  IInv' /\ Frame!Next
    <3>1. hwm + Padding(i) + Slots(i) \in Entry
      BY <2>3, TopAbove DEF ReserveTop
    <3> QED
      BY <1>1, <2>1, <2>3, <3>1, ReserveTopGives, GivenKeeps
  <2>4. ASSUME ReserveFails(i)
        PROVE  IInv' /\ Place' = Place
    BY <2>1, <2>4, FailKeeps
  <2> QED
    BY <1>2, <2>2, <2>3, <2>4 DEF FindMemFor
<1>3. ASSUME FreeResourcesOf
      PROVE  IInv' /\ [Frame!Next]_Place
  <2>1. job = "def" /\ next \in Ins
    BY <1>3 DEF FreeResourcesOf, Reached
  <2>2. CASE FreeNothing
    <3>1. UNCHANGED <<entries, hwm, ar, kind, next, error, fragment>>
            /\ job' = "freed" /\ ar[next] = NULL
      BY <2>2 DEF FreeNothing
    <3>2. IInv'
      BY <2>1, <3>1 DEF ARTypeOK, EntriesMatch, SlotsAligned, Reached, InAr,
                        Range, Slots
    <3> QED
      BY <3>1, <3>2 DEF Place
  <2>3. CASE FreeOutside
    <3>1. UNCHANGED <<entries, hwm, ar, kind, next, error, fragment>>
            /\ job' = "outside"
      BY <2>3 DEF FreeOutside
    <3>2. IInv'
      BY <2>1, <3>1 DEF ARTypeOK, EntriesMatch, SlotsAligned, Reached, InAr,
                        Range, Slots
    <3> QED
      BY <3>1, <3>2 DEF Place
  <2>4. CASE ar[next] # NULL /\ FreeEntryAt(ar[next])
    <3>1. InAr(next)
      BY <2>1, <2>4, ARAssumption DEF FreeEntryAt, InAr, ARTypeOK, Entry
    <3>2. IInv' /\ Place' = [Place EXCEPT ![next] = {}]
      BY <2>1, <2>4, <3>1, FreeKeeps, FreePlace
    <3>3. PICK i \in Ins : i = next
      BY <2>1
    <3>4. Frame!Drop(i)
      BY <3>2, <3>3 DEF Frame!Drop, Place
    <3>5. Frame!Next
      BY <3>4 DEF Frame!Next
    <3> QED
      BY <3>2, <3>5
  <2> QED
    BY <1>3, <2>2, <2>3, <2>4 DEF FreeResourcesOf
<1>4. ASSUME NEW j \in {"use", "def"}, Begin(j)
      PROVE  IInv' /\ [Frame!Next]_Place
  <2>1. /\ UNCHANGED <<entries, hwm, ar, kind, next, error, fragment>>
        /\ job' = j /\ next > 0
    BY <1>4 DEF Begin
  <2>2. next \in Ins
    BY <2>1 DEF ARTypeOK, Ins
  <2>3. IInv'
    BY <2>1, <2>2 DEF ARTypeOK, EntriesMatch, SlotsAligned, Reached, InAr,
                      Range, Slots
  <2> QED
    BY <2>1, <2>3 DEF Place
<1>5. ASSUME EndUse
      PROVE  IInv' /\ [Frame!Next]_Place
  <2>1. /\ UNCHANGED <<entries, hwm, ar, kind, next, error, fragment>>
        /\ job' = "none"
    BY <1>5 DEF EndUse
  <2>2. IInv'
    BY <2>1 DEF ARTypeOK, EntriesMatch, SlotsAligned, Reached, InAr, Range, Slots
  <2> QED
    BY <2>1, <2>2 DEF Place
<1>6. ASSUME EndDef
      PROVE  IInv' /\ [Frame!Next]_Place
  <2>1. /\ UNCHANGED <<entries, hwm, ar, kind, error, fragment>>
        /\ job' = "none" /\ job = "freed" /\ next' = next - 1
    BY <1>6 DEF EndDef
  <2>2. next \in Ins /\ ar[next] = NULL
    BY <2>1 DEF Reached
  <2>3. ARTypeOK'
    BY <2>1, <2>2, ARAssumption DEF ARTypeOK, Ins
  <2>4. Reached'
    BY <2>1, <2>2, ARAssumption DEF Reached, Ins
  <2>5. EntriesMatch' /\ SlotsAligned'
    BY <2>1 DEF EntriesMatch, SlotsAligned, InAr, Range, Slots
  <2> QED
    BY <2>1, <2>3, <2>4, <2>5 DEF Place
<1>7. ASSUME Reset
      PROVE  IInv' /\ [Frame!Next]_Place
  <2>1. /\ hwm' = 0 /\ ar' = [i \in Ins |-> NULL] /\ kind' \in [Ins -> Kind]
        /\ next' = NumIns /\ error' = FALSE /\ entries' = entries /\ job' = "none"
        /\ fragment < MaxFragments /\ fragment' = fragment + 1
    BY <1>7 DEF Reset
  <2>2. 0 \in Entry /\ 1..hwm' = {}
    BY <2>1, ARAssumption DEF Entry
  <2>3. ARTypeOK'
    <3>1. /\ ar' \in [Ins -> Entry \cup {NULL}] /\ next' \in 0..NumIns
          /\ fragment' \in 0..MaxFragments
      BY <2>1, ARAssumption DEF ARTypeOK
    <3> QED
      BY <2>1, <2>2, <3>1 DEF ARTypeOK
  <2>4. \A i \in Ins : ~InAr(i)'
    BY <2>1 DEF InAr
  <2>5. EntriesMatch' /\ SlotsAligned'
    BY <2>2, <2>4 DEF EntriesMatch, SlotsAligned
  <2>6. Reached'
    BY <2>1 DEF Reached, Ins
  <2>7. Frame!Forget
    BY <2>2 DEF Frame!Forget, Frame!Nowhere
  <2> QED
    BY <2>3, <2>5, <2>6, <2>7 DEF Frame!Next
<1>8. CASE UNCHANGED vars
  <2>1. IInv'
    BY <1>8 DEF vars, ARTypeOK, EntriesMatch, SlotsAligned, Reached, InAr,
                Range, Slots
  <2> QED
    BY <1>8, <2>1 DEF vars, Place
<1> QED
  BY <1>2, <1>3, <1>4, <1>5, <1>6, <1>7, <1>8 DEF Next

\* The invariant holds of every run of the frame.
THEOREM FrameInvariant == ARSpec => []IInv
BY InitHolds, StepHolds, PTL DEF ARSpec

\* Every variable keeps its type: in particular the high-water mark never
\* leaves the array, whatever is reserved.
THEOREM FrameTypeCorrect == ARSpec => []ARTypeOK
BY FrameInvariant, PTL DEF IInv

\* The two-way mapping of Assembler.h holds always.
THEOREM EntriesAlwaysMatch == ARSpec => []EntriesMatch
BY FrameInvariant, PTL DEF IInv

\* Doubles and float4 values are aligned always.
THEOREM SlotsAlwaysAligned == ARSpec => []SlotsAligned
BY FrameInvariant, PTL DEF IInv

\* At the start of a fragment nothing is left in the frame.
THEOREM AlwaysFreed == ARSpec => []EverythingFreed
<1>1. IInv => EverythingFreed
  <2> SUFFICES ASSUME IInv, next = 0, NEW m \in 1..hwm
               PROVE  entries[m] = NULL
    BY DEF EverythingFreed
  <2>1. \A i \in Ins : ar[i] = NULL
    BY DEF IInv, Reached, Ins
  <2>2. \A i \in Ins : entries[m] # i
    BY <2>1 DEF IInv, EntriesMatch, InAr
  <2>3. m \in Entry
    BY ARAssumption DEF IInv, ARTypeOK, Entry
  <2> QED
    BY <2>2, <2>3 DEF IInv, ARTypeOK, EntriesMatch
<1> QED
  BY <1>1, FrameInvariant, PTL

\* The activation record implements the frame: a value's slots are its own, in
\* one piece, and do not move until it gives them up.
THEOREM FrameImplemented == ARSpec => FrameSpec
<1>1. Init => Frame!Init
  BY InitHolds DEF Frame!Init, Frame!Nowhere, Place
<1>2. IInv /\ [Next]_vars =>
        [Frame!Next]_([i \in Ins |-> {m \in 1..hwm : entries[m] = i}])
  BY StepHolds DEF Place
<1> QED
  BY <1>1, <1>2, FrameInvariant, PTL DEF ARSpec, FrameSpec, Frame!Spec

=============================================================================
