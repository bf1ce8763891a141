--------------------------- MODULE RegAllocProofs ---------------------------
(***************************************************************************)
(* Theorems about RegAlloc: for any number of registers, values and labels *)
(* and every well-formed program, the allocator's records agree, and what  *)
(* the emitted code reads is where the allocator has put it.               *)
(***************************************************************************)
EXTENDS RegAlloc, FiniteSetTheorems, WellFoundedInduction, TLAPS

-----------------------------------------------------------------------------
(* Natural numbers.                                                        *)

LEMMA LeastNat ==
  ASSUME NEW T, T \subseteq Nat, T # {}
  PROVE  \E x \in T : \A y \in T : x <= y
<1> DEFINE R == {ss \in Nat \X Nat : ss[1] < ss[2]}
<1>1. IsWellFoundedOn(R, Nat)
  BY NatLessThanWellFounded DEF OpToRel
<1>2. \A x, y \in Nat : y < x => <<y, x>> \in R
  OBVIOUS
<1> HIDE DEF R
<1>3. PICK x \in T : \A y \in T : ~(<<y, x>> \in R)
  BY <1>1, WFMin
<1>4. \A y \in T : ~(y < x)
  BY <1>2, <1>3
<1> QED
  BY <1>4

LEMMA LowestIn == ASSUME NEW T, T \subseteq Nat, T # {} PROVE Lowest(T) \in T
BY LeastNat DEF Lowest

\* The element with the fewest above it.
LEMMA HighestIn ==
  ASSUME NEW T, T \subseteq Nat, T # {}, IsFiniteSet(T)
  PROVE  Highest(T) \in T
<1> DEFINE Above(x) == {y \in T : ~(y <= x)}
<1>1. \A x \in T : IsFiniteSet(Above(x)) /\ Cardinality(Above(x)) \in Nat
  BY FS_Subset, FS_CardinalityType
<1>2. PICK C : C = {Cardinality(Above(x)) : x \in T}
  OBVIOUS
<1>3. C \subseteq Nat /\ C # {}
  BY <1>1, <1>2
<1>4. PICK c \in C : \A d \in C : c <= d
  BY <1>3, LeastNat
<1>5. PICK x \in T : c = Cardinality(Above(x))
  BY <1>2, <1>4
<1>6. ASSUME NEW y \in T, ~(y <= x) PROVE FALSE
  <2>1. Above(y) \subseteq Above(x) /\ y \in Above(x) /\ y \notin Above(y)
    <3>1. x \in Nat /\ y \in Nat /\ \A z \in T : z \in Nat
      BY <1>5, <1>6
    <3>2. \A z \in T : ~(z <= y) => ~(z <= x)
      BY <1>6, <3>1
    <3>3. y <= y
      BY <3>1
    <3>4. Above(y) \subseteq Above(x)
      BY <3>2
    <3>5. y \in Above(x) /\ y \notin Above(y)
      BY <1>6, <3>3
    <3> QED
      BY <3>4, <3>5
  <2>2. /\ Cardinality(Above(y)) <= Cardinality(Above(x))
        /\ Cardinality(Above(y)) # Cardinality(Above(x))
    BY <1>1, <1>5, <2>1, FS_Subset
  <2>3. Cardinality(Above(x)) <= Cardinality(Above(y))
    BY <1>2, <1>4, <1>5
  <2> QED
    BY <1>1, <1>5, <2>2, <2>3
<1> QED
  BY <1>5, <1>6 DEF Highest

-----------------------------------------------------------------------------
(* What holds of a register state S while instructions are assembled.      *)

Place == Int
NeedSet == SUBSET (Place \X Ins)

IsState(S) ==
  S \in [free : SUBSET Reg, active : [Reg -> Ins \cup {NULL}],
         reg : [Ins -> Reg \cup {NULL}], ar : [Ins -> 0 .. NumIns], needs : NeedSet]

\* Registers and reservations name each other, but for the values in L, whose
\* register has been retired and not yet replaced.
Agree(S, L) ==
  /\ \A r \in Reg : r \in S.free <=> S.active[r] = NULL
  /\ \A r \in Reg : S.active[r] # NULL => S.reg[S.active[r]] = r
  /\ \A i \in Ins \ L : S.reg[i] # NULL => S.active[S.reg[i]] = i
  /\ \A i \in L : \A r \in Reg : S.active[r] # i

\* The state has value n[2] at place n[1].  What can always be computed again is
\* never read from a slot.
InReg(S, n) == n[1] \in Reg /\ S.active[n[1]] = n[2]
InSlot(S, n) == S.ar[n[2]] # 0 /\ n[1] = -S.ar[n[2]] /\ n[2] \notin Imm
Has(S, n) == InReg(S, n) \/ InSlot(S, n)

\* X is what the code reads and the state does not have yet.
Sound(S, L, X) ==
  /\ IsState(S)
  /\ Agree(S, L)
  /\ Disjoint(S)
  /\ \A n \in S.needs : n \in X \/ Has(S, n)

Regs == Reg \X Ins

\* What becomes of the other values when registers are found: slots stay, and
\* nothing comes to life but the values in D.
Brings(S, T, D) ==
  /\ \A j \in Ins : S.ar[j] # 0 => T.ar[j] = S.ar[j]
  /\ \A j \in Ins : Extant(T, j) => Extant(S, j) \/ j \in D

\* The code reads no other slots than before, but for those of values in D.
Spills(S, T, D) ==
  \A n \in T.needs : n \in S.needs \/ n[1] \in Reg \/ n[2] \in D

\* Every other value stays in its register, unless that is in allow, or is
\* evicted.
Stay(S, T, i, allow) ==
  \A j \in Ins \ {i} : /\ S.reg[j] \notin allow => T.reg[j] = S.reg[j]
                       /\ T.reg[j] # NULL => T.reg[j] = S.reg[j]

Found(S, T, i, allow) ==
  /\ T.reg[i] \in allow
  /\ Brings(S, T, {i})
  /\ Stay(S, T, i, allow)
  /\ Spills(S, T, {j \in Ins \ {i} : S.reg[j] \in allow})

LEMMA Basics ==
  /\ Reg \subseteq Nat /\ RetReg \in Reg /\ ArgReg \in Reg /\ RetReg # ArgReg
  /\ NULL \notin Reg /\ NULL \notin Ins /\ NULL # 0 /\ Ins \subseteq Nat
  /\ \A r \in Reg : \A s \in Nat : s # 0 => r # -s
  /\ Reg \subseteq Place
<1>1. Reg \subseteq Nat /\ RetReg \in Reg /\ ArgReg \in Reg /\ RetReg # ArgReg
  BY RegAssumption DEF Scratch
<1>2. Ins \subseteq Nat /\ NULL \notin Int
  BY RegAssumption DEF Ins
<1>3. \A r \in Nat : \A s \in Nat : s # 0 => r # -s
  OBVIOUS
<1>4. NULL \notin Reg /\ NULL \notin Ins /\ NULL # 0
  <2>1. \A x \in Nat : x \in Int
    OBVIOUS
  <2>2. 0 \in Int
    OBVIOUS
  <2> QED
    BY <1>1, <1>2, <2>1, <2>2
<1>5. \A r \in Reg : \A s \in Nat : s # 0 => r # -s
  BY <1>1, <1>3
<1>6. Reg \subseteq Place
  <2>1. \A x \in Nat : x \in Int
    OBVIOUS
  <2> QED
    BY <1>1, <2>1 DEF Place
<1> QED
  BY <1>1, <1>2, <1>4, <1>5, <1>6

LEMMA Fields ==
  ASSUME NEW S, IsState(S)
  PROVE  /\ S.free \subseteq Reg /\ S.active \in [Reg -> Ins \cup {NULL}]
         /\ S.reg \in [Ins -> Reg \cup {NULL}] /\ S.ar \in [Ins -> 0 .. NumIns]
         /\ S.needs \subseteq Place \X Ins
         /\ DOMAIN S.active = Reg /\ DOMAIN S.reg = Ins /\ DOMAIN S.ar = Ins
BY DEF IsState, NeedSet

\* More may be read than X says, if the state has it.
LEMMA SoundLess ==
  ASSUME NEW S, NEW L, NEW X, NEW Y, Sound(S, L, X),
         \A n \in S.needs : n \in X => n \in Y \/ Has(S, n)
  PROVE  Sound(S, L, Y)
BY DEF Sound

LEMMA ReadSound ==
  ASSUME NEW S, NEW X, NEW reads, NEW Y, Sound(S, {}, X), reads \subseteq Place \X Ins,
         \A n \in X \cup reads : n \in Y \/ Has(S, n)
  PROVE  /\ Sound(Read(S, reads), {}, Y)
         /\ Read(S, reads).free = S.free /\ Read(S, reads).active = S.active
         /\ Read(S, reads).reg = S.reg /\ Read(S, reads).ar = S.ar
         /\ Read(S, reads).needs = S.needs \cup reads
BY DEF Sound, IsState, NeedSet, Read, Agree, Disjoint, Has, InReg, InSlot

\* At place l the code needs nothing but value i.
Only(S, l, i) == \A n \in S.needs : n[1] = l => n[2] = i

\* An instruction that writes value i where nothing else is needed.
LEMMA WriteExact ==
  ASSUME NEW S, IsState(S), NEW l \in Place, NEW i \in Ins, NEW reads, Only(S, l, i)
  PROVE  Write(S, l, i, reads) = [S EXCEPT !.needs = (S.needs \ {<<l, i>>}) \cup reads]
<1> DEFINE T == [S EXCEPT !.needs = S.needs \ {<<l, i>>}]
<1>1. \A n \in T.needs : n \in S.needs /\ n # <<l, i>> /\ n = <<n[1], n[2]>>
  BY DEF IsState, NeedSet
<1>2. {n \in T.needs : n[1] \in {l}} = {}
  BY <1>1 DEF Only
<1>3. Clobber(T, {l}) = T
  BY <1>2 DEF Clobber
<1>4. Write(S, l, i, reads) = Read(T, reads)
  BY <1>3 DEF Write
<1>5. Read(T, reads) = [S EXCEPT !.needs = (S.needs \ {<<l, i>>}) \cup reads]
  BY DEF Read, IsState
<1> QED
  BY <1>4, <1>5

-----------------------------------------------------------------------------
(* findMemFor: there is always a slot left, and nobody else has it.        *)

LEMMA SlotLeft ==
  ASSUME NEW f \in [Ins -> 0 .. NumIns], NEW i \in Ins, f[i] = 0
  PROVE  \E s \in 1 .. NumIns : s \notin {f[j] : j \in Ins}
<1> DEFINE Others == Ins \ {i}
           g == [j \in Others |-> f[j]]
           T == {g[j] : j \in Others}
<1>1. NumIns \in Nat /\ IsFiniteSet(Ins) /\ Cardinality(Ins) = NumIns
  <2>1. NumIns \in Nat /\ NumIns >= 1
    BY RegAssumption DEF Ins
  <2> QED
    BY <2>1, FS_Interval DEF Ins
<1>2. IsFiniteSet(Others) /\ Cardinality(Others) = NumIns - 1
  BY <1>1, FS_RemoveElement
<1>3. g \in Surjection(Others, T)
  BY DEF Surjection
<1>4. IsFiniteSet(T) /\ Cardinality(T) <= NumIns - 1
  <2> HIDE DEF T, g, Others
  <2> QED
    BY <1>2, <1>3, FS_Surjection
<1>5. ~(1 .. NumIns \subseteq T)
  <2> HIDE DEF T
  <2>1. ASSUME 1 .. NumIns \subseteq T PROVE FALSE
    <3>1. Cardinality(Ins) <= Cardinality(T)
      BY <1>4, <2>1, FS_Subset DEF Ins
    <3>2. Cardinality(T) \in Nat
      BY <1>4, FS_CardinalityType
    <3> QED
      BY <1>1, <1>4, <3>1, <3>2
  <2> QED
    BY <2>1
<1>6. PICK s \in 1 .. NumIns : s \notin T
  BY <1>5
<1>7. ASSUME NEW j \in Ins, s = f[j] PROVE FALSE
  <2>1. j # i
    BY <1>7
  <2>2. g[j] = s /\ j \in Others
    BY <1>7, <2>1
  <2> QED
    BY <1>6, <2>2
<1> QED
  BY <1>6, <1>7

LEMMA FreshSlot ==
  ASSUME NEW f \in [Ins -> 0 .. NumIns], NEW i \in Ins, f[i] = 0, NEW used,
         used = {f[j] : j \in Ins}, NEW new,
         new = CHOOSE s \in 1 .. NumIns : s \notin used /\ 1 .. (s - 1) \subseteq used
  PROVE  new \in 1 .. NumIns /\ \A j \in Ins : f[j] # new
<1>1. NumIns \in Nat
  BY RegAssumption
<1>2. PICK T : T = {s \in 1 .. NumIns : s \notin used}
  OBVIOUS
<1>3. T \subseteq Nat /\ T # {}
  <2>1. T \subseteq Nat
    BY <1>1, <1>2
  <2>2. PICK s \in 1 .. NumIns : s \notin {f[j] : j \in Ins}
    BY SlotLeft
  <2> QED
    BY <1>2, <2>1, <2>2
<1>4. PICK s \in T : \A t \in T : s <= t
  BY <1>3, LeastNat
<1>5. s \in 1 .. NumIns /\ s \notin used
  BY <1>2, <1>4
<1>6. ASSUME NEW t \in 1 .. (s - 1), t \notin used PROVE FALSE
  <2>1. t \in 1 .. NumIns /\ ~(s <= t)
    BY <1>1, <1>5
  <2> QED
    BY <1>2, <1>4, <1>6, <2>1
<1>7. \E t \in 1 .. NumIns : t \notin used /\ 1 .. (t - 1) \subseteq used
  BY <1>5, <1>6
<1>8. new \in 1 .. NumIns /\ new \notin used
  BY <1>7
<1> QED
  BY <1>8

LEMMA FindMemForOK ==
  ASSUME NEW S, IsState(S), NEW i \in Ins, NEW T, T = FindMemFor(S, i)
  PROVE  /\ IsState(T)
         /\ T.free = S.free /\ T.active = S.active /\ T.reg = S.reg /\ T.needs = S.needs
         /\ T.ar[i] # 0 /\ T.ar[i] \in 1 .. NumIns
         /\ S.ar[i] # 0 => T.ar[i] = S.ar[i]
         /\ S.ar[i] = 0 => \A j \in Ins : S.ar[j] # T.ar[i]
         /\ \A j \in Ins \ {i} : T.ar[j] = S.ar[j]
<1>1. S.ar \in [Ins -> 0 .. NumIns] /\ DOMAIN S.ar = Ins /\ NumIns \in Nat
  BY RegAssumption DEF IsState
<1>2. CASE S.ar[i] # 0
  BY <1>1, <1>2 DEF FindMemFor
<1>3. CASE S.ar[i] = 0
  <2>1. Cardinality(DOMAIN S.ar) = NumIns
    BY <1>1, FS_Interval DEF Ins
  <2>2. PICK new : new = CHOOSE s \in 1 .. NumIns : s \notin {S.ar[j] : j \in Ins}
                                        /\ 1 .. (s - 1) \subseteq {S.ar[j] : j \in Ins}
    OBVIOUS
  <2>3. new \in 1 .. NumIns /\ \A j \in Ins : S.ar[j] # new
    BY <1>1, <1>3, <2>2, FreshSlot
  <2>4. T = [S EXCEPT !.ar[i] = new]
    BY <1>1, <1>3, <2>1, <2>2 DEF FindMemFor
  <2>5. /\ T.free = S.free /\ T.active = S.active /\ T.reg = S.reg /\ T.needs = S.needs
        /\ T.ar = [S.ar EXCEPT ![i] = new] /\ IsState(T)
    BY <1>1, <2>3, <2>4 DEF IsState
  <2> QED
    BY <1>1, <1>3, <2>3, <2>5
<1> QED
  BY <1>2, <1>3

LEMMA FindMemForSound ==
  ASSUME NEW S, NEW L, NEW X, Sound(S, L, X), NEW i \in Ins, NEW T, T = FindMemFor(S, i)
  PROVE  Sound(T, L, X) /\ Brings(S, T, {i})
<1>1. IsState(S)
  BY DEF Sound
<1>2. /\ IsState(T)
      /\ T.free = S.free /\ T.active = S.active /\ T.reg = S.reg /\ T.needs = S.needs
      /\ T.ar[i] # 0
      /\ S.ar[i] # 0 => T.ar[i] = S.ar[i]
      /\ S.ar[i] = 0 => \A j \in Ins : S.ar[j] # T.ar[i]
      /\ \A j \in Ins \ {i} : T.ar[j] = S.ar[j]
  BY <1>1, FindMemForOK
<1>3. DOMAIN S.ar = Ins /\ DOMAIN T.ar = Ins
  BY <1>1, <1>2, Fields
<1>4. Agree(T, L)
  BY <1>2 DEF Sound, Agree
<1>5. Disjoint(T)
  BY <1>2, <1>3 DEF Sound, Disjoint
<1>6. \A n \in S.needs : n[2] \in Ins
  BY <1>1 DEF IsState, NeedSet
<1>7. \A n \in S.needs : Has(S, n) => Has(T, n)
  BY <1>2, <1>6 DEF Has, InReg, InSlot
<1>8. Sound(T, L, X)
  BY <1>2, <1>4, <1>5, <1>7 DEF Sound
<1>9. Brings(S, T, {i})
  BY <1>2 DEF Brings, Extant
<1> QED
  BY <1>8, <1>9

-----------------------------------------------------------------------------
(* asm_restore and evict.                                                  *)

LEMMA ProgramFacts ==
  ASSUME program \in Programs
  PROVE  /\ Imm \subseteq Ins /\ DOMAIN LeaOf \subseteq Ins \ Imm
         /\ \A i \in DOMAIN LeaOf : /\ LeaOf[i] \in Ins /\ LeaOf[i] # i
                                    /\ LeaOf[i] \in 1 .. (i - 1)
         /\ DOMAIN Param \subseteq Ins \ (Imm \cup DOMAIN LeaOf)
         /\ \A i \in DOMAIN Param : Param[i] \in SavedRegs /\ 1 .. i \subseteq DOMAIN Param
         /\ \A i, j \in DOMAIN Param : Param[i] = Param[j] => i = j
<1> USE DEF Imm, LeaOf, Param
<1>1. Imm \subseteq Ins /\ DOMAIN LeaOf \subseteq Ins \ Imm
  BY ProgramAssumption
<1>2. ASSUME NEW i \in DOMAIN LeaOf
      PROVE  LeaOf[i] \in Ins /\ LeaOf[i] # i /\ LeaOf[i] \in 1 .. (i - 1)
  <2>1. LeaOf[i] \in 1 .. (i - 1) /\ i \in Ins
    BY <1>1, <1>2, ProgramAssumption
  <2> QED
    BY <2>1, RegAssumption DEF Ins
<1> QED
  BY <1>1, <1>2, ProgramAssumption

LEMMA RestoreIs ==
  ASSUME program \in Programs, NEW S, IsState(S), NEW j \in Ins, NEW r \in Reg, Only(S, r, j),
         NEW T, T = AsmRestore(S, j, r)
  PROVE  /\ IsState(T)
         /\ T.free = S.free /\ T.active = S.active /\ T.reg = S.reg
         /\ \A k \in Ins : S.ar[k] # 0 => T.ar[k] = S.ar[k]
         /\ \A k \in Ins \ {j} : T.ar[k] = S.ar[k]
         /\ T.ar[j] # 0 /\ S.ar[j] = 0 => \A k \in Ins : S.ar[k] # T.ar[j]
         /\ \A n \in T.needs :
              \/ n \in S.needs /\ n # <<r, j>>
              \/ n = <<-T.ar[j], j>> /\ j \notin Imm /\ T.ar[j] # 0
              \/ \E m \in Ins \ {j} : S.reg[m] # NULL /\ n = <<S.reg[m], m>>
<1>1. PICK U : U = IF NeedsSlot(S, j) THEN FindMemFor(S, j) ELSE S
  OBVIOUS
<1>2. /\ IsState(U)
      /\ U.free = S.free /\ U.active = S.active /\ U.reg = S.reg /\ U.needs = S.needs
      /\ \A k \in Ins : S.ar[k] # 0 => U.ar[k] = S.ar[k]
      /\ \A k \in Ins \ {j} : U.ar[k] = S.ar[k]
      /\ NeedsSlot(S, j) => U.ar[j] # 0
      /\ U.ar[j] # 0 /\ S.ar[j] = 0 => \A k \in Ins : S.ar[k] # U.ar[j]
  BY <1>1, FindMemForOK
<1>3. NeedsSlot(U, j) = NeedsSlot(S, j)
  BY <1>2 DEF NeedsSlot, CanRemat
<1>4. PICK reads : reads = RestoreReads(U, j, r)
  OBVIOUS
<1>5. /\ reads \subseteq Place \X Ins
      /\ \A n \in reads : \/ n = <<-U.ar[j], j>> /\ j \notin Imm /\ U.ar[j] # 0
                          \/ \E m \in Ins \ {j} : S.reg[m] # NULL /\ n = <<S.reg[m], m>>
  <2>1. U.ar[j] \in Nat /\ -U.ar[j] \in Int
    BY <1>2, RegAssumption DEF IsState
  <2>2. CASE NeedsSlot(U, j)
    <3>1. reads = {<<-U.ar[j], j>>} /\ j \notin Imm
      BY <1>4, <2>2 DEF RestoreReads, NeedsSlot, CanRemat, SlotAt
    <3> QED
      BY <1>2, <1>3, <2>1, <2>2, <3>1 DEF Place
  <2>3. CASE ~NeedsSlot(U, j) /\ j \in Imm
    BY <1>4, <2>3 DEF RestoreReads
  <2>4. CASE ~NeedsSlot(U, j) /\ j \notin Imm
    <3>1. j \in DOMAIN LeaOf /\ U.reg[LeaOf[j]] # NULL
      BY <2>4 DEF NeedsSlot, CanRemat
    <3>2. PICK m : m = LeaOf[j]
      OBVIOUS
    <3>3. m \in Ins \ {j} /\ S.reg[m] # NULL /\ S.reg[m] \in Reg
      BY <1>2, <3>1, <3>2, ProgramFacts DEF IsState
    <3>4. reads = {<<S.reg[m], m>>}
      BY <1>2, <1>4, <2>4, <3>2 DEF RestoreReads
    <3>5. S.reg[m] \in Place
      BY <3>3, Basics
    <3> QED
      BY <3>3, <3>4, <3>5
  <2> QED
    BY <2>2, <2>3, <2>4
<1>6. T = Write(U, r, j, reads)
  <2>1. T = Clobber(Write(U, r, j, reads), {})
    BY <1>1, <1>4 DEF AsmRestore, TempFor, Restore, RestoreTrash
  <2> QED
    BY <2>1 DEF Clobber
<1>7. T = [U EXCEPT !.needs = (U.needs \ {<<r, j>>}) \cup reads]
  <2>1. r \in Place
    BY Basics DEF Place
  <2>2. Only(U, r, j)
    BY <1>2 DEF Only
  <2> QED
    BY <1>2, <1>6, <2>1, <2>2, WriteExact
<1>8. /\ T.free = U.free /\ T.active = U.active /\ T.reg = U.reg /\ T.ar = U.ar
      /\ T.needs = (U.needs \ {<<r, j>>}) \cup reads /\ IsState(T)
  BY <1>2, <1>5, <1>7 DEF IsState, NeedSet
<1> QED
  BY <1>2, <1>5, <1>8

\* Register r is retired.
Retired(S, T, r) ==
  T.free = S.free \cup {r} /\ T.active = [S.active EXCEPT ![r] = NULL]

\* Value i is given register r.
Given(S, T, i, r) ==
  /\ T.reg = [S.reg EXCEPT ![i] = r] /\ T.active = [S.active EXCEPT ![r] = i]
  /\ T.free = S.free \ {r} /\ T.ar = S.ar /\ T.needs = S.needs

\* Nothing in X is at r, and the retired registers of L are in X.
Avoids(X, r) == \A n \in X : n[1] # r
Pending(S, L, X) == \A i \in L : i \in Ins /\ (S.reg[i] # NULL => <<S.reg[i], i>> \in X)

LEMMA NeedsAt ==
  ASSUME NEW S, NEW L, NEW X, Sound(S, L, X), NEW r \in Reg, Avoids(X, r)
  PROVE  Only(S, r, S.active[r])
<1> SUFFICES ASSUME NEW n \in S.needs, n[1] = r
             PROVE  n[2] = S.active[r]
  BY DEF Only
<1>1. Has(S, n) /\ n[2] \in Ins /\ S.ar[n[2]] \in Nat
  BY RegAssumption DEF Sound, IsState, NeedSet, Avoids
<1>2. ~InSlot(S, n)
  BY <1>1, Basics DEF InSlot
<1> QED
  BY <1>1, <1>2 DEF Has, InReg

LEMMA EvictSound ==
  ASSUME program \in Programs, NEW S, NEW L, NEW X, Sound(S, L, X), NEW j \in Ins \ L,
         S.reg[j] # NULL, Avoids(X, S.reg[j]), Pending(S, L, X),
         NEW T, T = Evict(S, j)
  PROVE  /\ Sound(T, L, X)
         /\ T.reg = [S.reg EXCEPT ![j] = NULL] /\ Retired(S, T, S.reg[j])
         /\ Brings(S, T, {}) /\ Spills(S, T, {j})
<1>1. PICK r \in Reg : r = S.reg[j]
  BY DEF Sound, IsState
<1>2. IsState(S) /\ S.active[r] = j
  BY <1>1 DEF Sound, Agree
<1>3. Only(S, r, j)
  BY <1>1, <1>2, NeedsAt
<1>4. PICK U : U = AsmRestore(S, j, r)
  OBVIOUS
<1>5. /\ IsState(U)
      /\ U.free = S.free /\ U.active = S.active /\ U.reg = S.reg
      /\ \A k \in Ins : S.ar[k] # 0 => U.ar[k] = S.ar[k]
      /\ \A k \in Ins \ {j} : U.ar[k] = S.ar[k]
      /\ U.ar[j] # 0 /\ S.ar[j] = 0 => \A k \in Ins : S.ar[k] # U.ar[j]
      /\ \A n \in U.needs :
              \/ n \in S.needs /\ n # <<r, j>>
              \/ n = <<-U.ar[j], j>> /\ j \notin Imm /\ U.ar[j] # 0
              \/ \E m \in Ins \ {j} : S.reg[m] # NULL /\ n = <<S.reg[m], m>>
  BY <1>2, <1>3, <1>4, RestoreIs
<1>6. T = ClearReg(Retire(U, r), j)
  BY <1>1, <1>4 DEF Evict
<1>7. /\ T.free = S.free \cup {r} /\ T.active = [S.active EXCEPT ![r] = NULL]
      /\ T.reg = [S.reg EXCEPT ![j] = NULL] /\ T.ar = U.ar /\ T.needs = U.needs
      /\ IsState(T)
  <2>1. PICK V : V = Retire(U, r)
    OBVIOUS
  <2>2. /\ V.free = S.free \cup {r} /\ V.active = [S.active EXCEPT ![r] = NULL]
        /\ V.reg = S.reg /\ V.ar = U.ar /\ V.needs = U.needs /\ IsState(V)
    BY <1>5, <2>1 DEF IsState, Retire
  <2>3. T = ClearReg(V, j)
    BY <1>6, <2>1
  <2> QED
    BY <2>2, <2>3 DEF IsState, ClearReg
<1>8. Agree(T, L)
  <2>1. Agree(S, L)
    BY DEF Sound
  <2>2. S.active \in [Reg -> Ins \cup {NULL}] /\ S.reg \in [Ins -> Reg \cup {NULL}]
    BY <1>2 DEF IsState
  <2>3. \A q \in Reg : q \in T.free <=> T.active[q] = NULL
    BY <1>7, <2>1, <2>2 DEF Agree
  <2>4. \A q \in Reg : T.active[q] # NULL => T.reg[T.active[q]] = q
    BY <1>1, <1>2, <1>7, <2>1, <2>2 DEF Agree
  <2>5. \A i \in Ins \ L : T.reg[i] # NULL => T.active[T.reg[i]] = i
    BY <1>1, <1>2, <1>7, <2>1, <2>2 DEF Agree
  <2>6. ASSUME NEW i \in L, NEW q \in Reg PROVE T.active[q] # i
    <3>1. i \in Ins /\ S.active[q] # i
      BY <2>1 DEF Agree, Pending
    <3>2. T.active[q] = S.active[q] \/ T.active[q] = NULL
      BY <1>7, <2>2
    <3> QED
      BY <3>1, <3>2, Basics
  <2> QED
    BY <2>3, <2>4, <2>5, <2>6 DEF Agree
<1>9. Disjoint(T)
  <2>1. DOMAIN S.ar = Ins /\ DOMAIN T.ar = Ins
    BY <1>2, <1>7 DEF IsState
  <2> QED
    BY <1>5, <1>7, <2>1 DEF Sound, Disjoint
<1>10. ASSUME NEW n \in T.needs PROVE n \in X \/ Has(T, n)
  <2>1. CASE n \in S.needs /\ n # <<r, j>>
    <3>1. n \in X \/ Has(S, n)
      BY <2>1 DEF Sound
    <3>2. n[2] \in Ins /\ n = <<n[1], n[2]>>
      BY <1>2, <2>1 DEF IsState, NeedSet
    <3>3. InReg(S, n) => InReg(T, n)
      BY <1>2, <1>7, <2>1, <3>2 DEF InReg, IsState
    <3>4. InSlot(S, n) => InSlot(T, n)
      BY <1>5, <1>7, <3>2 DEF InSlot
    <3> QED
      BY <3>1, <3>3, <3>4 DEF Has
  <2>2. CASE n = <<-U.ar[j], j>> /\ j \notin Imm /\ U.ar[j] # 0
    BY <1>7, <2>2 DEF Has, InSlot
  <2>3. CASE \E m \in Ins \ {j} : S.reg[m] # NULL /\ n = <<S.reg[m], m>>
    <3>1. PICK m \in Ins \ {j} : S.reg[m] # NULL /\ n = <<S.reg[m], m>>
      BY <2>3
    <3>2. CASE m \in L
      BY <3>1, <3>2 DEF Pending
    <3>3. CASE m \notin L
      <4>1. S.reg[m] \in Reg /\ S.active[S.reg[m]] = m
        BY <1>2, <3>1, <3>3 DEF Sound, Agree, IsState
      <4>2. T.active[S.reg[m]] = m
        BY <1>2, <1>7, <3>1, <4>1 DEF IsState
      <4> QED
        BY <3>1, <4>1, <4>2 DEF Has, InReg
    <3> QED
      BY <3>2, <3>3
  <2> QED
    BY <1>5, <1>7, <2>1, <2>2, <2>3
<1>11. Sound(T, L, X)
  BY <1>7, <1>8, <1>9, <1>10 DEF Sound
<1>12. Brings(S, T, {})
  <2>1. \A k \in Ins : Extant(T, k) => Extant(S, k)
    <3> SUFFICES ASSUME NEW k \in Ins, Extant(T, k) PROVE Extant(S, k)
      OBVIOUS
    <3>1. CASE k = j
      BY <3>1 DEF Extant
    <3>2. CASE k # j
      BY <1>2, <1>5, <1>7, <3>2 DEF Extant, IsState
    <3> QED
      BY <3>1, <3>2
  <2> QED
    BY <1>5, <1>7, <2>1 DEF Brings
<1>13. Spills(S, T, {j})
  <2>1. \A m \in Ins : S.reg[m] # NULL => S.reg[m] \in Reg
    BY <1>2 DEF IsState
  <2> QED
    BY <1>5, <1>7, <2>1 DEF Spills
<1> QED
  BY <1>1, <1>7, <1>11, <1>12, <1>13 DEF Retired

-----------------------------------------------------------------------------
(* allocReg and findRegFor.                                                *)

Without(X, r) == {n \in X : n[1] # r}
NeedsBut(X, r, i) == \A n \in X : n[1] = r => n[2] = i

LEMMA AllocSpecificSound ==
  ASSUME NEW S, NEW L, NEW X, Sound(S, L, X), NEW i \in Ins, L \subseteq {i},
         S.reg[i] # NULL => i \in L, NEW r \in Reg, r \in S.free,
         NeedsBut(X, r, i),
         NEW T, T = AllocSpecificReg(S, i, r)
  PROVE  Sound(T, {}, Without(X, r)) /\ Given(S, T, i, r)
<1>1. IsState(S) /\ S.active[r] = NULL
  BY DEF Sound, Agree
<1>2. /\ T.reg = [S.reg EXCEPT ![i] = r] /\ T.active = [S.active EXCEPT ![r] = i]
      /\ T.free = S.free \ {r} /\ T.ar = S.ar /\ T.needs = S.needs /\ IsState(T)
  BY <1>1 DEF IsState, AllocSpecificReg
<1>3. Agree(T, {})
  <2>1. Agree(S, L)
    BY DEF Sound
  <2>2. S.active \in [Reg -> Ins \cup {NULL}] /\ S.reg \in [Ins -> Reg \cup {NULL}]
    BY <1>1 DEF IsState
  <2>3. \A q \in Reg : q \in T.free <=> T.active[q] = NULL
    BY <1>1, <1>2, <2>1, <2>2, Basics DEF Agree
  <2>4. \A q \in Reg : S.active[q] # i
    BY <2>1, Basics DEF Agree
  <2>5. \A q \in Reg : T.active[q] # NULL => T.reg[T.active[q]] = q
    BY <1>2, <2>1, <2>2, <2>4 DEF Agree
  <2>6. \A k \in Ins \ {i} : S.reg[k] # NULL => S.active[S.reg[k]] = k
    BY <2>1 DEF Agree
  <2>7. \A k \in Ins : T.reg[k] # NULL => T.active[T.reg[k]] = k
    BY <1>1, <1>2, <2>2, <2>6, Basics
  <2> QED
    BY <2>3, <2>5, <2>7 DEF Agree
<1>4. Disjoint(T)
  BY <1>2 DEF Sound, Disjoint
<1>5. ASSUME NEW n \in T.needs PROVE n \in Without(X, r) \/ Has(T, n)
  <2>1. n \in X \/ Has(S, n)
    BY <1>2 DEF Sound
  <2>2. n[2] \in Ins /\ n[1] = r /\ n \in X => InReg(T, n)
    BY <1>1, <1>2 DEF InReg, IsState, NeedsBut
  <2>3. n[2] \in Ins
    BY <1>1, <1>2 DEF IsState, NeedSet
  <2>4. InReg(S, n) => InReg(T, n)
    BY <1>1, <1>2, <2>3, Basics DEF InReg, IsState
  <2>5. InSlot(S, n) => InSlot(T, n)
    BY <1>2 DEF InSlot
  <2> QED
    BY <2>1, <2>2, <2>3, <2>4, <2>5 DEF Has, Without
<1> QED
  BY <1>2, <1>3, <1>4, <1>5 DEF Sound, Given

\* What may be needed besides when a register in allow is found for i: it is in
\* registers that are free, and in allow only i.
Open(S, X, i, allow) ==
  \A n \in X : /\ n \in Regs /\ n[1] \in S.free
               /\ n[1] \in allow => n[2] = i

LEMMA AllocRegSound ==
  ASSUME program \in Programs, NEW S, NEW L, NEW X, Sound(S, L, X),
         NEW i \in Ins, L \subseteq {i},
         S.reg[i] # NULL => i \in L /\ <<S.reg[i], i>> \in X,
         NEW allow \in SUBSET Reg, Open(S, X, i, allow), NEW T \in AllocReg(S, i, allow)
  PROVE  Sound(T, {}, Without(X, T.reg[i])) /\ Found(S, T, i, allow)
<1>1. IsState(S) /\ S.reg \in [Ins -> Reg \cup {NULL}] /\ S.active \in [Reg -> Ins \cup {NULL}]
  BY DEF Sound, IsState
<1>2. \A q \in Reg : S.active[q] # i
  <2> SUFFICES ASSUME NEW q \in Reg, S.active[q] = i PROVE FALSE
    OBVIOUS
  <2>1. S.reg[i] = q /\ q \notin S.free /\ S.reg[i] # NULL
    BY Basics DEF Sound, Agree
  <2> QED
    BY <2>1 DEF Open
<1>3. CASE allow \cap S.free # {}
  <2>1. PICK r \in allow \cap S.free : T = AllocSpecificReg(S, i, r)
    BY <1>3 DEF AllocReg
  <2>2. Sound(T, {}, Without(X, r)) /\ Given(S, T, i, r)
    <3>1. NeedsBut(X, r, i) /\ r \in Reg /\ r \in S.free
      BY <2>1 DEF Open, NeedsBut
    <3> QED
      BY <2>1, <3>1, AllocSpecificSound
  <2>3. T.reg[i] = r /\ \A j \in Ins \ {i} : T.reg[j] = S.reg[j]
    BY <1>1, <2>2 DEF Given
  <2>4. Brings(S, T, {i})
    BY <2>2, <2>3 DEF Brings, Extant, Given
  <2> QED
    BY <2>1, <2>2, <2>3, <2>4 DEF Found, Stay, Spills, Given
<1>4. CASE allow \cap S.free = {}
  <2>1. PICK r \in FindVictim(S, allow) : T = AllocSpecificReg(Evict(S, S.active[r]), i, r)
    BY <1>4 DEF AllocReg
  <2>2. r \in allow /\ r \in Reg /\ S.active[r] # NULL
    BY <2>1 DEF FindVictim
  <2>3. PICK j \in Ins : j = S.active[r]
    BY <1>1, <2>2
  <2>4. j # i /\ S.reg[j] = r /\ r \notin S.free
    BY <1>2, <2>2, <2>3 DEF Sound, Agree
  <2>5. PICK U : U = Evict(S, j)
    OBVIOUS
  <2>6. /\ Sound(U, L, X)
        /\ U.reg = [S.reg EXCEPT ![j] = NULL] /\ Retired(S, U, r)
        /\ Brings(S, U, {}) /\ Spills(S, U, {j})
    <3>1. Avoids(X, S.reg[j])
      BY <2>4 DEF Avoids, Open
    <3>2. Pending(S, L, X)
      BY DEF Pending
    <3>3. j \in Ins \ L /\ S.reg[j] # NULL
      BY <2>2, <2>4, Basics
    <3>4. /\ Sound(U, L, X)
          /\ U.reg = [S.reg EXCEPT ![j] = NULL] /\ Retired(S, U, S.reg[j])
          /\ Brings(S, U, {}) /\ Spills(S, U, {j})
      BY <2>5, <3>1, <3>2, <3>3, EvictSound
    <3> QED
      BY <2>4, <3>4
  <2>7. T = AllocSpecificReg(U, i, r)
    BY <2>1, <2>3, <2>5
  <2>8. /\ U.reg[i] = S.reg[i] /\ (U.reg[i] # NULL => i \in L) /\ r \in U.free
        /\ NeedsBut(X, r, i)
    BY <1>1, <2>2, <2>4, <2>6 DEF Retired, NeedsBut, Open
  <2>9. Sound(T, {}, Without(X, r)) /\ Given(U, T, i, r)
    <3>1. Sound(U, L, X) /\ r \in Reg /\ L \subseteq {i}
      BY <2>2, <2>6
    <3> QED
      BY <2>7, <2>8, <3>1, AllocSpecificSound
  <2>10. T.reg[i] = r /\ \A k \in Ins \ {i} : T.reg[k] = IF k = j THEN NULL ELSE S.reg[k]
    BY <1>1, <2>4, <2>6, <2>9 DEF Given
  <2>11. Brings(S, T, {i})
    BY <2>6, <2>9, <2>10 DEF Brings, Extant, Given
  <2>12. Stay(S, T, i, allow)
    BY <2>2, <2>4, <2>10 DEF Stay
  <2>13. Spills(S, T, {k \in Ins \ {i} : S.reg[k] \in allow})
    BY <2>2, <2>4, <2>6, <2>9 DEF Spills, Given
  <2> QED
    BY <2>2, <2>9, <2>10, <2>11, <2>12, <2>13 DEF Found
<1> QED
  BY <1>3, <1>4

LEMMA RetireSound ==
  ASSUME NEW S, NEW X, Sound(S, {}, X), NEW i \in Ins, S.reg[i] # NULL,
         NEW T, T = Retire(S, S.reg[i])
  PROVE  /\ Sound(T, {i}, X \cup {<<S.reg[i], i>>})
         /\ T.reg = S.reg /\ T.ar = S.ar /\ T.needs = S.needs /\ Retired(S, T, S.reg[i])
<1>1. PICK r \in Reg : r = S.reg[i]
  BY DEF Sound, IsState
<1>2. IsState(S) /\ S.active[r] = i
  BY <1>1 DEF Sound, Agree
<1>3. /\ T.free = S.free \cup {r} /\ T.active = [S.active EXCEPT ![r] = NULL]
      /\ T.reg = S.reg /\ T.ar = S.ar /\ T.needs = S.needs /\ IsState(T)
  BY <1>1, <1>2 DEF IsState, Retire
<1>4. S.active \in [Reg -> Ins \cup {NULL}] /\ S.reg \in [Ins -> Reg \cup {NULL}]
  BY <1>2 DEF IsState
<1>5. Agree(T, {i})
  <2>1. Agree(S, {})
    BY DEF Sound
  <2>2. \A q \in Reg : q \in T.free <=> T.active[q] = NULL
    BY <1>3, <1>4, <2>1 DEF Agree
  <2>3. \A q \in Reg : T.active[q] # NULL => T.reg[T.active[q]] = q
    BY <1>3, <1>4, <2>1 DEF Agree
  <2>4. \A k \in Ins \ {i} : T.reg[k] # NULL => T.active[T.reg[k]] = k
    BY <1>2, <1>3, <1>4, <2>1 DEF Agree
  <2>5. \A q \in Reg : T.active[q] # i
    BY <1>1, <1>3, <1>4, <2>1, Basics DEF Agree
  <2> QED
    BY <2>2, <2>3, <2>4, <2>5 DEF Agree
<1>6. Disjoint(T)
  BY <1>3 DEF Sound, Disjoint
<1>7. ASSUME NEW n \in T.needs PROVE n \in X \cup {<<r, i>>} \/ Has(T, n)
  <2>1. (n \in X \/ Has(S, n)) /\ n = <<n[1], n[2]>>
    BY <1>2, <1>3 DEF Sound, IsState, NeedSet
  <2>2. InReg(S, n) => n = <<r, i>> \/ InReg(T, n)
    BY <1>2, <1>3, <1>4, <2>1 DEF InReg
  <2>3. InSlot(S, n) => InSlot(T, n)
    BY <1>3 DEF InSlot
  <2> QED
    BY <2>1, <2>2, <2>3 DEF Has
<1> QED
  BY <1>1, <1>3, <1>5, <1>6, <1>7 DEF Sound, Retired

\* MR, in front of code that reads value i at dst.
LEMMA MoveSound ==
  ASSUME NEW S, NEW X, Sound(S, {}, X), NEW i \in Ins, S.reg[i] # NULL, NEW dst \in Place,
         Only(S, dst, i), NEW T, T = Move(S, dst, S.reg[i], i)
  PROVE  /\ Sound(T, {}, X \ {<<dst, i>>})
         /\ T.reg = S.reg /\ T.ar = S.ar /\ T.free = S.free /\ T.active = S.active
         /\ T.needs = (S.needs \ {<<dst, i>>}) \cup {<<S.reg[i], i>>}
<1>1. IsState(S) /\ S.reg[i] \in Reg /\ S.active[S.reg[i]] = i
  BY DEF Sound, IsState, Agree
<1>2. T = [S EXCEPT !.needs = (S.needs \ {<<dst, i>>}) \cup {<<S.reg[i], i>>}]
  BY <1>1, WriteExact DEF Move
<1>3. <<S.reg[i], i>> \in Place \X Ins
  <2>1. S.reg[i] \in Place
    BY <1>1, Basics
  <2> QED
    BY <2>1
<1>4. /\ T.reg = S.reg /\ T.ar = S.ar /\ T.free = S.free /\ T.active = S.active
      /\ T.needs = (S.needs \ {<<dst, i>>}) \cup {<<S.reg[i], i>>} /\ IsState(T)
  BY <1>1, <1>2, <1>3 DEF IsState, NeedSet
<1>5. Agree(T, {}) /\ Disjoint(T)
  BY <1>4 DEF Sound, Agree, Disjoint
<1>6. ASSUME NEW n \in T.needs PROVE n \in X \ {<<dst, i>>} \/ Has(T, n)
  <2>1. CASE n \in S.needs \ {<<dst, i>>}
    BY <1>4, <2>1 DEF Sound, Has, InReg, InSlot
  <2>2. CASE n = <<S.reg[i], i>>
    BY <1>1, <1>4, <2>2 DEF Has, InReg
  <2> QED
    BY <1>4, <2>1, <2>2
<1> QED
  BY <1>4, <1>5, <1>6 DEF Sound

LEMMA FindRegForSound ==
  ASSUME program \in Programs, NEW S, NEW X, Sound(S, {}, X), NEW i \in Ins,
         NEW allow \in SUBSET Reg, Open(S, X, i, allow), NEW T \in FindRegFor(S, i, allow)
  PROVE  Sound(T, {}, Without(X, T.reg[i])) /\ Found(S, T, i, allow)
<1>1. IsState(S) /\ S.reg \in [Ins -> Reg \cup {NULL}] /\ S.active \in [Reg -> Ins \cup {NULL}]
  BY DEF Sound, IsState
<1>2. HoldAlloc(S, i) = S
  BY DEF HoldAlloc, IsAlloc
<1>3. CASE S.reg[i] = NULL
  <2>1. T \in AllocReg(S, i, allow)
    BY <1>2, <1>3 DEF FindRegFor
  <2>2. PICK none : none = {}
    OBVIOUS
  <2>3. /\ none \subseteq {i} /\ Sound(S, none, X)
        /\ S.reg[i] # NULL => i \in none /\ <<S.reg[i], i>> \in X
    BY <1>3, <2>2
  <2> QED
    BY <2>1, <2>3, AllocRegSound
<1>4. CASE S.reg[i] # NULL /\ S.reg[i] \in allow
  <2>1. T = S
    BY <1>2, <1>4 DEF FindRegFor
  <2>2. S.reg[i] \notin S.free
    BY <1>1, <1>4, Basics DEF Sound, Agree
  <2>3. Sound(S, {}, Without(X, S.reg[i]))
    BY <2>2, SoundLess DEF Open, Without
  <2>4. Found(S, S, i, allow)
    BY <1>4 DEF Found, Brings, Stay, Spills
  <2> QED
    BY <2>1, <2>3, <2>4
<1>5. CASE S.reg[i] # NULL /\ S.reg[i] \notin allow /\ allow # {}
  <2>1. PICK r \in Reg : r = S.reg[i]
    BY <1>1, <1>5
  <2>2. PICK U : U = Retire(S, r)
    OBVIOUS
  <2>3. PICK T0 \in AllocReg(U, i, allow) : T = Move(T0, r, T0.reg[i], i)
    BY <1>2, <1>5, <2>1, <2>2 DEF FindRegFor, CopyCandidates
  <2>4. PICK Y : Y = X \cup {<<r, i>>}
    OBVIOUS
  <2>5. /\ Sound(U, {i}, Y)
        /\ U.reg = S.reg /\ U.ar = S.ar /\ U.needs = S.needs
        /\ U.free = S.free \cup {r} /\ U.active = [S.active EXCEPT ![r] = NULL]
    <3>1. S.reg[i] # NULL /\ U = Retire(S, S.reg[i])
      BY <1>5, <2>1, <2>2
    <3>2. /\ Sound(U, {i}, X \cup {<<S.reg[i], i>>})
          /\ U.reg = S.reg /\ U.ar = S.ar /\ U.needs = S.needs /\ Retired(S, U, S.reg[i])
      BY <3>1, RetireSound
    <3> QED
      BY <2>1, <2>4, <3>2 DEF Retired
  <2>6. /\ U.reg[i] # NULL => i \in {i} /\ <<U.reg[i], i>> \in Y
        /\ Open(U, Y, i, allow)
    BY <1>5, <2>1, <2>4, <2>5 DEF Open, Regs
  <2>7. Sound(T0, {}, Without(Y, T0.reg[i])) /\ Found(U, T0, i, allow)
    BY <2>5, <2>6, AllocRegSound
  <2>8. PICK q \in Reg : q = T0.reg[i]
    BY <2>7 DEF Found
  <2>9. q \in allow /\ q # r /\ q # NULL /\ IsState(T0)
    BY <1>5, <2>1, <2>7, <2>8, Basics DEF Found, Sound
  <2>10. S.active[r] = i /\ r \notin S.free
    BY <1>1, <2>1, Basics DEF Sound, Agree
  <2>11. ASSUME NEW k \in Ins, T0.active[r] = k PROVE FALSE
    <3>1. T0.reg[k] = r /\ k # i
      BY <2>7, <2>8, <2>9, <2>11, Basics DEF Sound, Agree
    <3>2. S.reg[k] = r
      BY <2>5, <2>7, <3>1, Basics DEF Found, Stay
    <3>3. S.active[r] = k
      BY <3>2, Basics DEF Sound, Agree
    <3> QED
      BY <2>10, <3>1, <3>3
  <2>12. Only(T0, r, i)
    <3> SUFFICES ASSUME NEW n \in T0.needs, n[1] = r, n[2] # i PROVE FALSE
      BY DEF Only
    <3>1. n[2] \in Ins /\ T0.ar[n[2]] \in Nat /\ n = <<n[1], n[2]>>
      BY <2>9, RegAssumption DEF IsState, NeedSet
    <3>2. ~Has(T0, n)
      BY <2>11, <3>1, Basics DEF Has, InReg, InSlot
    <3>3. n \in X
      BY <2>4, <2>7, <3>2 DEF Sound, Without
    <3> QED
      BY <2>10, <3>3 DEF Open
  <2>13. /\ Sound(T, {}, Without(Y, q) \ {<<r, i>>})
         /\ T.reg = T0.reg /\ T.ar = T0.ar /\ T.free = T0.free /\ T.active = T0.active
         /\ T.needs = (T0.needs \ {<<r, i>>}) \cup {<<q, i>>}
    <3>1. r \in Place /\ T0.reg[i] # NULL /\ T0.reg[i] # r
      BY <2>8, <2>9, Basics
    <3>2. Sound(T0, {}, Without(Y, q))
      BY <2>7, <2>8
    <3>3. /\ Sound(T, {}, Without(Y, q) \ {<<r, i>>})
          /\ T.reg = T0.reg /\ T.ar = T0.ar /\ T.free = T0.free /\ T.active = T0.active
          /\ T.needs = (T0.needs \ {<<r, i>>}) \cup {<<T0.reg[i], i>>}
      BY <2>3, <2>12, <3>1, <3>2, MoveSound
    <3> QED
      BY <2>8, <3>1, <3>3
  <2>14. Without(Y, q) \ {<<r, i>>} \subseteq Without(X, q)
    BY <2>4 DEF Without
  <2>15. Sound(T, {}, Without(X, q))
    BY <2>13, <2>14, SoundLess
  <2>16. Found(S, T, i, allow)
    BY <2>5, <2>7, <2>8, <2>13 DEF Found, Brings, Extant, Stay, Spills
  <2> QED
    BY <2>8, <2>13, <2>15, <2>16
<1>6. CASE S.reg[i] # NULL /\ allow = {}
  <2>1. T \in AllocReg(Evict(S, i), i, {})
    BY <1>2, <1>6 DEF FindRegFor, CopyCandidates
  <2> QED
    BY <2>1 DEF AllocReg, FindVictim
<1> QED
  BY <1>3, <1>4, <1>5, <1>6

LEMMA FindPlain ==
  ASSUME program \in Programs, NEW S, Sound(S, {}, {}), NEW i \in Ins,
         NEW allow \in SUBSET Reg, NEW T \in FindRegFor(S, i, allow)
  PROVE  Sound(T, {}, {}) /\ Found(S, T, i, allow)
<1>1. PICK none : none = {}
  OBVIOUS
<1>2. Sound(S, {}, none) /\ Open(S, none, i, allow)
  BY <1>1 DEF Open
<1>3. Sound(T, {}, Without(none, T.reg[i])) /\ Found(S, T, i, allow)
  BY <1>2, FindRegForSound
<1>4. Without(none, T.reg[i]) = {}
  BY <1>1 DEF Without
<1> QED
  BY <1>3, <1>4

\* What is in a register is there for the code to read.
LEMMA InItsRegister ==
  ASSUME NEW S, NEW X, Sound(S, {}, X), NEW i \in Ins, S.reg[i] # NULL
  PROVE  /\ S.reg[i] \in Reg /\ S.active[S.reg[i]] = i /\ Has(S, <<S.reg[i], i>>)
         /\ <<S.reg[i], i>> \in Place \X Ins
<1>1. S.reg[i] \in Reg /\ S.active[S.reg[i]] = i
  BY DEF Sound, IsState, Agree
<1>2. S.reg[i] \in Place
  BY <1>1, Basics
<1> QED
  BY <1>1, <1>2 DEF Has, InReg

LEMMA BringsMore ==
  ASSUME NEW S, NEW T, NEW U, NEW D, NEW E, Brings(S, T, D), Brings(T, U, E)
  PROVE  Brings(S, U, D \cup E)
<1>1. \A j \in Ins : S.ar[j] # 0 => T.ar[j] # 0 /\ U.ar[j] = S.ar[j]
  BY DEF Brings
<1> QED
  BY <1>1 DEF Brings

LEMMA CompareSound ==
  ASSUME program \in Programs, NEW S, Sound(S, {}, {}), NEW a \in Ins, NEW b \in Ins,
         NEW T \in Compare(S, a, b)
  PROVE  Sound(T, {}, {}) /\ Brings(S, T, {a, b})
<1>1. PICK U \in FindRegFor2(S, a, Reg, b, Reg) :
        T = Read(U, {<<U.reg[a], a>>, <<U.reg[b], b>>})
  BY DEF Compare
<1>2. Sound(U, {}, {}) /\ Brings(S, U, {a, b}) /\ U.reg[a] # NULL /\ U.reg[b] # NULL
  <2>1. CASE a = b
    <3>1. U \in FindRegFor(S, a, Reg)
      BY <1>1, <2>1 DEF FindRegFor2
    <3>2. Sound(U, {}, {}) /\ Found(S, U, a, Reg)
      BY <3>1, FindPlain
    <3> QED
      BY <2>1, <3>2, Basics DEF Found, Brings
  <2>2. CASE a # b /\ S.reg[b] \in Reg
    <3>1. U \in FindRegFor(S, a, Reg \ {S.reg[b]})
      BY <1>1, <2>2 DEF FindRegFor2
    <3>2. Sound(U, {}, {}) /\ Found(S, U, a, Reg \ {S.reg[b]})
      BY <3>1, FindPlain
    <3>3. U.reg[b] = S.reg[b]
      BY <2>2, <3>2 DEF Found, Stay
    <3> QED
      BY <2>2, <3>2, <3>3, Basics DEF Found, Brings
  <2>3. CASE a # b /\ S.reg[b] \notin Reg
    <3>1. PICK V \in FindRegFor(S, a, Reg) : U \in FindRegFor(V, b, Reg \ {V.reg[a]})
      BY <1>1, <2>3 DEF FindRegFor2
    <3>2. Sound(V, {}, {}) /\ Found(S, V, a, Reg)
      BY <3>1, FindPlain
    <3>3. Sound(U, {}, {}) /\ Found(V, U, b, Reg \ {V.reg[a]})
      BY <3>1, <3>2, FindPlain
    <3>4. U.reg[a] = V.reg[a]
      BY <2>3, <3>3 DEF Found, Stay
    <3>5. Brings(S, U, {a} \cup {b})
      BY <3>2, <3>3, BringsMore DEF Found
    <3>6. {a} \cup {b} = {a, b}
      OBVIOUS
    <3> QED
      BY <3>2, <3>3, <3>4, <3>5, <3>6, Basics DEF Found
  <2> QED
    BY <2>1, <2>2, <2>3
<1>3. PICK reads : reads = {<<U.reg[a], a>>, <<U.reg[b], b>>}
  OBVIOUS
<1>4. reads \subseteq Place \X Ins /\ \A n \in {} \cup reads : n \in {} \/ Has(U, n)
  <2>1. <<U.reg[a], a>> \in Place \X Ins /\ Has(U, <<U.reg[a], a>>)
    BY <1>2, InItsRegister
  <2>2. <<U.reg[b], b>> \in Place \X Ins /\ Has(U, <<U.reg[b], b>>)
    BY <1>2, InItsRegister
  <2> QED
    BY <1>3, <2>1, <2>2
<1>5. Sound(T, {}, {}) /\ T.reg = U.reg /\ T.ar = U.ar
  BY <1>1, <1>2, <1>3, <1>4, ReadSound, ZenonT(60)
<1> QED
  BY <1>2, <1>5 DEF Brings, Extant

-----------------------------------------------------------------------------
(* prepareResultReg and freeResourcesOf: the code below reads a value from *)
(* its register alone, and nothing reads it above the instruction that     *)
(* defines it.                                                             *)

Spilled(S, i) == \A n \in S.needs : n[2] = i => n[1] \in Reg
NoneOf(S, i) == \A n \in S.needs : n[2] # i

LEMMA StaysSpilled ==
  ASSUME NEW S, NEW T, NEW i, NEW D, Spilled(S, i), Spills(S, T, D), i \notin D
  PROVE  Spilled(T, i)
BY DEF Spilled, Spills

LEMMA SlotsApart ==
  ASSUME NEW S, NEW L, NEW X, Sound(S, L, X), NEW i \in Ins, NEW j \in Ins, S.ar[i] # 0,
         -S.ar[i] = -S.ar[j]
  PROVE  i = j
<1>1. S.ar \in [Ins -> 0 .. NumIns] /\ NumIns \in Nat /\ DOMAIN S.ar = Ins
  BY RegAssumption DEF Sound, IsState
<1>2. S.ar[i] \in Nat /\ S.ar[j] \in Nat
  BY <1>1
<1>3. S.ar[i] = S.ar[j]
  BY <1>2
<1> QED
  BY <1>1, <1>3 DEF Sound, Disjoint

LEMMA PrepareSound ==
  ASSUME program \in Programs, NEW S, Sound(S, {}, {}), NEW i \in Ins,
         NEW allow \in SUBSET Reg, NEW T \in PrepareResultReg(S, i, allow)
  PROVE  Sound(T, {}, {}) /\ Found(S, T, i, allow) /\ Spilled(T, i)
<1>1. PICK U \in FindRegFor(S, i, allow) : T = AsmMaybeSpill(U, i)
  BY DEF PrepareResultReg
<1>2. Sound(U, {}, {}) /\ Found(S, U, i, allow)
  BY <1>1, FindPlain
<1>3. U.reg[i] \in Reg /\ U.reg[i] # NULL /\ IsState(U)
  BY <1>2, Basics DEF Found, Sound
<1>4. CASE U.ar[i] = 0
  <2>1. T = U
    BY <1>1, <1>4 DEF AsmMaybeSpill
  <2>2. Spilled(U, i)
    BY <1>2, <1>4 DEF Spilled, Sound, Has, InReg, InSlot
  <2> QED
    BY <1>2, <2>1, <2>2
<1>5. CASE U.ar[i] # 0
  <2>1. U.ar[i] \in Nat /\ -U.ar[i] \in Place
    BY <1>3, RegAssumption DEF IsState, Place
  <2>2. PICK l \in Place : l = -U.ar[i]
    BY <2>1
  <2>3. T = Move(U, l, U.reg[i], i)
    BY <1>1, <1>5, <2>2 DEF AsmMaybeSpill, Slot, SlotAt
  <2>4. l \notin Reg
    BY <1>5, <2>1, <2>2, Basics
  <2>5. Only(U, l, i)
    <3> SUFFICES ASSUME NEW n \in U.needs, n[1] = l PROVE n[2] = i
      BY DEF Only
    <3>1. n[2] \in Ins /\ InSlot(U, n)
      BY <1>2, <1>3, <2>4 DEF Sound, IsState, NeedSet, Has, InReg
    <3> QED
      BY <1>2, <1>5, <2>2, <3>1, SlotsApart DEF InSlot
  <2>6. /\ Sound(T, {}, {} \ {<<l, i>>})
        /\ T.reg = U.reg /\ T.ar = U.ar /\ T.free = U.free /\ T.active = U.active
        /\ T.needs = (U.needs \ {<<l, i>>}) \cup {<<U.reg[i], i>>}
    <3>1. PICK X : X = {}
      OBVIOUS
    <3>2. Sound(U, {}, X) /\ l \in Place /\ U.reg[i] # NULL /\ Only(U, l, i)
      BY <1>2, <1>3, <2>2, <2>5, <3>1
    <3>3. T = Move(U, l, U.reg[i], i)
      BY <2>3
    <3>4. /\ Sound(T, {}, X \ {<<l, i>>})
          /\ T.reg = U.reg /\ T.ar = U.ar /\ T.free = U.free /\ T.active = U.active
          /\ T.needs = (U.needs \ {<<l, i>>}) \cup {<<U.reg[i], i>>}
      BY <3>2, <3>3, MoveSound
    <3> QED
      BY <3>1, <3>4
  <2>7. {} \ {<<l, i>>} = {}
    OBVIOUS
  <2>8. Sound(T, {}, {})
    BY <2>6, <2>7
  <2>9. Spilled(T, i)
    <3> SUFFICES ASSUME NEW n \in T.needs, n[2] = i, n[1] \notin Reg PROVE FALSE
      BY DEF Spilled
    <3>1. n \in U.needs /\ n # <<l, i>> /\ n = <<n[1], n[2]>>
      BY <1>3, <2>6 DEF IsState, NeedSet
    <3>2. InSlot(U, n)
      BY <1>2, <3>1 DEF Sound, Has, InReg
    <3> QED
      BY <2>2, <3>1, <3>2 DEF InSlot
  <2>10. Found(S, T, i, allow)
    BY <1>2, <1>3, <2>6 DEF Found, Brings, Extant, Stay, Spills
  <2> QED
    BY <2>8, <2>9, <2>10
<1> QED
  BY <1>4, <1>5

\* What an instruction reads to define i is in X, or there.
Reads(S, i, reads, X) ==
  \A n \in reads : n \in Place \X Ins /\ n[2] # i /\ (n \in X \/ Has(S, n))

\* The instruction that defines i, in the register it has been given.
LEMMA ResultWritten ==
  ASSUME NEW S, Sound(S, {}, {}), NEW i \in Ins, S.reg[i] # NULL, Spilled(S, i),
         NEW reads, NEW X, Reads(S, i, reads, X), NEW T, T = Write(S, S.reg[i], i, reads)
  PROVE  /\ Sound(T, {}, X) /\ NoneOf(T, i)
         /\ T.reg = S.reg /\ T.ar = S.ar /\ T.free = S.free /\ T.active = S.active
         /\ T.needs = (S.needs \ {<<S.reg[i], i>>}) \cup reads
<1>1. PICK r \in Reg : r = S.reg[i]
  BY DEF Sound, IsState
<1>2. S.active[r] = i /\ IsState(S) /\ r \in Place
  BY <1>1, Basics DEF Sound, Agree
<1>3. Only(S, r, i)
  <2>1. PICK none : none = {}
    OBVIOUS
  <2>2. Sound(S, {}, none) /\ Avoids(none, r)
    BY <2>1 DEF Avoids
  <2> QED
    BY <1>2, <2>2, NeedsAt
<1>4. T = [S EXCEPT !.needs = (S.needs \ {<<r, i>>}) \cup reads]
  <2>1. T = Write(S, r, i, reads)
    BY <1>1
  <2> QED
    BY <1>2, <1>3, <2>1, WriteExact
<1>5. /\ T.reg = S.reg /\ T.ar = S.ar /\ T.free = S.free /\ T.active = S.active
      /\ T.needs = (S.needs \ {<<r, i>>}) \cup reads /\ IsState(T)
  BY <1>2, <1>4 DEF IsState, NeedSet, Reads
<1>6. Agree(T, {}) /\ Disjoint(T)
  BY <1>5 DEF Sound, Agree, Disjoint
<1>7. \A n \in T.needs : Has(S, n) => Has(T, n)
  BY <1>5 DEF Has, InReg, InSlot
<1>8. Sound(T, {}, X)
  BY <1>5, <1>6, <1>7 DEF Sound, Reads
<1>9. NoneOf(T, i)
  <2> SUFFICES ASSUME NEW n \in T.needs, n[2] = i PROVE FALSE
    BY DEF NoneOf
  <2>1. n \in S.needs /\ n # <<r, i>> /\ n = <<n[1], n[2]>> /\ n[1] \in Reg
    BY <1>2, <1>5 DEF IsState, NeedSet, Spilled, Reads
  <2>2. S.ar[i] \in Nat
    BY <1>2, RegAssumption DEF IsState
  <2>3. ~InSlot(S, n)
    BY <2>1, <2>2, Basics DEF InSlot
  <2>4. S.active[n[1]] = i
    BY <2>1, <2>3 DEF Sound, Has, InReg
  <2>5. n[1] = r
    BY <1>1, <2>1, <2>4, Basics DEF Sound, Agree
  <2> QED
    BY <2>1, <2>5
<1> QED
  BY <1>1, <1>5, <1>8, <1>9

\* Value i gives up what it has.
Freed(S, T, i) ==
  /\ T.reg = [S.reg EXCEPT ![i] = NULL] /\ T.ar = [S.ar EXCEPT ![i] = 0]
  /\ T.needs = S.needs
  /\ T.free = S.free \cup ({S.reg[i]} \ {NULL})
  /\ \A r \in Reg : T.active[r] = IF r = S.reg[i] THEN NULL ELSE S.active[r]

LEMMA FreeSound ==
  ASSUME NEW S, NEW X, Sound(S, {}, X), NEW i \in Ins, NoneOf(S, i),
         NEW T, T = FreeResourcesOf(S, i)
  PROVE  Sound(T, {}, X) /\ Freed(S, T, i)
<1>1. IsState(S) /\ Agree(S, {})
  BY DEF Sound
<1>2. Freed(S, T, i) /\ IsState(T)
  <2>1. CASE S.reg[i] = NULL
    <3>1. T = [S EXCEPT !.ar[i] = 0]
      BY <2>1 DEF FreeResourcesOf
    <3>2. /\ IsState(T) /\ T.free = S.free /\ T.active = S.active /\ T.reg = S.reg
          /\ T.needs = S.needs /\ T.ar = [S.ar EXCEPT ![i] = 0]
      BY <1>1, <3>1, RegAssumption DEF IsState
    <3>3. S.reg \in [Ins -> Reg \cup {NULL}]
      BY <1>1 DEF IsState
    <3>4. T.reg = [S.reg EXCEPT ![i] = NULL]
      BY <2>1, <3>2, <3>3
    <3>5. {S.reg[i]} \ {NULL} = {}
      BY <2>1
    <3>6. \A q \in Reg : q # S.reg[i]
      BY <2>1, Basics
    <3> QED
      BY <3>2, <3>4, <3>5, <3>6 DEF Freed
  <2>2. CASE S.reg[i] # NULL
    <3>1. PICK r \in Reg : r = S.reg[i]
      BY <1>1, <2>2 DEF IsState
    <3>2. PICK U : U = Retire(S, r)
      OBVIOUS
    <3>3. PICK V : V = ClearReg(U, i)
      OBVIOUS
    <3>4. T = [V EXCEPT !.ar[i] = 0]
      BY <2>2, <3>1, <3>2, <3>3 DEF FreeResourcesOf
    <3>5. /\ IsState(U) /\ U.free = S.free \cup {r} /\ U.active = [S.active EXCEPT ![r] = NULL]
          /\ U.reg = S.reg /\ U.ar = S.ar /\ U.needs = S.needs
      BY <1>1, <3>2 DEF IsState, Retire
    <3>6. /\ IsState(V) /\ V.free = U.free /\ V.active = U.active /\ V.ar = U.ar
          /\ V.needs = U.needs /\ V.reg = [U.reg EXCEPT ![i] = NULL]
      BY <3>3, <3>5 DEF IsState, ClearReg
    <3>7. /\ IsState(T) /\ T.free = V.free /\ T.active = V.active /\ T.reg = V.reg
          /\ T.needs = V.needs /\ T.ar = [V.ar EXCEPT ![i] = 0]
      BY <3>4, <3>6, RegAssumption DEF IsState
    <3>8. S.active \in [Reg -> Ins \cup {NULL}]
      BY <1>1 DEF IsState
    <3>9. \A q \in Reg : T.active[q] = IF q = S.reg[i] THEN NULL ELSE S.active[q]
      BY <3>1, <3>5, <3>6, <3>7, <3>8
    <3> QED
      BY <3>1, <3>5, <3>6, <3>7, <3>9, Basics DEF Freed
  <2> QED
    BY <2>1, <2>2
<1>3. S.active \in [Reg -> Ins \cup {NULL}] /\ S.reg \in [Ins -> Reg \cup {NULL}]
      /\ S.ar \in [Ins -> 0 .. NumIns]
  BY <1>1 DEF IsState
<1>4. \A q \in Reg : S.active[q] = i => S.reg[i] = q
  BY <1>1, Basics DEF Agree
<1>5. Agree(T, {})
  <2>1. \A q \in Reg : q \in T.free <=> T.active[q] = NULL
    <3>1. \A q \in Reg : q \in T.free <=> q \in S.free \/ q = S.reg[i]
      BY <1>2, Basics DEF Freed
    <3> QED
      BY <1>1, <1>2, <3>1 DEF Agree, Freed
  <2>2. \A q \in Reg : T.active[q] # NULL => T.reg[T.active[q]] = q
    BY <1>1, <1>2, <1>3, <1>4 DEF Agree, Freed
  <2>3. \A k \in Ins : T.reg[k] # NULL => T.active[T.reg[k]] = k
    BY <1>1, <1>2, <1>3, <1>4 DEF Agree, Freed
  <2> QED
    BY <2>1, <2>2, <2>3 DEF Agree
<1>6. Disjoint(T)
  <2>1. DOMAIN S.ar = Ins /\ DOMAIN T.ar = Ins
    BY <1>2, <1>3 DEF Freed
  <2>2. \A j \in Ins : T.ar[j] # 0 => T.ar[j] = S.ar[j]
    BY <1>2, <1>3 DEF Freed
  <2> QED
    BY <2>1, <2>2 DEF Sound, Disjoint
<1>7. ASSUME NEW n \in T.needs PROVE n \in X \/ Has(T, n)
  <2>1. (n \in X \/ Has(S, n)) /\ n[2] # i /\ n[2] \in Ins
    BY <1>1, <1>2 DEF Sound, Freed, NoneOf, IsState, NeedSet
  <2>2. InReg(S, n) => InReg(T, n)
    BY <1>1, <1>2, <2>1, Basics DEF Agree, Freed, InReg
  <2>3. InSlot(S, n) => InSlot(T, n)
    BY <1>2, <1>3, <2>1 DEF Freed, InSlot
  <2> QED
    BY <2>1, <2>2, <2>3 DEF Has
<1> QED
  BY <1>2, <1>5, <1>6, <1>7 DEF Sound

-----------------------------------------------------------------------------
(* Instructions that define value i.                                       *)

\* Value i is gone, and nothing comes to life but the values in D.
Defines(S, T, i, D) ==
  /\ \A j \in Ins \ {i} : S.ar[j] # 0 => T.ar[j] = S.ar[j]
  /\ \A j \in Ins : Extant(T, j) => j # i /\ (Extant(S, j) \/ j \in D)

Just(X, r, a) == X = {<<r, a>>}

LEMMA FreedDefines ==
  ASSUME NEW S, IsState(S), NEW T, NEW i \in Ins, Freed(S, T, i)
  PROVE  Defines(S, T, i, {})
<1>1. S.reg \in [Ins -> Reg \cup {NULL}] /\ S.ar \in [Ins -> 0 .. NumIns]
  BY DEF IsState
<1> QED
  BY <1>1 DEF Freed, Defines, Extant

\* The same, where only values up to n may come to life, or up to i.
Grows(S, T, n) ==
  /\ \A j \in Ins : S.ar[j] # 0 => T.ar[j] = S.ar[j]
  /\ \A j \in Ins : Extant(T, j) => Extant(S, j) \/ j \in 1 .. n

Replaces(S, T, i) ==
  /\ \A j \in Ins \ {i} : S.ar[j] # 0 => T.ar[j] = S.ar[j]
  /\ \A j \in Ins : Extant(T, j) => j # i /\ (Extant(S, j) \/ j \in 1 .. i)

LEMMA BringsGrows ==
  ASSUME NEW S, NEW T, NEW j, Brings(S, T, {j}), NEW n, j \in 1 .. n
  PROVE  Grows(S, T, n)
BY DEF Brings, Grows

LEMMA FoundGrows ==
  ASSUME NEW S, NEW T, NEW j, NEW allow, Found(S, T, j, allow), NEW n, j \in 1 .. n
  PROVE  Grows(S, T, n)
BY BringsGrows DEF Found

LEMMA DefinesReplaces ==
  ASSUME NEW S, NEW T, NEW i \in Nat, NEW a, a \in 1 .. (i - 1), Defines(S, T, i, {a})
  PROVE  Replaces(S, T, i)
<1>1. a \in 1 .. i
  OBVIOUS
<1> QED
  BY <1>1 DEF Defines, Replaces

LEMMA GrowsGrows ==
  ASSUME NEW S, NEW T, NEW U, NEW n, Grows(S, T, n), Grows(T, U, n)
  PROVE  Grows(S, U, n)
<1>1. \A j \in Ins : S.ar[j] # 0 => T.ar[j] # 0 /\ U.ar[j] = S.ar[j]
  BY DEF Grows
<1> QED
  BY <1>1 DEF Grows

LEMMA GrowsReplaces ==
  ASSUME NEW S, NEW T, NEW U, NEW i, Grows(S, T, i), Replaces(T, U, i)
  PROVE  Replaces(S, U, i)
<1>1. \A j \in Ins \ {i} : S.ar[j] # 0 => T.ar[j] # 0 /\ U.ar[j] = S.ar[j]
  BY DEF Grows, Replaces
<1> QED
  BY <1>1 DEF Grows, Replaces

LEMMA ReplacesGrows ==
  ASSUME NEW S, NEW T, NEW U, NEW i \in Nat, Replaces(S, T, i), Grows(T, U, i - 1)
  PROVE  Replaces(S, U, i)
<1>1. \A j \in Ins \ {i} : S.ar[j] # 0 => T.ar[j] # 0 /\ U.ar[j] = S.ar[j]
  BY DEF Grows, Replaces
<1>2. \A j \in 1 .. (i - 1) : j # i /\ j \in 1 .. i
  OBVIOUS
<1> QED
  BY <1>1, <1>2 DEF Grows, Replaces

LEMMA MoveServes ==
  ASSUME NEW S, NEW X, Sound(S, {}, X), NEW i \in Ins, S.reg[i] # NULL, NEW r \in Reg,
         Only(S, r, i), NEW T, T = Move(S, r, S.reg[i], i), Just(X, r, i)
  PROVE  /\ Sound(T, {}, {}) /\ T.reg = S.reg /\ T.ar = S.ar
         /\ \A n \in T.needs : n \in S.needs \/ n[2] = i
<1>1. r \in Place
  BY Basics
<1>2. /\ Sound(T, {}, X \ {<<r, i>>}) /\ T.reg = S.reg /\ T.ar = S.ar
      /\ T.needs = (S.needs \ {<<r, i>>}) \cup {<<S.reg[i], i>>}
  BY <1>1, MoveSound
<1>3. X \ {<<r, i>>} = {}
  BY DEF Just
<1>4. Sound(T, {}, {})
  BY <1>2, <1>3
<1>5. ASSUME NEW n \in T.needs PROVE n \in S.needs \/ n[2] = i
  <2>1. n \in S.needs \/ n = <<S.reg[i], i>>
    BY <1>2
  <2> QED
    BY <2>1
<1> QED
  BY <1>2, <1>4, <1>5

LEMMA OperandKept ==
  ASSUME NEW T, NEW i \in Ins, NEW a \in Ins, a # i, NEW r \in Reg, T.active[r] = i,
         NEW X, Just(X, r, a), Sound(T, {}, X), NoneOf(T, i), T.reg[a] # NULL,
         NEW W, W = Move(T, r, T.reg[a], a), NEW U, U = FreeResourcesOf(W, i)
  PROVE  Sound(U, {}, {}) /\ U.reg[a] # NULL /\ Defines(T, U, i, {})
<1>1. IsState(T)
  BY DEF Sound
<1>2. /\ T.needs \subseteq Place \X Ins /\ T.ar \in [Ins -> 0 .. NumIns]
      /\ T.reg \in [Ins -> Reg \cup {NULL}]
  BY <1>1, Fields
<1>3. Only(T, r, a)
  <2> SUFFICES ASSUME NEW n \in T.needs, n[1] = r PROVE n[2] = a
    BY DEF Only
  <2>1. n[2] # i
    BY DEF NoneOf
  <2>2. n[2] \in Ins /\ NumIns \in Nat
    BY <1>2, RegAssumption
  <2>3. T.ar[n[2]] \in Nat
    BY <1>2, <2>2
  <2>4. ~Has(T, n)
    BY <2>1, <2>3, Basics DEF Has, InReg, InSlot
  <2>5. n \in X
    BY <2>4 DEF Sound
  <2> QED
    BY <2>5 DEF Just
<1>4. /\ Sound(W, {}, {}) /\ W.reg = T.reg /\ W.ar = T.ar
      /\ \A n \in W.needs : n \in T.needs \/ n[2] = a
  BY <1>3, MoveServes
<1>5. NoneOf(W, i)
  BY <1>4 DEF NoneOf
<1>6. Sound(U, {}, {}) /\ Freed(W, U, i)
  <2>1. PICK none : none = {}
    OBVIOUS
  <2>2. Sound(W, {}, none)
    BY <1>4, <2>1
  <2>3. Sound(U, {}, none) /\ Freed(W, U, i)
    BY <1>5, <2>2, FreeSound
  <2> QED
    BY <2>1, <2>3
<1>7. U.reg = [T.reg EXCEPT ![i] = NULL]
  BY <1>4, <1>6 DEF Freed
<1>8. U.reg[a] # NULL
  BY <1>2, <1>7
<1>9. Defines(W, U, i, {})
  BY <1>4, <1>6, FreedDefines DEF Sound
<1>10. Defines(T, U, i, {})
  BY <1>4, <1>9 DEF Defines, Extant
<1> QED
  BY <1>6, <1>8, <1>10

LEMMA OperandMovesIn ==
  ASSUME NEW T, NEW i \in Ins, NEW a \in Ins, a # i, NEW r \in Reg, T.reg[i] = r,
         NEW X, Just(X, r, a), Sound(T, {}, X), NoneOf(T, i), T.reg[a] = NULL,
         NEW U, U = FreeResourcesOf(T, i), NEW V, V = AllocSpecificReg(U, a, r)
  PROVE  Sound(V, {}, {}) /\ U.reg[a] = NULL /\ Defines(T, V, i, {a})
<1>1. IsState(T) /\ r # NULL
  BY Basics DEF Sound
<1>2. T.reg \in [Ins -> Reg \cup {NULL}]
  BY <1>1, Fields
<1>3. Sound(U, {}, X) /\ Freed(T, U, i)
  BY FreeSound
<1>4. U.reg = [T.reg EXCEPT ![i] = NULL] /\ U.free = T.free \cup ({r} \ {NULL})
  BY <1>3 DEF Freed
<1>5. U.reg[a] = NULL /\ r \in U.free /\ U.reg \in [Ins -> Reg \cup {NULL}]
  BY <1>1, <1>2, <1>4
<1>6. Sound(V, {}, Without(X, r)) /\ Given(U, V, a, r)
  <2>1. PICK none : none = {}
    OBVIOUS
  <2>2. Sound(U, none, X) /\ none \subseteq {a} /\ (U.reg[a] # NULL => a \in none)
    BY <1>3, <1>5, <2>1
  <2>3. NeedsBut(X, r, a)
    BY DEF NeedsBut, Just
  <2> QED
    BY <1>5, <2>2, <2>3, AllocSpecificSound
<1>7. Without(X, r) = {}
  BY DEF Without, Just
<1>8. Defines(T, U, i, {})
  BY <1>1, <1>3, FreedDefines
<1>9. V.ar = U.ar /\ \A j \in Ins : j # a => V.reg[j] = U.reg[j]
  BY <1>5, <1>6 DEF Given
<1>10. Defines(T, V, i, {a})
  <2>1. \A j \in Ins \ {i} : T.ar[j] # 0 => V.ar[j] = T.ar[j]
    BY <1>8, <1>9 DEF Defines
  <2>2. \A j \in Ins : Extant(U, j) => j # i /\ Extant(T, j)
    BY <1>8 DEF Defines
  <2>3. \A j \in Ins : Extant(V, j) => j = a \/ Extant(U, j)
    BY <1>9 DEF Extant
  <2> QED
    BY <2>1, <2>2, <2>3 DEF Defines
<1> QED
  BY <1>5, <1>6, <1>7, <1>10

\* The code of a two-address instruction, from the copy of a to its end.
Over(S, i, a, reads, V) ==
  LET r == S.reg[i]
      q == OperandReg(S, i, a)
      T == Write(S, r, i, reads)
      U == FreeResourcesOf(IF q = r THEN T ELSE Move(T, r, q, a), i)
  IN IF U.reg[a] # NULL THEN V = U ELSE S.reg[a] = NULL => V = AllocSpecificReg(U, a, r)

LEMMA ResultOverOperand ==
  ASSUME NEW S, Sound(S, {}, {}), NEW i \in Ins, NEW a \in Ins, a # i, S.reg[i] # NULL,
         Spilled(S, i), NEW reads, NEW X, Just(X, S.reg[i], a), Reads(S, i, reads, X),
         NEW V, Over(S, i, a, reads, V)
  PROVE  Sound(V, {}, {}) /\ Defines(S, V, i, {a})
<1>1. PICK r \in Reg : r = S.reg[i]
  BY DEF Sound, IsState
<1>2. S.active[r] = i
  BY <1>1, Basics DEF Sound, Agree
<1>3. Just(X, r, a)
  BY <1>1
<1>4. PICK T : T = Write(S, S.reg[i], i, reads)
  OBVIOUS
<1>5. /\ Sound(T, {}, X) /\ NoneOf(T, i)
      /\ T.reg = S.reg /\ T.ar = S.ar /\ T.free = S.free /\ T.active = S.active
  BY <1>4, ResultWritten
<1>6. \A D : Defines(T, V, i, D) => Defines(S, V, i, D)
  BY <1>5 DEF Defines, Extant
<1>7. CASE S.reg[a] # NULL
  <2>1. S.reg[a] # r
    BY <1>1, <1>2, <1>7 DEF Sound, Agree
  <2>2. PICK W : W = Move(T, r, T.reg[a], a)
    OBVIOUS
  <2>3. PICK U : U = FreeResourcesOf(W, i)
    OBVIOUS
  <2>4. Sound(U, {}, {}) /\ U.reg[a] # NULL /\ Defines(T, U, i, {})
    <3>1. T.active[r] = i /\ T.reg[a] # NULL
      BY <1>1, <1>2, <1>5, <1>7
    <3> QED
      BY <1>3, <1>5, <2>2, <2>3, <3>1, OperandKept
  <2>5. OperandReg(S, i, a) = S.reg[a] /\ T.reg[a] = S.reg[a]
    BY <1>5, <1>7 DEF OperandReg
  <2>6. V = U
    BY <1>1, <1>4, <2>1, <2>2, <2>3, <2>4, <2>5 DEF Over
  <2>7. Defines(T, V, i, {a})
    BY <2>4, <2>6 DEF Defines
  <2> QED
    BY <1>6, <2>4, <2>6, <2>7
<1>8. CASE S.reg[a] = NULL
  <2>1. PICK U : U = FreeResourcesOf(T, i)
    OBVIOUS
  <2>2. PICK W : W = AllocSpecificReg(U, a, r)
    OBVIOUS
  <2>3. Sound(W, {}, {}) /\ U.reg[a] = NULL /\ Defines(T, W, i, {a})
    <3>1. T.reg[i] = r /\ T.reg[a] = NULL
      BY <1>1, <1>5, <1>8
    <3> QED
      BY <1>3, <1>5, <2>1, <2>2, <3>1, OperandMovesIn
  <2>4. OperandReg(S, i, a) = r
    BY <1>1, <1>8 DEF OperandReg
  <2>5. V = W
    BY <1>1, <1>4, <1>8, <2>1, <2>2, <2>3, <2>4 DEF Over
  <2> QED
    BY <1>6, <2>3, <2>5
<1> QED
  BY <1>7, <1>8

LEMMA TwoAddressSound ==
  ASSUME NEW S, Sound(S, {}, {}), NEW i \in Ins, NEW a \in Ins, a # i, S.reg[i] # NULL,
         Spilled(S, i), NEW reads, NEW X, Just(X, S.reg[i], a), Reads(S, i, reads, X),
         NEW V, V = TwoAddress(S, i, a, reads)
  PROVE  Sound(V, {}, {}) /\ Defines(S, V, i, {a})
<1>1. PICK all : all = {<<S.reg[i], a>>} \cup reads
  OBVIOUS
<1>2. <<S.reg[i], a>> \in Place \X Ins
  BY InItsRegister
<1>3. Reads(S, i, all, X)
  BY <1>1, <1>2 DEF Reads, Just
<1>4. Over(S, i, a, all, V)
  BY <1>1 DEF Over, TwoAddress, OperandReg
<1> QED
  BY <1>3, <1>4, ResultOverOperand

LEMMA NoReads == ASSUME NEW S, NEW i, NEW X PROVE Reads(S, i, {}, X)
BY DEF Reads

LEMMA UnarySound ==
  ASSUME program \in Programs, NEW S, Sound(S, {}, {}), NEW i \in Ins, NEW a \in 1 .. (i - 1),
         NEW T \in Unary(S, i, a)
  PROVE  Sound(T, {}, {}) /\ Replaces(S, T, i)
<1>1. i \in Nat /\ a \in Ins /\ a # i /\ i \in 1 .. i
  BY RegAssumption DEF Ins
<1>2. PICK U \in PrepareResultReg(S, i, Reg) : T = TwoAddress(U, i, a, {})
  BY DEF Unary
<1>3. Sound(U, {}, {}) /\ Found(S, U, i, Reg) /\ Spilled(U, i)
  BY <1>2, PrepareSound
<1>4. U.reg[i] # NULL
  BY <1>3, Basics DEF Found
<1>5. PICK none, X : none = {} /\ Just(X, U.reg[i], a)
  BY DEF Just
<1>6. Reads(U, i, none, X) /\ T = TwoAddress(U, i, a, none)
  BY <1>2, <1>5, NoReads
<1>7. Sound(T, {}, {}) /\ Defines(U, T, i, {a})
  BY <1>1, <1>3, <1>4, <1>5, <1>6, TwoAddressSound
<1>8. Replaces(U, T, i)
  BY <1>1, <1>7, DefinesReplaces
<1>9. Grows(S, U, i)
  BY <1>1, <1>3, FoundGrows
<1> QED
  BY <1>7, <1>8, <1>9, GrowsReplaces

\* An operand that is found after the result's register.
LEMMA SourceFound ==
  ASSUME program \in Programs, NEW S, Sound(S, {}, {}), NEW i \in Ins, Spilled(S, i),
         S.reg[i] # NULL, NEW a \in 1 .. (i - 1), NEW allow \in SUBSET Reg,
         S.reg[i] \notin allow, NEW T \in FindRegFor(S, a, allow)
  PROVE  /\ Sound(T, {}, {}) /\ Spilled(T, i) /\ Grows(S, T, i)
         /\ T.reg[i] = S.reg[i] /\ T.reg[a] \in allow
<1>1. a \in Ins /\ a # i /\ a \in 1 .. i
  BY RegAssumption DEF Ins
<1>2. Sound(T, {}, {}) /\ Found(S, T, a, allow)
  BY <1>1, FindPlain
<1>3. T.reg[i] = S.reg[i] /\ T.reg[a] \in allow
  BY <1>1, <1>2 DEF Found, Stay
<1>4. PICK D : D = {j \in Ins \ {a} : S.reg[j] \in allow}
  OBVIOUS
<1>5. Spills(S, T, D) /\ i \notin D
  BY <1>2, <1>4 DEF Found
<1>6. Spilled(T, i)
  BY <1>5, StaysSpilled
<1>7. Grows(S, T, i)
  BY <1>1, <1>2, FoundGrows
<1> QED
  BY <1>2, <1>3, <1>6, <1>7

LEMMA ReadsRegister ==
  ASSUME NEW S, Sound(S, {}, {}), NEW i \in Ins, NEW a \in Ins, a # i, S.reg[a] # NULL, NEW X
  PROVE  Reads(S, i, {<<S.reg[a], a>>}, X)
<1>1. <<S.reg[a], a>> \in Place \X Ins /\ Has(S, <<S.reg[a], a>>)
  BY InItsRegister
<1> QED
  BY <1>1 DEF Reads

LEMMA ResultFreed ==
  ASSUME NEW S, Sound(S, {}, {}), NEW i \in Ins, S.reg[i] # NULL, Spilled(S, i),
         NEW reads, Reads(S, i, reads, {}),
         NEW T, T = FreeResourcesOf(Write(S, S.reg[i], i, reads), i)
  PROVE  Sound(T, {}, {}) /\ Replaces(S, T, i)
<1>1. PICK none : none = {}
  OBVIOUS
<1>2. PICK U : U = Write(S, S.reg[i], i, reads)
  OBVIOUS
<1>3. Sound(U, {}, none) /\ NoneOf(U, i) /\ U.reg = S.reg /\ U.ar = S.ar
  <2>1. Reads(S, i, reads, none)
    BY <1>1
  <2> QED
    BY <1>2, <2>1, ResultWritten
<1>4. Sound(T, {}, none) /\ Freed(U, T, i)
  <2>1. T = FreeResourcesOf(U, i)
    BY <1>2
  <2> QED
    BY <1>3, <2>1, FreeSound
<1>5. Defines(U, T, i, {})
  BY <1>3, <1>4, FreedDefines DEF Sound
<1>6. Replaces(S, T, i)
  BY <1>3, <1>5 DEF Defines, Replaces, Extant
<1> QED
  BY <1>1, <1>4, <1>6

LEMMA PreparedFor ==
  ASSUME program \in Programs, NEW S, Sound(S, {}, {}), NEW i \in Ins, NEW allow \in SUBSET Reg,
         NEW T \in PrepareResultReg(S, i, allow)
  PROVE  /\ Sound(T, {}, {}) /\ Spilled(T, i) /\ Grows(S, T, i) /\ Found(S, T, i, allow)
         /\ T.reg[i] # NULL /\ T.reg[i] \in allow
<1>1. Sound(T, {}, {}) /\ Found(S, T, i, allow) /\ Spilled(T, i)
  BY PrepareSound
<1>2. i \in 1 .. i
  BY RegAssumption DEF Ins
<1>3. Grows(S, T, i)
  BY <1>1, <1>2, FoundGrows
<1> QED
  BY <1>1, <1>3, Basics DEF Found

LEMMA NullarySound ==
  ASSUME program \in Programs, NEW S, Sound(S, {}, {}), NEW i \in Ins, NEW allow \in SUBSET Reg,
         NEW T \in Nullary(S, i, allow, {})
  PROVE  Sound(T, {}, {}) /\ Replaces(S, T, i)
<1>1. PICK U \in PrepareResultReg(S, i, allow) :
        T = FreeResourcesOf(Write(U, U.reg[i], i, {}), i)
  BY DEF Nullary
<1>2. Sound(U, {}, {}) /\ Spilled(U, i) /\ Grows(S, U, i) /\ U.reg[i] # NULL
  BY <1>1, PreparedFor
<1>3. PICK none : none = {}
  OBVIOUS
<1>4. T = FreeResourcesOf(Write(U, U.reg[i], i, none), i) /\ Reads(U, i, none, {})
  BY <1>1, <1>3, NoReads
<1>5. Sound(T, {}, {}) /\ Replaces(U, T, i)
  BY <1>2, <1>4, ResultFreed
<1> QED
  BY <1>2, <1>5, GrowsReplaces

LEMMA LoadSound ==
  ASSUME program \in Programs, NEW S, Sound(S, {}, {}), NEW i \in Ins, NEW a \in 1 .. (i - 1),
         NEW T \in Load(S, i, a)
  PROVE  Sound(T, {}, {}) /\ Replaces(S, T, i)
<1>1. a \in Ins /\ a # i
  BY RegAssumption DEF Ins
<1>2. PICK P \in PrepareResultReg(S, i, Reg) :
        \E V \in FindRegFor(P, a, Reg \ {P.reg[i]}) :
          T = FreeResourcesOf(Write(V, V.reg[i], i, {<<V.reg[a], a>>}), i)
  BY DEF Load
<1>3. PICK U \in FindRegFor(P, a, Reg \ {P.reg[i]}) :
        T = FreeResourcesOf(Write(U, U.reg[i], i, {<<U.reg[a], a>>}), i)
  BY <1>2
<1>4. Sound(P, {}, {}) /\ Spilled(P, i) /\ Grows(S, P, i) /\ P.reg[i] # NULL
  BY <1>2, PreparedFor
<1>5. PICK allow \in SUBSET Reg : allow = Reg \ {P.reg[i]}
  OBVIOUS
<1>6. /\ Sound(U, {}, {}) /\ Spilled(U, i) /\ Grows(P, U, i)
      /\ U.reg[i] = P.reg[i] /\ U.reg[a] \in allow
  BY <1>3, <1>4, <1>5, SourceFound
<1>7. U.reg[i] # NULL /\ U.reg[a] # NULL
  BY <1>4, <1>6, Basics
<1>8. Reads(U, i, {<<U.reg[a], a>>}, {})
  BY <1>1, <1>6, <1>7, ReadsRegister
<1>9. Sound(T, {}, {}) /\ Replaces(U, T, i)
  BY <1>3, <1>6, <1>7, <1>8, ResultFreed
<1> QED
  BY <1>4, <1>6, <1>9, GrowsReplaces

LEMMA BinarySound ==
  ASSUME program \in Programs, NEW S, Sound(S, {}, {}), NEW i \in Ins, NEW a \in 1 .. (i - 1),
         NEW b \in 1 .. (i - 1), NEW T \in Binary(S, i, a, b)
  PROVE  Sound(T, {}, {}) /\ Replaces(S, T, i)
<1>1. i \in Nat /\ a \in Ins /\ a # i /\ b \in Ins /\ b # i /\ b \in 1 .. i
  BY RegAssumption DEF Ins
<1>2. CASE a = b
  <2>1. PICK U \in PrepareResultReg(S, i, Reg) :
          T = TwoAddress(U, i, a, {<<OperandReg(U, i, a), a>>})
    BY <1>2 DEF Binary
  <2>2. Sound(U, {}, {}) /\ Spilled(U, i) /\ Grows(S, U, i) /\ U.reg[i] # NULL
    BY <2>1, PreparedFor
  <2>3. PICK X : Just(X, U.reg[i], a)
    BY DEF Just
  <2>4. Reads(U, i, {<<OperandReg(U, i, a), a>>}, X)
    <3>1. CASE U.reg[a] # NULL
      BY <1>1, <2>2, <3>1, ReadsRegister DEF OperandReg
    <3>2. CASE U.reg[a] = NULL
      <4>1. <<U.reg[i], a>> \in Place \X Ins
        BY <1>1, <2>2, InItsRegister
      <4> QED
        BY <1>1, <2>3, <3>2, <4>1 DEF OperandReg, Reads, Just
    <3> QED
      BY <3>1, <3>2
  <2>5. Sound(T, {}, {}) /\ Defines(U, T, i, {a})
    BY <1>1, <2>1, <2>2, <2>3, <2>4, TwoAddressSound
  <2>6. Replaces(U, T, i)
    BY <1>1, <2>5, DefinesReplaces
  <2> QED
    BY <2>2, <2>5, <2>6, GrowsReplaces
<1>3. CASE a # b
  <2>1. PICK P \in FindRegFor(S, b, Reg) :
          \E V \in PrepareResultReg(P, i, Reg \ {P.reg[b]}) :
            T = TwoAddress(V, i, a, {<<V.reg[b], b>>})
    BY <1>3 DEF Binary
  <2>2. PICK U \in PrepareResultReg(P, i, Reg \ {P.reg[b]}) :
          T = TwoAddress(U, i, a, {<<U.reg[b], b>>})
    BY <2>1
  <2>3. Sound(P, {}, {}) /\ Found(S, P, b, Reg)
    BY <1>1, <2>1, FindPlain
  <2>4. Grows(S, P, i)
    BY <1>1, <2>3, FoundGrows
  <2>5. PICK allow \in SUBSET Reg : allow = Reg \ {P.reg[b]}
    OBVIOUS
  <2>6. /\ Sound(U, {}, {}) /\ Spilled(U, i) /\ Grows(P, U, i) /\ Found(P, U, i, allow)
        /\ U.reg[i] # NULL
    BY <2>2, <2>3, <2>5, PreparedFor
  <2>7. U.reg[b] # NULL
    BY <1>1, <2>3, <2>5, <2>6, Basics DEF Found, Stay
  <2>8. PICK X : Just(X, U.reg[i], a)
    BY DEF Just
  <2>9. Reads(U, i, {<<U.reg[b], b>>}, X)
    BY <1>1, <2>6, <2>7, ReadsRegister
  <2>10. Sound(T, {}, {}) /\ Defines(U, T, i, {a})
    BY <1>1, <2>2, <2>6, <2>8, <2>9, TwoAddressSound
  <2>11. Replaces(U, T, i)
    BY <1>1, <2>10, DefinesReplaces
  <2> QED
    BY <2>4, <2>6, <2>10, <2>11, GrowsReplaces
<1> QED
  BY <1>2, <1>3

LEMMA CmovSound ==
  ASSUME program \in Programs, NEW S, Sound(S, {}, {}), NEW i \in Ins, NEW a \in 1 .. (i - 1),
         NEW t \in 1 .. (i - 1), NEW f \in 1 .. (i - 1), NEW T \in Cmov(S, i, a, t, f)
  PROVE  Sound(T, {}, {}) /\ Replaces(S, T, i)
<1>1. /\ i \in Nat /\ a \in Ins /\ t \in Ins /\ t # i /\ f \in Ins /\ f # i
  BY RegAssumption DEF Ins
<1> DEFINE Rest(P) == UNION {Compare(CmovCode(V, i, t, f), a, a) :
                               V \in FindRegFor(P, f, Reg \ {P.reg[i]})}
<1>2. PICK P \in PrepareResultReg(S, i, Reg) : T \in Rest(P)
  <2>1. Cmov(S, i, a, t, f) = UNION {Rest(P) : P \in PrepareResultReg(S, i, Reg)}
    BY DEF Cmov
  <2> HIDE DEF Rest
  <2> QED
    BY <2>1
<1>3. PICK U \in FindRegFor(P, f, Reg \ {P.reg[i]}) : T \in Compare(CmovCode(U, i, t, f), a, a)
  BY <1>2
<1> HIDE DEF Rest
<1>4. Sound(P, {}, {}) /\ Spilled(P, i) /\ Grows(S, P, i) /\ P.reg[i] # NULL
  BY <1>2, PreparedFor
<1>5. PICK allow \in SUBSET Reg : allow = Reg \ {P.reg[i]}
  OBVIOUS
<1>6. /\ Sound(U, {}, {}) /\ Spilled(U, i) /\ Grows(P, U, i)
      /\ U.reg[i] = P.reg[i] /\ U.reg[f] \in allow
  BY <1>3, <1>4, <1>5, SourceFound
<1>7. U.reg[i] # NULL /\ U.reg[f] # NULL
  BY <1>4, <1>6, Basics
<1>8. PICK V : V = CmovCode(U, i, t, f)
  OBVIOUS
<1>9. PICK X : Just(X, U.reg[i], t)
  BY DEF Just
<1>10. PICK all : all = {<<U.reg[i], t>>, <<U.reg[f], f>>}
  OBVIOUS
<1>11. Reads(U, i, all, X)
  <2>1. Reads(U, i, {<<U.reg[f], f>>}, X)
    BY <1>1, <1>6, <1>7, ReadsRegister
  <2>2. <<U.reg[i], t>> \in Place \X Ins
    BY <1>1, <1>6, <1>7, InItsRegister
  <2> QED
    BY <1>1, <1>9, <1>10, <2>1, <2>2 DEF Reads, Just
<1>12. Over(U, i, t, all, V)
  BY <1>8, <1>10 DEF Over, CmovCode
<1>13. Sound(V, {}, {}) /\ Defines(U, V, i, {t})
  BY <1>1, <1>6, <1>7, <1>9, <1>11, <1>12, ResultOverOperand
<1>14. Replaces(U, V, i)
  BY <1>1, <1>13, DefinesReplaces
<1>15. Sound(T, {}, {}) /\ Brings(V, T, {a, a})
  <2>1. T \in Compare(V, a, a)
    BY <1>3, <1>8
  <2> QED
    BY <1>1, <1>13, <2>1, CompareSound
<1>16. Grows(V, T, i - 1)
  <2>1. Brings(V, T, {a})
    BY <1>15 DEF Brings
  <2> QED
    BY <2>1, BringsGrows
<1>17. Replaces(U, T, i)
  BY <1>1, <1>14, <1>16, ReplacesGrows
<1>18. Replaces(P, T, i)
  BY <1>6, <1>17, GrowsReplaces
<1> QED
  BY <1>4, <1>15, <1>18, GrowsReplaces

LEMMA NothingAt ==
  ASSUME NEW S, Sound(S, {}, {}), NEW r \in Reg, S.active[r] = NULL
  PROVE  \A n \in S.needs : n[1] # r
<1>1. PICK none : none = {}
  OBVIOUS
<1>2. Sound(S, {}, none) /\ Avoids(none, r)
  BY <1>1 DEF Avoids
<1>3. Only(S, r, S.active[r])
  BY <1>2, NeedsAt
<1>4. \A n \in S.needs : n[2] \in Ins
  BY DEF Sound, IsState, NeedSet
<1> QED
  BY <1>3, <1>4, Basics DEF Only

\* asm_div before b is found: the copy to ArgReg is seen from above it.
LEMMA DivCodeIsOver ==
  ASSUME NEW S, Sound(S, {}, {}), NEW i \in Ins, NEW a \in Ins, a # i, NEW b \in Ins,
         S.reg[i] = RetReg, S.active[ArgReg] = NULL, S.reg[b] # NULL,
         NEW V, V = DivCode(S, i, a, b)
  PROVE  Over(S, i, a, {<<RetReg, a>>, <<S.reg[b], b>>}, V)
<1>1. PICK all : all = {<<RetReg, a>>, <<S.reg[b], b>>}
  OBVIOUS
<1>2. /\ IsState(S) /\ S.active[RetReg] = i /\ RetReg \in Reg /\ ArgReg \in Reg
      /\ RetReg # ArgReg /\ RetReg # NULL /\ RetReg \in Place /\ ArgReg \in Place
      /\ S.reg[b] \in Place /\ S.reg[b] # ArgReg
  <2>1. IsState(S) /\ RetReg \in Reg /\ ArgReg \in Reg /\ RetReg # ArgReg /\ RetReg # NULL
    BY Basics DEF Sound
  <2>2. S.active[RetReg] = i /\ S.active[S.reg[b]] = b /\ S.reg[b] \in Reg /\ b # NULL
    BY <2>1, Basics DEF Sound, Agree, IsState
  <2> QED
    BY <2>1, <2>2, Basics
<1>3. \A n \in S.needs : n[1] # ArgReg
  BY <1>2, NothingAt
<1>4. Clobber(S, {ArgReg}) = S
  <2>1. {n \in S.needs : n[1] \in {ArgReg}} = {}
    BY <1>3
  <2> QED
    BY <2>1 DEF Clobber
<1>5. PICK reads : reads = {<<RetReg, a>>, <<ArgReg, a>>, <<S.reg[b], b>>}
  OBVIOUS
<1>6. PICK T : T = Write(S, RetReg, i, reads)
  OBVIOUS
<1>7. PICK U : U = Move(T, ArgReg, RetReg, a)
  OBVIOUS
<1>8. Only(S, RetReg, i)
  <2>1. PICK none : none = {}
    OBVIOUS
  <2>2. Sound(S, {}, none) /\ Avoids(none, RetReg)
    BY <2>1 DEF Avoids
  <2> QED
    BY <1>2, <2>2, NeedsAt
<1>9. T = [S EXCEPT !.needs = (S.needs \ {<<RetReg, i>>}) \cup reads]
  BY <1>2, <1>6, <1>8, WriteExact
<1>10. IsState(T) /\ T.needs = (S.needs \ {<<RetReg, i>>}) \cup reads
  <2>1. reads \in NeedSet
    BY <1>2, <1>5 DEF NeedSet
  <2> QED
    BY <1>2, <1>9, <2>1 DEF IsState, NeedSet
<1>11. Only(T, ArgReg, a)
  BY <1>2, <1>3, <1>5, <1>10 DEF Only
<1>12. U = [T EXCEPT !.needs = (T.needs \ {<<ArgReg, a>>}) \cup {<<RetReg, a>>}]
  <2>1. PICK one : one = {<<RetReg, a>>}
    OBVIOUS
  <2>2. U = Write(T, ArgReg, a, one)
    BY <1>7, <2>1 DEF Move
  <2>3. U = [T EXCEPT !.needs = (T.needs \ {<<ArgReg, a>>}) \cup one]
    BY <1>2, <1>10, <1>11, <2>2, WriteExact
  <2> QED
    BY <2>1, <2>3
<1>13. Write(S, RetReg, i, all) = [S EXCEPT !.needs = (S.needs \ {<<RetReg, i>>}) \cup all]
  BY <1>2, <1>8, WriteExact
<1>14. (T.needs \ {<<ArgReg, a>>}) \cup {<<RetReg, a>>} = (S.needs \ {<<RetReg, i>>}) \cup all
  <2>1. reads \ {<<ArgReg, a>>} = all
    BY <1>1, <1>2, <1>5
  <2>2. <<ArgReg, a>> \notin S.needs
    BY <1>3
  <2>3. <<RetReg, a>> \in all
    BY <1>1
  <2> QED
    BY <1>10, <2>1, <2>2, <2>3
<1>15. U = Write(S, RetReg, i, all)
  BY <1>2, <1>9, <1>12, <1>13, <1>14 DEF IsState
<1> QED
  BY <1>1, <1>4, <1>5, <1>6, <1>7, <1>15 DEF Over, DivCode, OperandReg

\* One register is emptied.
Emptied(S, T, r) ==
  /\ T.active[r] = NULL
  /\ \A q \in Reg \ {r} : T.active[q] = S.active[q]
  /\ Brings(S, T, {})

LEMMA EvictPlain ==
  ASSUME program \in Programs, NEW S, Sound(S, {}, {}), NEW r \in Reg, S.active[r] # NULL,
         NEW T, T = Evict(S, S.active[r])
  PROVE  Sound(T, {}, {}) /\ Emptied(S, T, r) /\ Spills(S, T, {S.active[r]})
<1>1. PICK j \in Ins : j = S.active[r]
  BY DEF Sound, IsState
<1>2. PICK none : none = {}
  OBVIOUS
<1>3. S.reg[j] = r /\ S.reg[j] # NULL
  BY <1>1, Basics DEF Sound, Agree
<1>4. Sound(S, none, none) /\ j \in Ins \ none /\ Avoids(none, S.reg[j])
      /\ Pending(S, none, none) /\ T = Evict(S, j)
  BY <1>1, <1>2 DEF Avoids, Pending
<1>5. Sound(T, none, none) /\ Retired(S, T, S.reg[j]) /\ Brings(S, T, {}) /\ Spills(S, T, {j})
  BY <1>3, <1>4, EvictSound
<1>6. S.active \in [Reg -> Ins \cup {NULL}]
  BY DEF Sound, IsState
<1>7. Emptied(S, T, r)
  BY <1>3, <1>5, <1>6 DEF Emptied, Retired
<1> QED
  BY <1>1, <1>2, <1>5, <1>7

\* A register that allow leaves alone and that is empty stays so.
LEMMA StaysEmpty ==
  ASSUME NEW S, NEW X, Sound(S, {}, X), NEW T, NEW Y, Sound(T, {}, Y), NEW i \in Ins, NEW allow,
         Found(S, T, i, allow), NEW r \in Reg, r \notin allow, S.active[r] = NULL
  PROVE  T.active[r] = NULL
<1> SUFFICES ASSUME T.active[r] # NULL PROVE FALSE
  OBVIOUS
<1>1. PICK k \in Ins : k = T.active[r]
  BY DEF Sound, IsState
<1>2. T.reg[k] = r
  BY <1>1, Basics DEF Sound, Agree
<1>3. k # i
  BY <1>2 DEF Found
<1>4. S.reg[k] = r
  BY <1>2, <1>3, Basics DEF Found, Stay
<1>5. S.active[r] = k
  BY <1>4, Basics DEF Sound, Agree
<1> QED
  BY <1>1, <1>5, Basics

LEMMA DivSound ==
  ASSUME program \in Programs, NEW S, Sound(S, {}, {}), NEW i \in Ins, NEW a \in 1 .. (i - 1),
         NEW b \in 1 .. (i - 1), NEW T \in Div(S, i, a, b)
  PROVE  Sound(T, {}, {}) /\ Replaces(S, T, i)
<1>1. /\ i \in Nat /\ a \in Ins /\ a # i /\ b \in Ins /\ b # i
      /\ ArgReg \in Reg /\ RetReg \in Reg /\ RetReg # ArgReg /\ RetReg # NULL
  BY RegAssumption, Basics DEF Ins
<1>2. PICK E : E = EvictIfActive(S, ArgReg)
  OBVIOUS
<1>3. PICK P \in PrepareResultReg(E, i, {RetReg}) :
        \E V \in FindRegFor(P, b, Reg \ {RetReg, ArgReg}) : T = DivCode(V, i, a, b)
  BY <1>2 DEF Div
<1>4. PICK allow \in SUBSET Reg : allow = Reg \ {RetReg, ArgReg}
  OBVIOUS
<1>5. PICK U \in FindRegFor(P, b, allow) : T = DivCode(U, i, a, b)
  BY <1>3, <1>4
<1>6. Sound(E, {}, {}) /\ E.active[ArgReg] = NULL /\ Grows(S, E, i)
  <2>1. CASE S.active[ArgReg] = NULL
    BY <1>2, <2>1 DEF EvictIfActive, Grows
  <2>2. CASE S.active[ArgReg] # NULL
    <3>1. E = Evict(S, S.active[ArgReg])
      BY <1>2, <2>2 DEF EvictIfActive
    <3>2. Sound(E, {}, {}) /\ Emptied(S, E, ArgReg)
      BY <1>1, <2>2, <3>1, EvictPlain
    <3> QED
      BY <3>2 DEF Emptied, Brings, Grows
  <2> QED
    BY <2>1, <2>2
<1>7. /\ Sound(P, {}, {}) /\ Spilled(P, i) /\ Grows(E, P, i) /\ Found(E, P, i, {RetReg})
      /\ P.reg[i] # NULL /\ P.reg[i] \in {RetReg}
  <2>1. PICK ret \in SUBSET Reg : ret = {RetReg}
    BY <1>1
  <2>2. P \in PrepareResultReg(E, i, ret)
    BY <1>3, <2>1
  <2>3. /\ Sound(P, {}, {}) /\ Spilled(P, i) /\ Grows(E, P, i) /\ Found(E, P, i, ret)
        /\ P.reg[i] # NULL /\ P.reg[i] \in ret
    BY <1>6, <2>2, PreparedFor
  <2> QED
    BY <2>1, <2>3
<1>8. P.active[ArgReg] = NULL
  <2>1. ArgReg \notin {RetReg}
    BY <1>1
  <2> QED
    BY <1>1, <1>6, <1>7, <2>1, StaysEmpty
<1>9. /\ Sound(U, {}, {}) /\ Spilled(U, i) /\ Grows(P, U, i)
      /\ U.reg[i] = P.reg[i] /\ U.reg[b] \in allow
  <2>1. P.reg[i] \notin allow
    BY <1>4, <1>7
  <2> QED
    BY <1>5, <1>7, <2>1, SourceFound
<1>10. U.active[ArgReg] = NULL
  <2>1. Found(P, U, b, allow)
    BY <1>1, <1>5, <1>7, FindPlain
  <2>2. ArgReg \notin allow
    BY <1>4
  <2> QED
    BY <1>1, <1>7, <1>8, <1>9, <2>1, <2>2, StaysEmpty
<1>11. U.reg[i] = RetReg /\ U.reg[b] # NULL
  BY <1>4, <1>7, <1>9, Basics
<1>12. Over(U, i, a, {<<RetReg, a>>, <<U.reg[b], b>>}, T)
  BY <1>1, <1>5, <1>9, <1>10, <1>11, DivCodeIsOver
<1>13. PICK all : all = {<<RetReg, a>>, <<U.reg[b], b>>}
  OBVIOUS
<1>14. PICK X : Just(X, U.reg[i], a)
  BY DEF Just
<1>15. Reads(U, i, all, X)
  <2>1. Reads(U, i, {<<U.reg[b], b>>}, X)
    BY <1>1, <1>9, <1>11, ReadsRegister
  <2>2. <<RetReg, a>> \in Place \X Ins
    BY <1>1, Basics
  <2> QED
    BY <1>1, <1>11, <1>13, <1>14, <2>1, <2>2 DEF Reads, Just
<1>16. Sound(T, {}, {}) /\ Defines(U, T, i, {a})
  <2>1. Over(U, i, a, all, T) /\ U.reg[i] # NULL
    BY <1>1, <1>11, <1>12, <1>13
  <2> QED
    BY <1>1, <1>9, <1>14, <1>15, <2>1, ResultOverOperand
<1>17. Replaces(U, T, i)
  BY <1>1, <1>16, DefinesReplaces
<1>18. Replaces(P, T, i)
  BY <1>9, <1>17, GrowsReplaces
<1>19. Replaces(E, T, i)
  BY <1>7, <1>18, GrowsReplaces
<1> QED
  BY <1>6, <1>16, <1>19, GrowsReplaces

-----------------------------------------------------------------------------
(* Instructions that define no value.                                      *)

LEMMA ReleaseSound ==
  ASSUME NEW S, Sound(S, {}, {}), NEW T, T = ReleaseRegisters(S)
  PROVE  /\ Sound(T, {}, {}) /\ T.ar = S.ar /\ T.needs = {}
         /\ \A r \in Reg : T.active[r] = NULL
         /\ \A i \in Ins : T.reg[i] = NULL
<1>1. /\ IsState(S) /\ S.active \in [Reg -> Ins \cup {NULL}] /\ S.free \subseteq Reg
      /\ S.reg \in [Ins -> Reg \cup {NULL}]
  BY DEF Sound, IsState
<1>2. PICK used : used = InUse(S.active)
  OBVIOUS
<1>3. used = {r \in Reg : S.active[r] # NULL}
  BY <1>1, <1>2 DEF InUse
<1>4. PICK held : held = {S.active[r] : r \in used}
  OBVIOUS
<1>5. PICK act, res, fr : /\ act = [r \in Reg |-> NULL] /\ fr = S.free \cup used
                          /\ res = [i \in Ins |-> IF i \in held THEN NULL ELSE S.reg[i]]
  OBVIOUS
<1> DEFINE U == [S EXCEPT !.free = fr, !.active = act, !.reg = res, !.needs = {}]
<1>6. T = U
  BY <1>1, <1>2, <1>4, <1>5 DEF ReleaseRegisters
<1>7. act \in [Reg -> Ins \cup {NULL}] /\ res \in [Ins -> Reg \cup {NULL}] /\ fr \in SUBSET Reg
  BY <1>1, <1>3, <1>5
<1>8. /\ U.free = fr /\ U.active = act /\ U.ar = S.ar /\ U.reg = res /\ U.needs = {}
      /\ IsState(U)
  BY <1>1, <1>7 DEF IsState, NeedSet
<1> HIDE DEF U
<1>9. \A i \in Ins : S.reg[i] # NULL => i \in held
  <2>1. \A i \in Ins : S.reg[i] # NULL => S.reg[i] \in Reg /\ S.active[S.reg[i]] = i
    BY <1>1 DEF Sound, Agree
  <2> QED
    BY <1>3, <1>4, <2>1, Basics
<1>10. /\ T.free = S.free \cup used /\ T.active = [r \in Reg |-> NULL] /\ T.ar = S.ar
      /\ T.reg = [i \in Ins |-> IF i \in held THEN NULL ELSE S.reg[i]] /\ T.needs = {}
      /\ IsState(T)
  BY <1>5, <1>6, <1>8
<1>11. \A i \in Ins : T.reg[i] = NULL
  BY <1>9, <1>10
<1>12. Agree(T, {})
  <2>1. \A r \in Reg : r \in T.free
    BY <1>3, <1>10 DEF Sound, Agree
  <2> QED
    BY <1>10, <1>11, <2>1 DEF Agree
<1>13. Disjoint(T)
  BY <1>10 DEF Sound, Disjoint
<1> QED
  BY <1>10, <1>11, <1>12, <1>13 DEF Sound

\* After releaseRegisters, assignSavedRegs.
Afresh(S, T) ==
  /\ T.ar = S.ar /\ T.needs = {}
  /\ \A p \in DOMAIN Param : T.active[Param[p]] = p
  /\ \A r \in Reg : T.active[r] # NULL => r \in SavedRegs
  /\ \A i \in Ins : T.reg[i] # NULL => i \in DOMAIN Param

LEMMA AssignSound ==
  ASSUME program \in Programs, NEW S, Sound(S, {}, {}),
         NEW T, T = AssignSavedRegs(ReleaseRegisters(S))
  PROVE  Sound(T, {}, {}) /\ Afresh(S, T)
<1>1. PICK R : R = ReleaseRegisters(S)
  OBVIOUS
<1>2. /\ Sound(R, {}, {}) /\ R.ar = S.ar /\ R.needs = {}
      /\ \A r \in Reg : R.active[r] = NULL
      /\ \A i \in Ins : R.reg[i] = NULL
  BY <1>1, ReleaseSound
<1>3. /\ IsState(R) /\ R.active \in [Reg -> Ins \cup {NULL}]
      /\ R.reg \in [Ins -> Reg \cup {NULL}]
  BY <1>2 DEF Sound, IsState
<1>4. /\ DOMAIN Param \subseteq Ins /\ \A p \in DOMAIN Param : Param[p] \in Reg
      /\ \A p \in DOMAIN Param : Param[p] \in SavedRegs
      /\ \A p, q \in DOMAIN Param : Param[p] = Param[q] => p = q
  BY ProgramFacts, RegAssumption
<1>5. PICK saved : saved = {Param[p] : p \in DOMAIN Param}
  OBVIOUS
<1>6. PICK act : act = [r \in Reg |-> IF r \in saved
                          THEN CHOOSE p \in DOMAIN Param : Param[p] = r ELSE R.active[r]]
  OBVIOUS
<1>7. PICK res : res = [i \in Ins |-> IF i \in DOMAIN Param THEN Param[i] ELSE R.reg[i]]
  OBVIOUS
<1>8. T = [R EXCEPT !.active = act, !.free = R.free \ saved, !.reg = res]
  BY <1>1, <1>5, <1>6, <1>7 DEF AssignSavedRegs
<1>9. \A r \in saved : /\ act[r] \in DOMAIN Param /\ Param[act[r]] = r /\ r \in SavedRegs
                       /\ r \in Reg
  BY <1>4, <1>5, <1>6
<1>10. \A r \in Reg \ saved : act[r] = NULL
  BY <1>2, <1>6
<1>11. /\ \A i \in DOMAIN Param : res[i] = Param[i] /\ Param[i] \in saved
       /\ \A i \in Ins \ DOMAIN Param : res[i] = NULL
  BY <1>2, <1>4, <1>5, <1>7
<1>12. act \in [Reg -> Ins \cup {NULL}] /\ res \in [Ins -> Reg \cup {NULL}]
  <2>1. \A r \in Reg : act[r] \in Ins \cup {NULL}
    BY <1>4, <1>9, <1>10
  <2>2. \A i \in Ins : res[i] \in Reg \cup {NULL}
    BY <1>4, <1>11
  <2> QED
    BY <1>6, <1>7, <2>1, <2>2
<1>13. /\ T.active = act /\ T.reg = res /\ T.free = R.free \ saved /\ T.ar = R.ar
       /\ T.needs = R.needs /\ IsState(T)
  BY <1>3, <1>8, <1>12 DEF IsState
<1>14. \A p \in DOMAIN Param : act[Param[p]] = p
  BY <1>4, <1>5, <1>9
<1>15. Agree(T, {})
  <2>1. \A r \in Reg : r \in T.free <=> T.active[r] = NULL
    <3>1. \A r \in Reg : r \in R.free
      BY <1>2 DEF Sound, Agree
    <3>2. \A r \in saved : act[r] # NULL
      BY <1>4, <1>9, Basics
    <3> QED
      BY <1>10, <1>13, <3>1, <3>2
  <2>2. \A r \in Reg : T.active[r] # NULL => T.reg[T.active[r]] = r
    BY <1>9, <1>10, <1>11, <1>13
  <2>3. \A i \in Ins : T.reg[i] # NULL => T.active[T.reg[i]] = i
    BY <1>11, <1>13, <1>14
  <2> QED
    BY <2>1, <2>2, <2>3 DEF Agree
<1>16. Disjoint(T)
  BY <1>2, <1>13 DEF Sound, Disjoint
<1>17. Afresh(S, T)
  BY <1>2, <1>9, <1>10, <1>11, <1>13, <1>14 DEF Afresh
<1> QED
  BY <1>2, <1>13, <1>15, <1>16, <1>17 DEF Sound

\* Reads of what is there, or in X.
ReadsOf(S, reads, X) == \A n \in reads : n \in Place \X Ins /\ (n \in X \/ Has(S, n))

LEMMA ReadServes ==
  ASSUME NEW S, NEW X, Sound(S, {}, X), NEW reads, ReadsOf(S, reads, X),
         NEW T, T = Read(S, reads)
  PROVE  /\ Sound(T, {}, X)
         /\ T.free = S.free /\ T.active = S.active /\ T.reg = S.reg /\ T.ar = S.ar
         /\ T.needs = S.needs \cup reads
<1>1. IsState(S)
  BY DEF Sound
<1>2. /\ T.free = S.free /\ T.active = S.active /\ T.reg = S.reg /\ T.ar = S.ar
      /\ T.needs = S.needs \cup reads /\ IsState(T)
  BY <1>1 DEF IsState, NeedSet, Read, ReadsOf
<1>3. Agree(T, {}) /\ Disjoint(T)
  BY <1>2 DEF Sound, Agree, Disjoint
<1>4. \A n : Has(S, n) => Has(T, n)
  BY <1>2 DEF Has, InReg, InSlot
<1>5. \A n \in T.needs : n \in X \/ Has(T, n)
  BY <1>2, <1>4 DEF Sound, ReadsOf
<1> QED
  BY <1>2, <1>3, <1>5 DEF Sound

LEMMA SoundMore ==
  ASSUME NEW S, Sound(S, {}, {}), NEW X
  PROVE  Sound(S, {}, X)
BY DEF Sound

LEMMA ReadSavedSound ==
  ASSUME program \in Programs, NEW S, NEW X, Sound(S, {}, X),
         \A p \in DOMAIN Param : S.active[Param[p]] = p, NEW T, T = ReadSavedRegs(S)
  PROVE  Sound(T, {}, X) /\ T.free = S.free /\ T.active = S.active /\ T.reg = S.reg /\ T.ar = S.ar
<1>1. /\ DOMAIN Param \subseteq Ins /\ \A p \in DOMAIN Param : Param[p] \in Reg
  BY ProgramFacts, RegAssumption
<1>2. PICK reads : reads = {<<Param[p], p>> : p \in DOMAIN Param}
  OBVIOUS
<1>3. T = Read(S, reads)
  BY <1>2 DEF ReadSavedRegs
<1>4. ReadsOf(S, reads, X)
  <2> SUFFICES ASSUME NEW p \in DOMAIN Param
               PROVE  /\ <<Param[p], p>> \in Place \X Ins
                      /\ Has(S, <<Param[p], p>>)
    BY <1>2 DEF ReadsOf
  <2>1. Param[p] \in Reg /\ Param[p] \in Place /\ p \in Ins
    BY <1>1, Basics
  <2> QED
    BY <2>1 DEF Has, InReg
<1> QED
  BY <1>3, <1>4, ReadServes

LEMMA RetSound ==
  ASSUME program \in Programs, NEW S, Sound(S, {}, {}), NEW n \in 0 .. NumIns, NEW v \in 1 .. n,
         DOMAIN Param \subseteq 1 .. n,
         NEW T \in FindRegFor(
                     ReadSavedRegs(Read(AssignSavedRegs(ReleaseRegisters(S)), {<<RetReg, v>>})),
                     v, {RetReg})
  PROVE  Sound(T, {}, {}) /\ Grows(S, T, n)
<1>1. /\ v \in Ins /\ RetReg \in Reg /\ RetReg \in Place /\ RetReg \notin SavedRegs
  BY RegAssumption, Basics DEF Ins, Scratch
<1>2. PICK A : A = AssignSavedRegs(ReleaseRegisters(S))
  OBVIOUS
<1>3. Sound(A, {}, {}) /\ Afresh(S, A)
  BY <1>2, AssignSound
<1>4. PICK X : Just(X, RetReg, v)
  BY DEF Just
<1>5. PICK one : one = {<<RetReg, v>>}
  OBVIOUS
<1>6. PICK B : B = Read(A, one)
  OBVIOUS
<1>7. Sound(B, {}, X) /\ B.free = A.free /\ B.active = A.active /\ B.reg = A.reg /\ B.ar = A.ar
  <2>1. ReadsOf(A, one, X)
    BY <1>1, <1>4, <1>5 DEF ReadsOf, Just
  <2> QED
    BY <1>3, <1>6, <2>1, SoundMore, ReadServes
<1>8. PICK C : C = ReadSavedRegs(B)
  OBVIOUS
<1>9. Sound(C, {}, X) /\ C.free = A.free /\ C.active = A.active /\ C.reg = A.reg /\ C.ar = A.ar
  <2>1. \A p \in DOMAIN Param : B.active[Param[p]] = p
    BY <1>3, <1>7 DEF Afresh
  <2> QED
    BY <1>7, <1>8, <2>1, ReadSavedSound
<1>10. PICK ret \in SUBSET Reg : ret = {RetReg}
  BY <1>1
<1>11. Open(C, X, v, ret)
  <2>1. RetReg \in A.free
    BY <1>1, <1>3 DEF Afresh, Sound, Agree
  <2> QED
    BY <1>1, <1>4, <1>9, <2>1 DEF Open, Just, Regs
<1>12. T \in FindRegFor(C, v, ret)
  BY <1>2, <1>5, <1>6, <1>8, <1>10
<1>13. Sound(T, {}, Without(X, T.reg[v])) /\ Found(C, T, v, ret)
  BY <1>1, <1>9, <1>11, <1>12, FindRegForSound
<1>14. Without(X, T.reg[v]) = {}
  BY <1>4, <1>10, <1>13 DEF Without, Just, Found
<1>15. Grows(C, T, n)
  BY <1>13, FoundGrows
<1>16. Grows(S, C, n)
  BY <1>3, <1>9 DEF Grows, Extant, Afresh
<1> QED
  BY <1>13, <1>14, <1>15, <1>16, GrowsGrows

LEMMA AfreshGrows ==
  ASSUME NEW S, NEW T, Afresh(S, T), NEW n, DOMAIN Param \subseteq 1 .. n
  PROVE  Grows(S, T, n)
BY DEF Grows, Extant, Afresh

LEMMA CompareGrows ==
  ASSUME program \in Programs, NEW S, Sound(S, {}, {}), NEW n \in 0 .. NumIns, NEW a \in 1 .. n,
         NEW b \in 1 .. n, NEW T \in Compare(S, a, b)
  PROVE  Sound(T, {}, {}) /\ Grows(S, T, n)
<1>1. a \in Ins /\ b \in Ins
  BY RegAssumption DEF Ins
<1>2. Sound(T, {}, {}) /\ Brings(S, T, {a, b})
  BY <1>1, CompareSound
<1> QED
  BY <1>2 DEF Brings, Grows

\* All values in registers have slots as well, but for the registers in todo.
Backed(S, todo) ==
  \A r \in Reg : S.active[r] # NULL => r \in todo \/ S.ar[S.active[r]] # 0

\* The register state is the same but for one value, which was given a register.
LEMMA FoundBacked ==
  ASSUME NEW S, Sound(S, {}, {}), NEW T, Sound(T, {}, {}), NEW i \in Ins, NEW allow,
         Found(S, T, i, allow), S.ar[i] # 0, Backed(S, {})
  PROVE  Backed(T, {})
<1> SUFFICES ASSUME NEW r \in Reg, T.active[r] # NULL PROVE T.ar[T.active[r]] # 0
  BY DEF Backed
<1>1. PICK k \in Ins : k = T.active[r]
  BY DEF Sound, IsState
<1>2. CASE k = i
  BY <1>1, <1>2 DEF Found, Brings
<1>3. CASE k # i
  <2>1. T.reg[k] = r
    BY <1>1, Basics DEF Sound, Agree
  <2>2. S.reg[k] = r
    BY <1>3, <2>1, Basics DEF Found, Stay
  <2>3. S.active[r] = k
    BY <2>2, Basics DEF Sound, Agree
  <2>4. S.ar[k] # 0
    BY <2>3, Basics DEF Backed
  <2> QED
    BY <1>1, <2>4 DEF Found, Brings
<1> QED
  BY <1>2, <1>3

LEMMA FindMemGrows ==
  ASSUME NEW S, Sound(S, {}, {}), NEW n \in 0 .. NumIns, NEW i \in 1 .. n,
         NEW T, T = FindMemFor(S, i)
  PROVE  /\ Sound(T, {}, {}) /\ Grows(S, T, n) /\ T.ar[i] # 0
         /\ Backed(S, {}) => Backed(T, {})
<1>1. i \in Ins /\ IsState(S)
  BY RegAssumption DEF Ins, Sound
<1>2. PICK none : none = {}
  OBVIOUS
<1>3. Sound(S, none, none)
  BY <1>2
<1>4. Sound(T, none, none) /\ Brings(S, T, {i})
  BY <1>1, <1>3, FindMemForSound
<1>5. T.ar[i] # 0 /\ T.active = S.active
  BY <1>1, FindMemForOK
<1>6. Grows(S, T, n)
  BY <1>4, BringsGrows
<1>7. Backed(S, {}) => Backed(T, {})
  <2>1. S.active \in [Reg -> Ins \cup {NULL}]
    BY <1>1 DEF IsState
  <2> QED
    BY <1>4, <1>5, <2>1 DEF Backed, Brings
<1> QED
  BY <1>2, <1>4, <1>5, <1>6, <1>7

LEMMA HandleLiveSound ==
  ASSUME program \in Programs, NEW S, Sound(S, {}, {}), NEW n \in 0 .. NumIns, NEW i \in 1 .. n,
         NEW T \in HandleLive(S, i)
  PROVE  /\ Sound(T, {}, {}) /\ Grows(S, T, n) /\ T.ar[i] # 0
         /\ Backed(S, {}) => Backed(T, {})
<1>1. i \in Ins
  BY RegAssumption DEF Ins
<1>2. PICK U : U = FindMemFor(S, i)
  OBVIOUS
<1>3. /\ Sound(U, {}, {}) /\ Grows(S, U, n) /\ U.ar[i] # 0
      /\ Backed(S, {}) => Backed(U, {})
  BY <1>2, FindMemGrows
<1>4. CASE i \in Imm
  BY <1>2, <1>3, <1>4 DEF HandleLive
<1>5. CASE i \notin Imm
  <2>1. T \in FindRegFor(U, i, Reg)
    BY <1>2, <1>5 DEF HandleLive
  <2>2. Sound(T, {}, {}) /\ Found(U, T, i, Reg)
    BY <1>1, <1>3, <2>1, FindPlain
  <2>3. Grows(U, T, n)
    BY <2>2, FoundGrows
  <2>4. T.ar[i] # 0
    BY <1>1, <1>3, <2>3 DEF Grows
  <2>5. Backed(U, {}) => Backed(T, {})
    BY <1>1, <1>3, <2>2, FoundBacked
  <2> QED
    BY <1>3, <2>2, <2>3, <2>4, <2>5, GrowsGrows
<1> QED
  BY <1>4, <1>5

LEMMA RegArgSound ==
  ASSUME program \in Programs, NEW S, NEW X, Sound(S, {}, X), NEW i \in Ins, NEW r \in Reg,
         Just(X, r, i), S.active[r] = NULL, NEW T \in RegArg(S, i, r)
  PROVE  Sound(T, {}, {}) /\ Brings(S, T, {i})
<1>1. IsState(S) /\ r \in Place /\ r \in S.free
  BY Basics DEF Sound, Agree
<1>2. CASE i \in Imm
  <2>1. PICK none : none = {}
    OBVIOUS
  <2>2. T = Write(S, r, i, none)
    BY <1>2, <2>1 DEF RegArg
  <2>3. Only(S, r, i)
    <3> SUFFICES ASSUME NEW n \in S.needs, n[1] = r, n \notin X PROVE FALSE
      BY DEF Only, Just
    <3>1. S.needs \subseteq Place \X Ins /\ S.ar \in [Ins -> 0 .. NumIns] /\ NumIns \in Nat
      BY <1>1, Fields, RegAssumption
    <3>2. n[2] \in Ins
      BY <3>1
    <3>3. S.ar[n[2]] \in Nat
      BY <3>1, <3>2
    <3> QED
      BY <3>2, <3>3, Basics DEF Sound, Has, InReg, InSlot
  <2>4. T = [S EXCEPT !.needs = (S.needs \ {<<r, i>>}) \cup none]
    BY <1>1, <2>2, <2>3, WriteExact
  <2>5. /\ T.free = S.free /\ T.active = S.active /\ T.reg = S.reg /\ T.ar = S.ar
        /\ T.needs = S.needs \ {<<r, i>>} /\ IsState(T)
    BY <1>1, <2>1, <2>4 DEF IsState, NeedSet
  <2>6. Agree(T, {}) /\ Disjoint(T)
    BY <2>5 DEF Sound, Agree, Disjoint
  <2>7. \A n : Has(S, n) => Has(T, n)
    BY <2>5 DEF Has, InReg, InSlot
  <2>8. \A n \in T.needs : Has(T, n)
    BY <2>5, <2>7 DEF Sound, Just
  <2>9. Brings(S, T, {i})
    BY <2>5 DEF Brings, Extant
  <2> QED
    BY <2>5, <2>6, <2>8, <2>9 DEF Sound
<1>3. CASE i \notin Imm
  <2>1. PICK one \in SUBSET Reg : one = {r}
    OBVIOUS
  <2>2. T \in FindRegFor(S, i, one)
    BY <1>3, <2>1 DEF RegArg
  <2>3. Open(S, X, i, one)
    BY <1>1 DEF Open, Just, Regs
  <2>4. Sound(T, {}, Without(X, T.reg[i])) /\ Found(S, T, i, one)
    BY <2>2, <2>3, FindRegForSound
  <2>5. Without(X, T.reg[i]) = {}
    BY <2>1, <2>4 DEF Without, Just, Found
  <2> QED
    BY <2>4, <2>5 DEF Found
<1> QED
  BY <1>2, <1>3

\* The registers a call leaves nothing in but its result, if value v is one.
CallReady(S, v) ==
  /\ v # 0 => v \in Ins /\ S.reg[v] = RetReg /\ Spilled(S, v)
  /\ \A r \in Scratch : S.active[r] # NULL => v # 0 /\ r = RetReg

ArgNeeds(arg, addr) == {<<ArgReg, arg>>} \cup IF addr = 0 THEN {} ELSE {<<RetReg, addr>>}

LEMMA QuietCall ==
  ASSUME NEW S, Sound(S, {}, {}), NEW v, CallReady(S, v),
         NEW T, T = IF v = 0 THEN S ELSE Write(S, RetReg, v, {})
  PROVE  /\ Sound(T, {}, {}) /\ Clobber(T, Scratch) = T
         /\ T.reg = S.reg /\ T.ar = S.ar /\ T.active = S.active
         /\ v # 0 => NoneOf(T, v)
<1>1. RetReg \in Reg /\ RetReg # NULL /\ Scratch \subseteq Reg
  BY Basics DEF Scratch
<1>2. CASE v = 0
  <2>1. T = S
    BY <1>2
  <2>2. \A n \in S.needs : \A r \in Scratch : n[1] # r
    <3> SUFFICES ASSUME NEW r \in Scratch PROVE \A n \in S.needs : n[1] # r
      OBVIOUS
    <3>1. S.active[r] = NULL /\ r \in Reg
      BY <1>1, <1>2 DEF CallReady
    <3> QED
      BY <3>1, NothingAt
  <2>3. {n \in S.needs : n[1] \in Scratch} = {}
    BY <2>2
  <2> QED
    BY <1>2, <2>1, <2>3 DEF Clobber
<1>3. CASE v # 0
  <2>1. v \in Ins /\ S.reg[v] = RetReg /\ S.reg[v] # NULL /\ Spilled(S, v)
    BY <1>1, <1>3 DEF CallReady
  <2>2. PICK none : none = {}
    OBVIOUS
  <2>3. T = Write(S, S.reg[v], v, none)
    BY <1>3, <2>1, <2>2
  <2>4. Reads(S, v, none, none)
    BY <2>2 DEF Reads
  <2>5. /\ Sound(T, {}, none) /\ NoneOf(T, v)
        /\ T.reg = S.reg /\ T.ar = S.ar /\ T.active = S.active
    BY <2>1, <2>3, <2>4, ResultWritten
  <2>6. Sound(T, {}, {})
    BY <2>2, <2>5
  <2>7. \A n \in T.needs : \A r \in Scratch : n[1] # r
    <3> SUFFICES ASSUME NEW r \in Scratch, NEW n \in T.needs, n[1] = r PROVE FALSE
      OBVIOUS
    <3>1. CASE T.active[r] = NULL
      BY <1>1, <2>6, <3>1, NothingAt
    <3>2. CASE T.active[r] # NULL
      <4>1. r = RetReg
        BY <2>5, <3>2 DEF CallReady
      <4>2. T.active[r] = v
        BY <1>1, <2>1, <2>5, <2>6, <4>1 DEF Sound, Agree
      <4>3. Avoids(none, r)
        BY <2>2 DEF Avoids
      <4>4. Only(T, r, T.active[r])
        BY <1>1, <2>5, <4>3, NeedsAt
      <4> QED
        BY <2>5, <4>2, <4>4 DEF Only, NoneOf
    <3> QED
      BY <3>1, <3>2
  <2>8. {n \in T.needs : n[1] \in Scratch} = {}
    BY <2>7
  <2> QED
    BY <2>5, <2>6, <2>8 DEF Clobber
<1> QED
  BY <1>2, <1>3

LEMMA CallMade ==
  ASSUME NEW S, Sound(S, {}, {}), NEW v, CallReady(S, v), NEW arg \in Ins, NEW addr,
         addr # 0 => addr \in Ins, v # 0 => arg # v /\ addr # v,
         NEW X, X = ArgNeeds(arg, addr),
         NEW T, T = IF v = 0 THEN S ELSE Write(S, RetReg, v, {}),
         NEW U, U = Read(Clobber(T, Scratch), X),
         NEW V, V = IF v = 0 THEN U ELSE FreeResourcesOf(U, v)
  PROVE  /\ Sound(V, {}, X)
         /\ \A r \in Scratch : V.active[r] = NULL
         /\ v = 0 => Brings(S, V, {})
         /\ v # 0 => Defines(S, V, v, {})
<1>1. /\ Sound(T, {}, {}) /\ Clobber(T, Scratch) = T
      /\ T.reg = S.reg /\ T.ar = S.ar /\ T.active = S.active
      /\ v # 0 => NoneOf(T, v)
  BY QuietCall
<1>2. ReadsOf(T, X, X) /\ (v # 0 => \A n \in X : n[2] # v)
  <2>1. ArgReg \in Place /\ RetReg \in Place
    BY Basics
  <2>2. \A n \in X : n = <<ArgReg, arg>> \/ (addr # 0 /\ n = <<RetReg, addr>>)
    BY DEF ArgNeeds
  <2> QED
    BY <2>1, <2>2 DEF ReadsOf
<1>3. /\ Sound(U, {}, X) /\ U.reg = S.reg /\ U.ar = S.ar /\ U.active = S.active
      /\ U.needs = T.needs \cup X
  <2>1. U = Read(T, X)
    BY <1>1
  <2>2. Sound(T, {}, X)
    BY <1>1, SoundMore
  <2>3. /\ Sound(U, {}, X) /\ U.reg = T.reg /\ U.ar = T.ar /\ U.active = T.active
        /\ U.needs = T.needs \cup X
    BY <1>2, <2>1, <2>2, ReadServes
  <2> QED
    BY <1>1, <2>3
<1>4. CASE v = 0
  BY <1>3, <1>4 DEF CallReady, Brings, Extant
<1>5. CASE v # 0
  <2>1. v \in Ins /\ S.reg[v] = RetReg
    BY <1>5 DEF CallReady
  <2>2. NoneOf(U, v)
    BY <1>1, <1>2, <1>3, <1>5 DEF NoneOf
  <2>3. Sound(V, {}, X) /\ Freed(U, V, v)
    BY <1>3, <1>5, <2>1, <2>2, FreeSound
  <2>4. Defines(U, V, v, {})
    BY <1>3, <2>1, <2>3, FreedDefines DEF Sound
  <2>5. Defines(S, V, v, {})
    BY <1>3, <2>4 DEF Defines, Extant
  <2>6. \A r \in Scratch : V.active[r] = NULL
    <3> SUFFICES ASSUME NEW r \in Scratch PROVE V.active[r] = NULL
      OBVIOUS
    <3>1. r \in Reg /\ U.reg[v] = RetReg /\ U.active[r] = S.active[r]
      BY <1>3, <2>1 DEF Scratch
    <3>2. r = U.reg[v] => V.active[r] = NULL
      BY <2>3, <3>1 DEF Freed
    <3>3. r # U.reg[v] => V.active[r] = U.active[r]
      BY <2>3, <3>1 DEF Freed
    <3> QED
      BY <3>1, <3>2, <3>3 DEF CallReady
  <2> QED
    BY <1>5, <2>3, <2>5, <2>6
<1> QED
  BY <1>4, <1>5

\* The address is found first, then the argument.
LEMMA ArgsSound ==
  ASSUME program \in Programs, NEW S, NEW arg \in Ins, NEW addr, addr # 0 => addr \in Ins,
         NEW X, X = ArgNeeds(arg, addr), Sound(S, {}, X),
         \A r \in Scratch : S.active[r] = NULL,
         NEW W, W \in IF addr = 0 THEN {S} ELSE FindRegFor(S, addr, {RetReg}),
         NEW T \in RegArg(W, arg, ArgReg)
  PROVE  Sound(T, {}, {}) /\ Brings(S, T, {arg, addr})
<1>1. /\ ArgReg \in Reg /\ RetReg \in Reg /\ ArgReg # RetReg
      /\ S.active[ArgReg] = NULL /\ S.active[RetReg] = NULL
  BY RegAssumption, Basics
<1>2. PICK Y : Just(Y, ArgReg, arg)
  BY DEF Just
<1>3. Sound(W, {}, Y) /\ W.active[ArgReg] = NULL /\ Brings(S, W, {addr})
  <2>1. CASE addr = 0
    <3>1. W = S /\ X = Y
      BY <1>2, <2>1 DEF ArgNeeds, Just
    <3> QED
      BY <1>1, <3>1 DEF Brings
  <2>2. CASE addr # 0
    <3>1. PICK ret \in SUBSET Reg : ret = {RetReg}
      BY <1>1
    <3>2. W \in FindRegFor(S, addr, ret) /\ addr \in Ins
      BY <2>2, <3>1
    <3>3. \A n \in X : n = <<ArgReg, arg>> \/ n = <<RetReg, addr>>
      BY DEF ArgNeeds
    <3>4. ArgReg \in S.free /\ RetReg \in S.free
      BY <1>1 DEF Sound, Agree
    <3>5. Open(S, X, addr, ret)
      BY <1>1, <3>1, <3>2, <3>3, <3>4 DEF Open, Regs
    <3>6. Sound(W, {}, Without(X, W.reg[addr])) /\ Found(S, W, addr, ret)
      BY <3>2, <3>5, FindRegForSound
    <3>7. W.reg[addr] = RetReg
      BY <3>1, <3>6 DEF Found
    <3>8. Without(X, W.reg[addr]) = Y
      <4>1. X = {<<ArgReg, arg>>, <<RetReg, addr>>}
        BY <2>2 DEF ArgNeeds
      <4> QED
        BY <1>1, <1>2, <3>7, <4>1 DEF Without, Just
    <3>9. ArgReg \notin ret
      BY <1>1, <3>1
    <3>10. W.active[ArgReg] = NULL
      BY <1>1, <3>2, <3>6, <3>9, StaysEmpty
    <3> QED
      BY <3>6, <3>8, <3>10 DEF Found
  <2> QED
    BY <2>1, <2>2
<1>4. Sound(T, {}, {}) /\ Brings(W, T, {arg})
  BY <1>1, <1>2, <1>3, RegArgSound
<1>5. Brings(S, T, {addr} \cup {arg})
  BY <1>3, <1>4, BringsMore
<1>6. {addr} \cup {arg} = {arg, addr}
  OBVIOUS
<1> QED
  BY <1>4, <1>5, <1>6

LEMMA CallCodeSound ==
  ASSUME program \in Programs, NEW S, Sound(S, {}, {}), NEW n \in 0 .. NumIns,
         NEW v, CallReady(S, v), NEW addr, NEW arg,
         v = 0 => arg \in 1 .. n /\ addr \in 0 .. n,
         v # 0 => v = n /\ arg \in 1 .. (n - 1) /\ addr \in 0 .. (n - 1),
         NEW T \in CallCode(S, v, addr, arg)
  PROVE  /\ Sound(T, {}, {})
         /\ v = 0 => Grows(S, T, n)
         /\ v # 0 => Replaces(S, T, n)
<1>1. /\ arg \in Ins /\ (addr # 0 => addr \in Ins) /\ (v # 0 => arg # v /\ addr # v)
      /\ arg \in 1 .. n /\ addr \in 0 .. n
      /\ v # 0 => arg \in 1 .. (n - 1) /\ addr \in 0 .. (n - 1) /\ v \in Nat
  BY RegAssumption DEF Ins
<1>2. PICK X : X = ArgNeeds(arg, addr)
  OBVIOUS
<1>3. PICK C : C = IF v = 0 THEN S ELSE Write(S, RetReg, v, {})
  OBVIOUS
<1>4. PICK U : U = Read(Clobber(C, Scratch), X)
  OBVIOUS
<1>5. PICK V : V = IF v = 0 THEN U ELSE FreeResourcesOf(U, v)
  OBVIOUS
<1>6. PICK W \in IF addr = 0 THEN {V} ELSE FindRegFor(V, addr, {RetReg}) :
        T \in RegArg(W, arg, ArgReg)
  <2>1. CallCode(S, v, addr, arg) =
          UNION {RegArg(Z, arg, ArgReg) :
                   Z \in IF addr = 0 THEN {V} ELSE FindRegFor(V, addr, {RetReg})}
    BY <1>2, <1>3, <1>4, <1>5 DEF CallCode, ArgNeeds
  <2> QED
    BY <2>1
<1>7. /\ Sound(V, {}, X)
      /\ \A r \in Scratch : V.active[r] = NULL
      /\ v = 0 => Brings(S, V, {})
      /\ v # 0 => Defines(S, V, v, {})
  BY <1>1, <1>2, <1>3, <1>4, <1>5, CallMade
<1>8. Sound(T, {}, {}) /\ Brings(V, T, {arg, addr})
  BY <1>1, <1>2, <1>6, <1>7, ArgsSound
<1>9. CASE v = 0
  <2>1. Brings(S, V, {})
    BY <1>7, <1>9
  <2>2. \A j \in Ins : j = addr => j \in 1 .. n
    BY <1>1 DEF Ins
  <2>3. Grows(S, V, n)
    BY <2>1 DEF Brings, Grows
  <2>4. Grows(V, T, n)
    BY <1>1, <1>8, <2>2 DEF Brings, Grows
  <2> QED
    BY <1>8, <1>9, <2>3, <2>4, GrowsGrows
<1>10. CASE v # 0
  <2>1. Defines(S, V, n, {}) /\ n \in Nat
    BY <1>1, <1>7, <1>10
  <2>2. Replaces(S, V, n)
    BY <2>1 DEF Defines, Replaces
  <2>3. \A j \in Ins : j = addr => j \in 1 .. (n - 1)
    BY <1>1, <1>10 DEF Ins
  <2>4. Grows(V, T, n - 1)
    BY <1>1, <1>8, <1>10, <2>3 DEF Brings, Grows
  <2> QED
    BY <1>8, <1>10, <2>1, <2>2, <2>4, ReplacesGrows
<1> QED
  BY <1>9, <1>10

-----------------------------------------------------------------------------
(* The inductive invariant: what else is known of a register state S, the  *)
(* states M of the labels, the values still to be read, and a job j.       *)

Acts == [Reg -> Ins \cup {NULL}]

LabelStates ==
  [at : {"unseen", "awaited", "placed"}, active : Acts, needs : NeedSet,
   promise : NeedSet, lives : SUBSET Ins, live : SUBSET Ins]

\* No value is in two registers, and none but 1..n in any.
OneEach(act) == \A r, q \in Reg : act[r] # NULL /\ act[r] = act[q] => r = q
Within(act, n) == \A r \in Reg : act[r] # NULL => act[r] \in 1 .. n
InAct(act, x) == x[1] \in Reg /\ act[x[1]] = x[2]

\* What the code below a label reads is in the registers that its state names or
\* in the slots values have to this day.
PlacedOK(S, m, n) ==
  /\ \A x \in m.needs : /\ x[2] \in m.live
                        /\ InAct(m.active, x) \/ (x[2] \in 1 .. n => InSlot(S, x))
  /\ \A r \in Reg : m.active[r] # NULL => m.active[r] \in m.live
  /\ m.lives # {} => m.needs \subseteq m.promise

\* Everything that jumps to the top of a loop were promised is kept.
AwaitedOK(S, m, n) ==
  /\ \A x \in m.promise : x[2] \in 1 .. n => InAct(m.active, x) \/ InSlot(S, x)
  /\ Within(m.active, n)
  /\ \A r \in Reg : m.active[r] # NULL => /\ S.ar[m.active[r]] # 0
                                          /\ <<r, m.active[r]>> \in m.promise
  /\ \A i \in m.lives \ Imm : i \in 1 .. n => S.ar[i] # 0 /\ <<-S.ar[i], i>> \in m.promise

LabelOK(S, m, n) ==
  /\ OneEach(m.active)
  /\ m.at = "unseen" => m.lives = {}
  /\ m.at = "placed" => PlacedOK(S, m, n)
  /\ m.at = "awaited" => AwaitedOK(S, m, n)

Core(S, M, n, v) ==
  /\ Sound(S, {}, {})
  /\ n \in 0 .. NumIns
  /\ \A i \in Ins : Extant(S, i) => i \in 1 .. n
  /\ v \subseteq Ins
  /\ \A i \in v : i \in 1 .. n => S.ar[i] # 0
  /\ M \in [Label -> LabelStates]
  /\ \A l \in Label : LabelOK(S, M[l], n)

LivesOK(S, M, n, j) ==
  /\ j.op.k \in {"jmp", "jcc"}
  /\ M[j.op.l].at # "placed"
  /\ j.todo \subseteq 1 .. n
  /\ j.adds \subseteq 1 .. n
  /\ j.op.k = "jmp" => Backed(S, {})

NotAwaited(M, v) ==
  \A l \in Label : \A r \in Reg : M[l].at = "awaited" => M[l].active[r] # v

CallOK(S, M, n, todo, v, addr, arg) ==
  /\ v = 0 => addr \in 0 .. n /\ arg \in 1 .. n
  /\ v # 0 => /\ v = n /\ v \in Ins /\ addr \in 0 .. (n - 1) /\ arg \in 1 .. (n - 1)
              /\ S.reg[v] = RetReg /\ RetReg \notin todo
              /\ Spilled(S, v)
              /\ NotAwaited(M, v)
  /\ \A r \in Scratch : S.active[r] # NULL => r \in todo \/ (v # 0 /\ r = RetReg)

EvictOK(S, M, n, j) ==
  /\ j.op.k \in {"fence", "call", "jmp", "jcc"}
  /\ j.todo \subseteq InUse(S.active)
  /\ j.adds = {}
  /\ j.op.k \in {"jmp", "jcc"} => M[j.op.l].at = "unseen" /\ Backed(S, j.todo)
  /\ j.op.k = "call" => CallOK(S, M, n, j.todo, j.op.v, j.op.addr, j.op.arg)

\* What a merge has still to do: registers in todo, then in adds.
Merged(S, at, todo, adds, saved) ==
  /\ todo \subseteq Reg /\ adds \subseteq Reg /\ todo \cap adds = {}
  /\ \A r \in adds : saved[r] # NULL /\ S.active[r] = NULL
  /\ \A r \in Reg : r \in todo \/ r \in adds \/ S.active[r] = saved[r]
                      \/ (at = "union" /\ saved[r] = NULL)

MergeOK(S, M, n, j) ==
  /\ j.saved \in Acts /\ OneEach(j.saved) /\ Within(j.saved, n)
  /\ Merged(S, j.at, j.todo, j.adds, j.saved)
  /\ j.at = "union" =>
       /\ j.op.k \in {"jmp", "jcc"}
       /\ M[j.op.l].at = "placed" /\ M[j.op.l].live \subseteq 1 .. n
  /\ j.at = "intersect" =>
       /\ j.op.k \in {"jmp", "jcc", "label", "exit"}
       /\ j.op.k # "exit" => M[j.op.l].at = "awaited"
  /\ j.op.k # "exit" => j.saved = M[j.op.l].active
  /\ j.op.k = "label" =>
       /\ j.todo # {} => \A i \in Ins : Extant(S, i) => i \in Imm \/ i \in M[j.op.l].lives
       /\ \A x \in S.needs : x[1] \in Reg \/ x[2] \in M[j.op.l].lives
  /\ j.op.k = "exit" => /\ j.main \in NeedSet
                        /\ \A x \in j.main : InAct(j.saved, x) \/ InSlot(S, x)

IsJob(j) == j = [at |-> j.at, op |-> j.op, todo |-> j.todo, adds |-> j.adds,
                 saved |-> j.saved, main |-> j.main]

JobOK(S, M, n, j) ==
  /\ IsJob(j)
  /\ j.at \in {"read", "lives", "evict", "union", "intersect"}
  /\ j.op.k \in {"jmp", "jcc", "label"} => j.op.l \in Label
  /\ j.op.k \in {"jcc", "exit"} => j.op.a \in 1 .. n /\ j.op.b \in 1 .. n
  /\ j.at = "read" => j.op.k = "none"
  /\ j.at = "lives" => LivesOK(S, M, n, j)
  /\ j.at = "evict" => EvictOK(S, M, n, j)
  /\ j.at \in {"union", "intersect"} => MergeOK(S, M, n, j)

Good(S, M, n, v, j) == Core(S, M, n, v) /\ JobOK(S, M, n, j)

Inv == program \in Programs /\ Good(State, labels, next, lived, job)

-----------------------------------------------------------------------------
(* What steps leave of it.                                                 *)

SlotsKept(S, T, n) == \A i \in Ins : i \in 1 .. n /\ S.ar[i] # 0 => T.ar[i] = S.ar[i]

LEMMA LabelKept ==
  ASSUME NEW S, NEW T, NEW n \in Nat, NEW k \in Nat, k <= n, SlotsKept(S, T, k),
         NEW m \in LabelStates, LabelOK(S, m, n), m.at = "awaited" => Within(m.active, k)
  PROVE  LabelOK(T, m, k)
<1>1. m.needs \in NeedSet /\ m.promise \in NeedSet /\ m.active \in Acts /\ m.lives \subseteq Ins
  BY DEF LabelStates
<1>2. \A i \in 1 .. k : i \in 1 .. n
  OBVIOUS
<1>3. ASSUME NEW x, x[2] \in Ins, x[2] \in 1 .. k, InSlot(S, x) PROVE InSlot(T, x)
  BY <1>3 DEF InSlot, SlotsKept
<1>4. ASSUME m.at = "placed" PROVE PlacedOK(T, m, k)
  <2>1. PlacedOK(S, m, n)
    BY <1>4 DEF LabelOK
  <2>2. \A x \in m.needs : x[2] \in Ins
    BY <1>1 DEF NeedSet
  <2>3. ASSUME NEW x \in m.needs
        PROVE  InAct(m.active, x) \/ (x[2] \in 1 .. k => InSlot(T, x))
    BY <1>2, <1>3, <2>1, <2>2 DEF PlacedOK
  <2> QED
    BY <2>1, <2>3 DEF PlacedOK
<1>5. ASSUME m.at = "awaited" PROVE AwaitedOK(T, m, k)
  <2>1. AwaitedOK(S, m, n) /\ Within(m.active, k)
    BY <1>5 DEF LabelOK
  <2>2. \A x \in m.promise : x[2] \in Ins
    BY <1>1 DEF NeedSet
  <2>3. ASSUME NEW x \in m.promise, x[2] \in 1 .. k
        PROVE  InAct(m.active, x) \/ InSlot(T, x)
    BY <1>2, <1>3, <2>1, <2>2, <2>3 DEF AwaitedOK
  <2>4. ASSUME NEW r \in Reg, m.active[r] # NULL
        PROVE  T.ar[m.active[r]] # 0 /\ <<r, m.active[r]>> \in m.promise
    <3>1. m.active[r] \in Ins /\ m.active[r] \in 1 .. k
      BY <1>1, <2>1, <2>4 DEF Acts, Within
    <3> QED
      BY <2>1, <2>4, <3>1 DEF AwaitedOK, SlotsKept
  <2>5. ASSUME NEW i \in m.lives \ Imm, i \in 1 .. k
        PROVE  T.ar[i] # 0 /\ <<-T.ar[i], i>> \in m.promise
    BY <1>1, <1>2, <2>1, <2>5 DEF AwaitedOK, SlotsKept
  <2> QED
    BY <2>1, <2>3, <2>4, <2>5 DEF AwaitedOK
<1> QED
  BY <1>4, <1>5 DEF LabelOK

LEMMA CoreKept ==
  ASSUME NEW S, NEW T, NEW M, NEW v, NEW n, Core(S, M, n, v), Sound(T, {}, {}),
         NEW k \in Nat, k <= n, SlotsKept(S, T, k),
         \A i \in Ins : Extant(T, i) => i \in 1 .. k,
         \A l \in Label : M[l].at = "awaited" => Within(M[l].active, k)
  PROVE  Core(T, M, k, v)
<1>1. n \in Nat /\ NumIns \in Nat /\ k \in 0 .. NumIns
  BY RegAssumption DEF Core
<1>2. \A l \in Label : LabelOK(T, M[l], k)
  <2> SUFFICES ASSUME NEW l \in Label PROVE LabelOK(T, M[l], k)
    OBVIOUS
  <2>1. M[l] \in LabelStates /\ LabelOK(S, M[l], n)
    BY DEF Core
  <2> QED
    BY <1>1, <2>1, LabelKept
<1>3. \A i \in v : i \in 1 .. k => T.ar[i] # 0
  <2>1. \A i \in 1 .. k : i \in 1 .. n
    BY <1>1
  <2> QED
    BY <2>1 DEF Core, SlotsKept
<1> QED
  BY <1>1, <1>2, <1>3 DEF Core

LEMMA CoreGrows ==
  ASSUME NEW S, NEW T, NEW M, NEW v, NEW n, Core(S, M, n, v), Sound(T, {}, {}), Grows(S, T, n)
  PROVE  Core(T, M, n, v)
<1>1. n \in Nat /\ n <= n
  BY RegAssumption DEF Core
<1>2. SlotsKept(S, T, n)
  BY DEF Grows, SlotsKept
<1>3. \A i \in Ins : Extant(T, i) => i \in 1 .. n
  BY DEF Core, Grows
<1>4. \A l \in Label : M[l].at = "awaited" => Within(M[l].active, n)
  BY DEF Core, LabelOK, AwaitedOK
<1> QED
  BY <1>1, <1>2, <1>3, <1>4, CoreKept

LEMMA CoreReplaces ==
  ASSUME NEW S, NEW T, NEW M, NEW v, NEW n, Core(S, M, n, v), Sound(T, {}, {}),
         n # 0, Replaces(S, T, n), NotAwaited(M, n)
  PROVE  Core(T, M, n - 1, v)
<1>1. n \in Nat /\ n - 1 \in Nat /\ n - 1 <= n
  BY RegAssumption DEF Core
<1>2. SlotsKept(S, T, n - 1)
  <2>1. \A i \in 1 .. (n - 1) : i # n
    BY <1>1
  <2> QED
    BY <2>1 DEF Replaces, SlotsKept
<1>3. \A i \in Ins : Extant(T, i) => i \in 1 .. (n - 1)
  <2>1. \A i \in 1 .. n : i # n => i \in 1 .. (n - 1)
    BY <1>1
  <2> QED
    BY <2>1 DEF Core, Replaces
<1>4. \A l \in Label : M[l].at = "awaited" => Within(M[l].active, n - 1)
  <2>1. \A i \in 1 .. n : i # n => i \in 1 .. (n - 1)
    BY <1>1
  <2>2. \A l \in Label : M[l].at = "awaited" => Within(M[l].active, n)
    BY DEF Core, LabelOK, AwaitedOK
  <2> QED
    BY <2>1, <2>2 DEF Within, NotAwaited
<1> QED
  BY <1>1, <1>2, <1>3, <1>4, CoreKept

\* The state after a step, from what is known of the records it is made of.
Becoming(T, M, n, v, j) ==
  /\ program' = program /\ SetState(T)
  /\ labels' = M /\ next' = n /\ lived' = v /\ job' = j

LEMMA InvPrimed ==
  ASSUME program \in Programs, NEW T, NEW M, NEW n, NEW v, NEW j, Becoming(T, M, n, v, j),
         Good(T, M, n, v, j)
  PROVE  Inv'
<1>1. State' = T
  <2>1. IsState(T)
    BY DEF Good, Core, Sound
  <2> QED
    BY <2>1 DEF Becoming, SetState, State, IsState
<1>2. Imm' = Imm /\ program' \in Programs
  BY DEF Imm, Becoming
<1>3. labels' = M /\ next' = n /\ lived' = v /\ job' = j
  BY DEF Becoming
<1>4. \A x : InSlot(State, x)' <=> InSlot(T, x)
  BY <1>1, <1>2 DEF InSlot
<1>5. Sound(State, {}, {})'
  BY <1>1, <1>2, <1>4 DEF Good, Core, Sound, IsState, Agree, Disjoint, Has, InReg
<1>6. (\A l \in Label : LabelOK(State, labels[l], next))'
  BY <1>1, <1>2, <1>3, <1>4
  DEF Good, Core, LabelOK, PlacedOK, AwaitedOK, InAct, Within, OneEach
<1>7. Core(State, labels, next, lived)'
  BY <1>1, <1>3, <1>5, <1>6 DEF Good, Core, Extant
<1>8. JobOK(State, labels, next, job)'
  BY <1>1, <1>2, <1>3, <1>4
  DEF Good, JobOK, IsJob, LivesOK, EvictOK, MergeOK, CallOK, Backed, Spilled, NotAwaited, Merged,
      InAct, Within, OneEach, Extant, InUse
<1> QED
  BY <1>2, <1>7, <1>8 DEF Inv, Good

LEMMA IdleOK == ASSUME NEW S, NEW M, NEW n PROVE JobOK(S, M, n, Idle)
BY DEF JobOK, IsJob, Idle, Job

\* Between two instructions, the job is none.
LEMMA ReadingOK ==
  ASSUME NEW S, NEW M, NEW n, NEW j, JobOK(S, M, n, j), j.at = "read",
         NEW T, NEW L, NEW k
  PROVE  JobOK(T, L, k, j)
BY DEF JobOK

LEMMA InitInv == ASSUME Init PROVE Inv
<1> USE DEF Init
<1>1. NumIns \in Nat
  BY RegAssumption
<1>2. IsState(State)
  BY <1>1 DEF IsState, State, NeedSet
<1>3. Agree(State, {})
  BY Basics DEF Agree, State
<1>4. Disjoint(State)
  BY DEF Disjoint, State
<1>5. Sound(State, {}, {})
  BY <1>2, <1>3, <1>4 DEF Sound, State
<1>6. \A i \in Ins : ~Extant(State, i)
  BY DEF Extant, State
<1>7. labels \in [Label -> LabelStates]
  BY DEF LabelStates, Acts, NeedSet
<1>8. \A l \in Label : LabelOK(State, labels[l], next)
  BY DEF LabelOK, OneEach
<1>9. JobOK(State, labels, next, job)
  BY IdleOK
<1>10. next \in 0 .. NumIns /\ lived = {} /\ program \in Programs
  BY <1>1
<1> QED
  <2> USE DEF Core
  <2> HIDE DEF Init
  <2>1. Core(State, labels, next, lived)
    BY <1>5, <1>6, <1>7, <1>8, <1>10
  <2> QED
    BY <1>9, <1>10, <2>1 DEF Inv, Good

\* What the actions start from.
LEMMA Before ==
  ASSUME Inv
  PROVE  /\ program \in Programs /\ Sound(State, {}, {}) /\ next \in 0 .. NumIns
         /\ Core(State, labels, next, lived) /\ JobOK(State, labels, next, job)
         /\ next # 0 => next \in Ins
<1>1. next \in 0 .. NumIns /\ NumIns \in Nat
  BY RegAssumption DEF Inv, Good, Core
<1>2. next # 0 => next \in Ins
  BY <1>1 DEF Ins
<1> QED
  BY <1>1, <1>2 DEF Inv, Good, Core

LEMMA DefinedStep ==
  ASSUME Inv, program' = program, Value, NotAwaited(labels, next),
         NEW T, Sound(T, {}, {}), Replaces(State, T, next), SetState(T), Passed
  PROVE  Inv'
<1>1. PICK S, M, n, v, j : S = State /\ M = labels /\ n = next /\ v = lived /\ j = job
  OBVIOUS
<1>2. /\ program \in Programs /\ Core(S, M, n, v) /\ JobOK(S, M, n, j) /\ n # 0
      /\ j.at = "read"
  BY <1>1, Before DEF Value, Reading
<1>3. Core(T, M, n - 1, v)
  <2>1. Replaces(S, T, n) /\ NotAwaited(M, n)
    BY <1>1
  <2> QED
    BY <1>2, <2>1, CoreReplaces
<1>4. JobOK(T, M, n - 1, j)
  BY <1>2, ReadingOK
<1>5. Becoming(T, M, n - 1, v, j)
  BY <1>1 DEF Becoming, Passed
<1> QED
  BY <1>2, <1>3, <1>4, <1>5, InvPrimed DEF Good

-----------------------------------------------------------------------------
(* The steps.                                                              *)

LEMMA SkipStep == ASSUME Inv, program' = program, Skip PROVE Inv'
<1>1. Value /\ ~Extant(State, next) /\ UNCHANGED regVars /\ Passed
  BY DEF Skip
<1>2. /\ Core(State, labels, next, lived) /\ Sound(State, {}, {}) /\ next # 0 /\ next \in Ins
      /\ next \in 0 .. NumIns
  BY <1>1, Before DEF Value
<1>3. PICK S : S = State
  OBVIOUS
<1>4. Replaces(S, S, next)
  BY <1>1, <1>2, <1>3 DEF Replaces
<1>5. SetState(S)
  BY <1>1, <1>3 DEF SetState, State, regVars
<1>6. NotAwaited(labels, next)
  <2> SUFFICES ASSUME NEW l \in Label, NEW r \in Reg, labels[l].at = "awaited",
                      labels[l].active[r] = next
               PROVE  FALSE
    BY DEF NotAwaited
  <2>1. AwaitedOK(State, labels[l], next)
    BY <1>2 DEF Core, LabelOK
  <2>2. State.ar[next] # 0
    BY <1>2, <2>1, Basics DEF AwaitedOK
  <2> QED
    BY <1>1, <2>2 DEF Extant
<1> QED
  <2>1. Sound(S, {}, {}) /\ Replaces(State, S, next)
    BY <1>2, <1>3, <1>4
  <2> QED
    BY <1>1, <1>5, <1>6, <2>1, DefinedStep

LEMMA ReadableFacts ==
  ASSUME Inv, NEW i, Readable(i)
  PROVE  /\ Value /\ i = next /\ i \in Ins /\ i # 0 /\ NotAwaited(labels, next)
         /\ program \in Programs /\ Sound(State, {}, {})
BY Before DEF Readable, Value, NotAwaited

\* Any instruction that leaves a state such as the lemmas above describe.
LEMMA BecomesStep ==
  ASSUME Inv, program' = program, NEW i, Readable(i), NEW set, Becomes(set),
         \A T \in set : Sound(T, {}, {}) /\ Replaces(State, T, i)
  PROVE  Inv'
<1>1. PICK T \in set : SetState(T) /\ Passed
  BY DEF Becomes
<1>2. Sound(T, {}, {}) /\ Replaces(State, T, next)
  BY <1>1, ReadableFacts
<1> QED
  BY <1>1, <1>2, ReadableFacts, DefinedStep

LEMMA DefineStep ==
  ASSUME Inv, program' = program, NEW i \in Ins,
         \/ DefineImm(i) \/ DefineParam(i) \/ DefineLea(i)
         \/ \E a \in 1 .. (i - 1) :
              \/ DefineLoad(i, a)
              \/ \E b \in 1 .. (i - 1) :
                   \/ DefineBinary(i, a, b)
                   \/ DefineDiv(i, a, b)
                   \/ \E c \in 1 .. (i - 1) : DefineCmov(i, a, b, c)
  PROVE  Inv'
<1>1. PICK S : S = State
  OBVIOUS
<1>2. /\ program \in Programs /\ Sound(S, {}, {})
      /\ \A set : Becomes(set) => \E T \in set : SetState(T) /\ Passed
  BY <1>1, Before DEF Becomes
<1>3. CASE DefineImm(i)
  <2>1. Readable(i) /\ Becomes(Nullary(State, i, Reg, {}))
    BY <1>3 DEF DefineImm, Definable
  <2>2. \A T \in Nullary(S, i, Reg, {}) : Sound(T, {}, {}) /\ Replaces(S, T, i)
    BY <1>2, NullarySound
  <2> QED
    BY <1>1, <2>1, <2>2, BecomesStep
<1>4. CASE DefineParam(i)
  <2>1. Readable(i) /\ Becomes(Nullary(State, i, {Param[i]}, {})) /\ i \in DOMAIN Param
    BY <1>4 DEF DefineParam, Definable
  <2>2. {Param[i]} \in SUBSET Reg
    <3>1. Param[i] \in SavedRegs
      BY <1>2, <2>1, ProgramFacts
    <3> QED
      BY <3>1, RegAssumption
  <2>3. PICK allow \in SUBSET Reg : allow = {Param[i]}
    BY <2>2
  <2>4. \A T \in Nullary(S, i, allow, {}) : Sound(T, {}, {}) /\ Replaces(S, T, i)
    BY <1>2, NullarySound
  <2> QED
    BY <1>1, <2>1, <2>3, <2>4, BecomesStep
<1>5. CASE DefineLea(i)
  <2>1. Readable(i) /\ Becomes(Unary(State, i, LeaOf[i])) /\ i \in DOMAIN LeaOf
    BY <1>5 DEF DefineLea, Definable
  <2>2. PICK a \in 1 .. (i - 1) : a = LeaOf[i]
    BY <1>2, <2>1, ProgramFacts
  <2>3. \A T \in Unary(S, i, a) : Sound(T, {}, {}) /\ Replaces(S, T, i)
    BY <1>2, UnarySound
  <2> QED
    BY <1>1, <2>1, <2>2, <2>3, BecomesStep
<1>6. ASSUME NEW a \in 1 .. (i - 1), DefineLoad(i, a) PROVE Inv'
  <2>1. Readable(i) /\ Becomes(Load(State, i, a))
    BY <1>6 DEF DefineLoad, Other, Definable
  <2>2. \A T \in Load(S, i, a) : Sound(T, {}, {}) /\ Replaces(S, T, i)
    BY <1>2, LoadSound
  <2> QED
    BY <1>1, <2>1, <2>2, BecomesStep
<1>7. ASSUME NEW a \in 1 .. (i - 1), NEW b \in 1 .. (i - 1), DefineBinary(i, a, b) PROVE Inv'
  <2>1. Readable(i) /\ Becomes(Binary(State, i, a, b))
    BY <1>7 DEF DefineBinary, Other, Definable
  <2>2. \A T \in Binary(S, i, a, b) : Sound(T, {}, {}) /\ Replaces(S, T, i)
    BY <1>2, BinarySound
  <2> QED
    BY <1>1, <2>1, <2>2, BecomesStep
<1>8. ASSUME NEW a \in 1 .. (i - 1), NEW b \in 1 .. (i - 1), DefineDiv(i, a, b) PROVE Inv'
  <2>1. Readable(i) /\ Becomes(Div(State, i, a, b))
    BY <1>8 DEF DefineDiv, Other, Definable
  <2>2. \A T \in Div(S, i, a, b) : Sound(T, {}, {}) /\ Replaces(S, T, i)
    BY <1>2, DivSound
  <2> QED
    BY <1>1, <2>1, <2>2, BecomesStep
<1>9. ASSUME NEW a \in 1 .. (i - 1), NEW b \in 1 .. (i - 1), NEW c \in 1 .. (i - 1),
             DefineCmov(i, a, b, c)
      PROVE  Inv'
  <2>1. Readable(i) /\ Becomes(Cmov(State, i, a, b, c))
    BY <1>9 DEF DefineCmov, Other, Definable
  <2>2. \A T \in Cmov(S, i, a, b, c) : Sound(T, {}, {}) /\ Replaces(S, T, i)
    BY <1>2, CmovSound
  <2> QED
    BY <1>1, <2>1, <2>2, BecomesStep
<1> QED
  BY <1>3, <1>4, <1>5, <1>6, <1>7, <1>8, <1>9

\* A step that reads no value may bring some to life, and goes on with a job.
LEMMA GrownStep ==
  ASSUME Inv, program' = program, NEW T, Sound(T, {}, {}), Grows(State, T, next), SetState(T),
         labels' = labels, next' = next, lived' = lived,
         NEW j, JobOK(T, labels, next, j), job' = j
  PROVE  Inv'
<1>1. PICK S, M, n, v : S = State /\ M = labels /\ n = next /\ v = lived
  OBVIOUS
<1>2. program \in Programs /\ Core(S, M, n, v) /\ Grows(S, T, n) /\ JobOK(T, M, n, j)
  BY <1>1, Before
<1>3. Core(T, M, n, v)
  BY <1>2, CoreGrows
<1>4. Becoming(T, M, n, v, j)
  BY <1>1 DEF Becoming
<1> QED
  BY <1>2, <1>3, <1>4, InvPrimed DEF Good

LEMMA JobStep ==
  ASSUME Inv, program' = program, UNCHANGED regVars, labels' = labels, next' = next,
         lived' = lived, NEW j, JobOK(State, labels, next, j), job' = j
  PROVE  Inv'
<1>1. PICK S : S = State
  OBVIOUS
<1>2. SetState(S)
  BY <1>1 DEF SetState, State, regVars
<1>3. Sound(S, {}, {}) /\ Grows(State, S, next) /\ JobOK(S, labels, next, j)
  BY <1>1, Before DEF Grows
<1> QED
  BY <1>2, <1>3, GrownStep

\* An instruction that is assembled at once.
LEMMA WholeStep ==
  ASSUME Inv, program' = program, Reading, next' = next, NEW set, OneStep(set),
         \A T \in set : Sound(T, {}, {}) /\ Grows(State, T, next)
  PROVE  Inv'
<1>1. PICK T \in set : SetState(T)
  BY DEF OneStep
<1>2. PICK j : j = job
  OBVIOUS
<1>3. JobOK(State, labels, next, j) /\ j.at = "read"
  BY <1>2, Before DEF Reading
<1>4. JobOK(T, labels, next, j)
  BY <1>3, ReadingOK
<1>5. labels' = labels /\ lived' = lived /\ job' = j
  BY <1>2 DEF OneStep
<1> QED
  BY <1>1, <1>4, <1>5, GrownStep

LEMMA RetStep == ASSUME Inv, program' = program, NEW a \in 1 .. next, Ret(a) PROVE Inv'
<1> DEFINE set == FindRegFor(
                    ReadSavedRegs(Read(AssignSavedRegs(ReleaseRegisters(State)),
                                       {<<RetReg, a>>})), a, {RetReg})
<1>1. Reading /\ next' = next /\ DOMAIN Param \subseteq 1 .. next /\ OneStep(set)
  BY DEF Ret, Instr
<1>2. PICK S, n : S = State /\ n = next
  OBVIOUS
<1>3. /\ program \in Programs /\ Sound(S, {}, {}) /\ n \in 0 .. NumIns /\ a \in 1 .. n
      /\ DOMAIN Param \subseteq 1 .. n
  BY <1>1, <1>2, Before
<1>4. \A T \in set : Sound(T, {}, {}) /\ Grows(S, T, n)
  BY <1>2, <1>3, RetSound
<1> HIDE DEF set
<1> QED
  BY <1>1, <1>2, <1>4, WholeStep

LEMMA StoreStep ==
  ASSUME Inv, program' = program, NEW a \in 1 .. next, NEW b \in 1 .. next, Store(a, b)
  PROVE  Inv'
<1>1. Reading /\ next' = next /\ OneStep(Compare(State, a, b))
  BY DEF Store, Body, Instr
<1>2. PICK S, n : S = State /\ n = next
  OBVIOUS
<1>3. program \in Programs /\ Sound(S, {}, {}) /\ n \in 0 .. NumIns /\ a \in 1 .. n /\ b \in 1 .. n
  BY <1>2, Before
<1>4. \A T \in Compare(S, a, b) : Sound(T, {}, {}) /\ Grows(S, T, n)
  BY <1>3, CompareGrows
<1> QED
  BY <1>1, <1>2, <1>4, WholeStep

LEMMA JobIs ==
  ASSUME NEW at, NEW op, NEW todo, NEW j, j = Job(at, op, todo)
  PROVE  /\ IsJob(j) /\ j.at = at /\ j.op = op /\ j.todo = todo /\ j.adds = {}
         /\ j.saved = NULL /\ j.main = {}
BY DEF Job, IsJob

LEMMA MergeIs ==
  ASSUME NEW at, NEW op, NEW act, NEW saved, NEW j, j = Merge(at, op, act, saved)
  PROVE  /\ IsJob(j) /\ j.at = at /\ j.op = op /\ j.adds = {} /\ j.saved = saved
         /\ j.todo = {r \in Reg : act[r] # saved[r]} /\ j.main = {}
BY DEF Merge, Job, IsJob

LEMMA FenceStep == ASSUME Inv, program' = program, Fence PROVE Inv'
<1>1. PICK j : j = Job("evict", [k |-> "fence"], InUse(active))
  OBVIOUS
<1>2. /\ j.at = "evict" /\ j.op.k = "fence" /\ j.todo = InUse(active) /\ j.adds = {}
      /\ IsJob(j)
  BY <1>1, JobIs
<1>3. State.active = active
  BY DEF State
<1>4. JobOK(State, labels, next, j)
  BY <1>2, <1>3 DEF JobOK, EvictOK
<1>5. /\ job' = j /\ UNCHANGED regVars /\ labels' = labels /\ next' = next /\ lived' = lived
  BY <1>1 DEF Fence, Body, Instr, Become
<1> QED
  BY <1>4, <1>5, JobStep

\* The call, when its result has been prepared.
LEMMA CallJob ==
  ASSUME NEW T, Sound(T, {}, {}), NEW M, NEW n, NEW v, NEW addr, NEW arg,
         v = 0 => addr \in 0 .. n /\ arg \in 1 .. n,
         v # 0 => /\ v = n /\ v \in Ins /\ addr \in 0 .. (n - 1) /\ arg \in 1 .. (n - 1)
                  /\ T.reg[v] = RetReg /\ Spilled(T, v) /\ NotAwaited(M, v),
         NEW j, j = Job("evict", [k |-> "call", v |-> v, addr |-> addr, arg |-> arg],
                        InUse(T.active) \ IF v = 0 THEN {} ELSE {RetReg})
  PROVE  JobOK(T, M, n, j)
<1>1. PICK todo : todo = InUse(T.active) \ IF v = 0 THEN {} ELSE {RetReg}
  OBVIOUS
<1>2. /\ IsJob(j) /\ j.at = "evict" /\ j.todo = todo /\ j.adds = {}
      /\ j.op = [k |-> "call", v |-> v, addr |-> addr, arg |-> arg]
  BY <1>1, JobIs
<1>3. j.op.k = "call" /\ j.op.v = v /\ j.op.addr = addr /\ j.op.arg = arg
  BY <1>2
<1>4. \A r \in Scratch : T.active[r] # NULL => r \in todo \/ (v # 0 /\ r = RetReg)
  BY <1>1 DEF Scratch, Sound, IsState, InUse
<1>5. CallOK(T, M, n, todo, v, addr, arg)
  BY <1>1, <1>4 DEF CallOK
<1>6. EvictOK(T, M, n, j)
  BY <1>1, <1>2, <1>3, <1>5 DEF EvictOK
<1> QED
  BY <1>2, <1>3, <1>6 DEF JobOK

LEMMA CallStep ==
  ASSUME Inv, program' = program, NEW v, NEW addr, NEW arg, Call(v, addr, arg),
         \/ v = 0 /\ addr \in 0 .. next /\ arg \in 1 .. next
         \/ v \in Ins /\ addr \in 0 .. (v - 1) /\ arg \in 1 .. (v - 1)
  PROVE  Inv'
<1>1. PICK S, M, n : S = State /\ M = labels /\ n = next
  OBVIOUS
<1>2. program \in Programs /\ Sound(S, {}, {}) /\ n \in 0 .. NumIns
  BY <1>1, Before
<1>3. PICK T \in IF v = 0 THEN {S} ELSE PrepareResultReg(S, v, {RetReg}) :
        /\ SetState(T)
        /\ job' = Job("evict", [k |-> "call", v |-> v, addr |-> addr, arg |-> arg],
                      InUse(T.active) \ IF v = 0 THEN {} ELSE {RetReg})
  BY <1>1 DEF Call, Become
<1>4. PICK j : j = Job("evict", [k |-> "call", v |-> v, addr |-> addr, arg |-> arg],
                       InUse(T.active) \ IF v = 0 THEN {} ELSE {RetReg})
  OBVIOUS
<1>5. labels' = labels /\ lived' = lived /\ next' = next /\ job' = j
  BY <1>3, <1>4 DEF Call, Body, Instr
<1>6. CASE v = 0
  <2>1. Sound(T, {}, {}) /\ Grows(S, T, n)
    BY <1>2, <1>3, <1>6 DEF Grows
  <2>2. 0 \notin Ins
    BY DEF Ins
  <2>3. addr \in 0 .. n /\ arg \in 1 .. n
    BY <1>1, <1>6, <2>2
  <2>4. JobOK(T, M, n, j)
    BY <1>4, <1>6, <2>1, <2>3, CallJob
  <2> QED
    BY <1>1, <1>3, <1>5, <2>1, <2>4, GrownStep
<1>7. CASE v # 0
  <2>1. Readable(v) /\ v \in Ins /\ addr \in 0 .. (v - 1) /\ arg \in 1 .. (v - 1)
    BY <1>7 DEF Call
  <2>2. v = n /\ NotAwaited(M, v)
    BY <1>1, <2>1, ReadableFacts
  <2>3. PICK allow \in SUBSET Reg : allow = {RetReg}
    BY Basics
  <2>4. T \in PrepareResultReg(S, v, allow)
    BY <1>3, <1>7, <2>3
  <2>5. Sound(T, {}, {}) /\ Spilled(T, v) /\ Grows(S, T, v) /\ T.reg[v] \in allow
    BY <1>2, <2>1, <2>4, PreparedFor
  <2>6. T.reg[v] = RetReg /\ Grows(S, T, n) /\ addr \in 0 .. (n - 1) /\ arg \in 1 .. (n - 1)
    BY <2>1, <2>2, <2>3, <2>5
  <2>7. JobOK(T, M, n, j)
    BY <1>4, <1>7, <2>1, <2>2, <2>5, <2>6, CallJob
  <2> QED
    BY <1>1, <1>3, <1>5, <2>5, <2>6, <2>7, GrownStep
<1> QED
  BY <1>6, <1>7

\* What jumps to a label that is placed find there.
LEMMA PlacedFacts ==
  ASSUME NEW S, NEW M, NEW n, NEW v, Core(S, M, n, v), NEW l \in Label, M[l].at = "placed",
         M[l].live \subseteq 1 .. n
  PROVE  M[l].active \in Acts /\ OneEach(M[l].active) /\ Within(M[l].active, n)
<1>1. M[l] \in LabelStates /\ OneEach(M[l].active) /\ PlacedOK(S, M[l], n)
  BY DEF Core, LabelOK
<1> QED
  BY <1>1 DEF PlacedOK, Within, LabelStates

LEMMA AwaitedFacts ==
  ASSUME NEW S, NEW M, NEW n, NEW v, Core(S, M, n, v), NEW l \in Label, M[l].at = "awaited"
  PROVE  M[l].active \in Acts /\ OneEach(M[l].active) /\ Within(M[l].active, n)
<1>1. M[l] \in LabelStates /\ OneEach(M[l].active) /\ AwaitedOK(S, M[l], n)
  BY DEF Core, LabelOK
<1> QED
  BY <1>1 DEF AwaitedOK, LabelStates

\* A merge begins with the registers that differ.
LEMMA MergeBegins ==
  ASSUME NEW S, NEW at, NEW saved, NEW todo, todo = {r \in Reg : S.active[r] # saved[r]}
  PROVE  Merged(S, at, todo, {}, saved)
BY DEF Merged

LEMMA JumpMerge ==
  ASSUME NEW S, NEW M, NEW n, NEW v, Core(S, M, n, v), NEW l \in Label,
         NEW at, \/ at = "union" /\ M[l].at = "placed" /\ M[l].live \subseteq 1 .. n
                 \/ at = "intersect" /\ M[l].at = "awaited",
         NEW op, op.l = l, op.k \in {"jmp", "jcc"},
         op.k = "jcc" => op.a \in 1 .. n /\ op.b \in 1 .. n,
         NEW act, act = S.active, NEW j, j = Merge(at, op, act, M[l].active)
  PROVE  JobOK(S, M, n, j)
<1>1. PICK saved : saved = M[l].active
  OBVIOUS
<1>2. saved \in Acts /\ OneEach(saved) /\ Within(saved, n)
  BY <1>1, PlacedFacts, AwaitedFacts
<1>3. /\ IsJob(j) /\ j.at = at /\ j.op = op /\ j.adds = {} /\ j.saved = saved
      /\ j.todo = {r \in Reg : S.active[r] # saved[r]}
  BY <1>1, MergeIs
<1>4. Merged(S, j.at, j.todo, j.adds, j.saved)
  BY <1>3, MergeBegins
<1>5. MergeOK(S, M, n, j)
  BY <1>1, <1>2, <1>3, <1>4 DEF MergeOK
<1> QED
  BY <1>3, <1>5 DEF JobOK

LEMMA JmpForwardStep ==
  ASSUME Inv, program' = program, NEW l \in Label, JmpForward(l)
  PROVE  Inv'
<1>1. PICK S, M, n, v : S = State /\ M = labels /\ n = next /\ v = lived
  OBVIOUS
<1>2. PICK T : T = ReleaseRegisters(S)
  OBVIOUS
<1>3. PICK op, act : op = [k |-> "jmp", l |-> l] /\ act = [r \in Reg |-> NULL]
  OBVIOUS
<1>4. PICK j : j = Merge("union", op, act, M[l].active)
  OBVIOUS
<1>5. Core(S, M, n, v) /\ Sound(S, {}, {})
  BY <1>1, Before
<1>6. Sound(T, {}, {}) /\ T.ar = S.ar /\ T.active = act /\ Grows(S, T, n)
  <2>1. /\ Sound(T, {}, {}) /\ T.ar = S.ar
        /\ \A r \in Reg : T.active[r] = NULL
        /\ \A i \in Ins : T.reg[i] = NULL
    BY <1>2, <1>5, ReleaseSound
  <2>2. T.active = act
    BY <1>3, <2>1 DEF Sound, IsState
  <2>3. Grows(S, T, n)
    BY <2>1 DEF Grows, Extant
  <2> QED
    BY <2>1, <2>2, <2>3
<1>7. M[l].at = "placed" /\ M[l].live \subseteq 1 .. n
  BY <1>1 DEF JmpForward, JumpForward
<1>8. Core(T, M, n, v)
  BY <1>5, <1>6, CoreGrows
<1>9. JobOK(T, M, n, j)
  <2>1. op.l = l /\ op.k = "jmp"
    BY <1>3
  <2> QED
    BY <1>4, <1>6, <1>7, <1>8, <2>1, JumpMerge
<1>10. /\ SetState(T) /\ job' = j /\ next' = next /\ labels' = labels /\ lived' = lived
  BY <1>1, <1>2, <1>3, <1>4 DEF JmpForward, JumpForward, Instr, Become
<1> QED
  BY <1>1, <1>6, <1>9, <1>10, GrownStep

LEMMA JccForwardStep ==
  ASSUME Inv, program' = program, NEW l \in Label, NEW a \in 1 .. next, NEW b \in 1 .. next,
         JccForward(l, a, b)
  PROVE  Inv'
<1>1. PICK S, M, n, v : S = State /\ M = labels /\ n = next /\ v = lived
  OBVIOUS
<1>2. PICK op : op = [k |-> "jcc", l |-> l, a |-> a, b |-> b]
  OBVIOUS
<1>3. PICK j : j = Merge("union", op, active, M[l].active)
  OBVIOUS
<1>4. Core(S, M, n, v) /\ active = S.active
  BY <1>1, Before DEF State
<1>5. M[l].at = "placed" /\ M[l].live \subseteq 1 .. n
  BY <1>1 DEF JccForward, JumpForward
<1>6. op.l = l /\ op.k = "jcc" /\ op.a \in 1 .. n /\ op.b \in 1 .. n
  BY <1>1, <1>2
<1>7. JobOK(S, M, n, j)
  BY <1>3, <1>4, <1>5, <1>6, JumpMerge
<1>8. /\ UNCHANGED regVars /\ job' = j /\ next' = next /\ labels' = labels /\ lived' = lived
  BY <1>1, <1>2, <1>3 DEF JccForward, JumpForward, Body, Instr, Become
<1> QED
  BY <1>1, <1>7, <1>8, JobStep

LEMMA LivesJob ==
  ASSUME NEW T, NEW M, NEW n, NEW op, op.k \in {"jmp", "jcc"}, op.l \in Label,
         M[op.l].at # "placed", op.live \subseteq 1 .. n,
         op.k = "jcc" => op.a \in 1 .. n /\ op.b \in 1 .. n,
         op.k = "jmp" => Backed(T, {}), DOMAIN Param \subseteq 1 .. n,
         NEW j, j = [Job("lives", op, op.live) EXCEPT !.adds = DOMAIN Param]
  PROVE  JobOK(T, M, n, j)
<1>1. /\ IsJob(j) /\ j.at = "lives" /\ j.op = op /\ j.todo = op.live /\ j.adds = DOMAIN Param
  BY DEF Job, IsJob
<1> QED
  BY <1>1 DEF JobOK, LivesOK

LEMMA JmpBackStep ==
  ASSUME Inv, program' = program, NEW l \in Label, NEW live \in SUBSET (1 .. next),
         JmpBack(l, live)
  PROVE  Inv'
<1>1. PICK S, M, n : S = State /\ M = labels /\ n = next
  OBVIOUS
<1>2. PICK T : T = ReleaseRegisters(S)
  OBVIOUS
<1>3. PICK op : op = [k |-> "jmp", l |-> l, live |-> live]
  OBVIOUS
<1>4. PICK j : j = [Job("lives", op, op.live) EXCEPT !.adds = DOMAIN Param]
  OBVIOUS
<1>5. Sound(T, {}, {}) /\ Grows(S, T, n) /\ Backed(T, {})
  <2>1. Sound(S, {}, {})
    BY <1>1, Before
  <2>2. /\ Sound(T, {}, {}) /\ T.ar = S.ar
        /\ \A r \in Reg : T.active[r] = NULL
        /\ \A i \in Ins : T.reg[i] = NULL
    BY <1>2, <2>1, ReleaseSound
  <2> QED
    BY <2>2 DEF Grows, Extant, Backed
<1>6. M[l].at # "placed" /\ DOMAIN Param \subseteq 1 .. n
  BY <1>1 DEF JmpBack, JumpBack, Instr
<1>7. op.k = "jmp" /\ op.l = l /\ op.live = live
  BY <1>3
<1>8. JobOK(T, M, n, j)
  <2>1. op.live \subseteq 1 .. n
    BY <1>1, <1>7
  <2>2. /\ op.k \in {"jmp", "jcc"} /\ op.l \in Label /\ M[op.l].at # "placed"
        /\ op.k = "jmp" => Backed(T, {})
        /\ op.k = "jcc" => op.a \in 1 .. n /\ op.b \in 1 .. n
        /\ DOMAIN Param \subseteq 1 .. n
    BY <1>5, <1>6, <1>7
  <2> QED
    BY <1>4, <2>1, <2>2, LivesJob, SMTT(30)
<1>9. SetState(T) /\ job' = j /\ next' = next /\ labels' = labels /\ lived' = lived
  BY <1>1, <1>2, <1>3, <1>4 DEF JmpBack, JumpBack, Instr, Become
<1> QED
  BY <1>1, <1>5, <1>8, <1>9, GrownStep

LEMMA JccBackStep ==
  ASSUME Inv, program' = program, NEW l \in Label, NEW live \in SUBSET (1 .. next),
         NEW a \in 1 .. next, NEW b \in 1 .. next, JccBack(l, live, a, b)
  PROVE  Inv'
<1>1. PICK S, M, n : S = State /\ M = labels /\ n = next
  OBVIOUS
<1>2. PICK op : op = [k |-> "jcc", l |-> l, live |-> live, a |-> a, b |-> b]
  OBVIOUS
<1>3. PICK j : j = [Job("lives", op, op.live) EXCEPT !.adds = DOMAIN Param]
  OBVIOUS
<1>4. M[l].at # "placed" /\ DOMAIN Param \subseteq 1 .. n
  BY <1>1 DEF JccBack, JumpBack, Body, Instr
<1>5. op.k = "jcc" /\ op.l = l /\ op.live = live /\ op.a = a /\ op.b = b
  BY <1>2
<1>6. JobOK(S, M, n, j)
  <2>1. op.live \subseteq 1 .. n /\ op.a \in 1 .. n /\ op.b \in 1 .. n
    BY <1>1, <1>5
  <2>2. /\ op.k \in {"jmp", "jcc"} /\ op.l \in Label /\ M[op.l].at # "placed"
        /\ op.k = "jmp" => Backed(S, {})
    BY <1>4, <1>5
  <2> QED
    BY <1>3, <1>4, <2>1, <2>2, LivesJob, SMTT(30)
<1>7. UNCHANGED regVars /\ job' = j /\ next' = next /\ labels' = labels /\ lived' = lived
  BY <1>1, <1>2, <1>3 DEF JccBack, JumpBack, Body, Instr, Become
<1> QED
  BY <1>1, <1>6, <1>7, JobStep

\* What registers hold is in one register each, and still to be read.
LEMMA ActiveFacts ==
  ASSUME NEW S, NEW M, NEW n, NEW v, Core(S, M, n, v)
  PROVE  /\ S.active \in Acts /\ OneEach(S.active) /\ Within(S.active, n)
         /\ \A r \in Reg : S.active[r] # NULL =>
              S.active[r] \in Ins /\ Extant(S, S.active[r])
         /\ \A x \in S.needs : /\ x = <<x[1], x[2]>> /\ x[2] \in Ins /\ Extant(S, x[2])
                               /\ InAct(S.active, x) \/ InSlot(S, x)
<1>1. /\ S.active \in [Reg -> Ins \cup {NULL}] /\ Agree(S, {}) /\ S.needs \subseteq Place \X Ins
      /\ \A x \in S.needs : Has(S, x)
  BY DEF Core, Sound, IsState, NeedSet
<1>2. \A r \in Reg : S.active[r] # NULL =>
        S.active[r] \in Ins /\ S.reg[S.active[r]] = r /\ Extant(S, S.active[r])
  BY <1>1, Basics DEF Agree, Extant
<1>3. S.active \in Acts /\ OneEach(S.active)
  BY <1>1, <1>2 DEF Acts, OneEach
<1>4. Within(S.active, n)
  BY <1>2 DEF Within, Core
<1>5. ASSUME NEW x \in S.needs
      PROVE  /\ x = <<x[1], x[2]>> /\ x[2] \in Ins /\ Extant(S, x[2])
             /\ InAct(S.active, x) \/ InSlot(S, x)
  <2>1. x = <<x[1], x[2]>> /\ x[2] \in Ins /\ x[2] # NULL
    BY <1>1, Basics
  <2>2. CASE InReg(S, x)
    BY <1>2, <2>1, <2>2 DEF InReg, InAct
  <2>3. CASE InSlot(S, x)
    BY <2>1, <2>3 DEF InSlot, Extant
  <2> QED
    BY <1>1, <2>1, <2>2, <2>3 DEF Has
<1> QED
  BY <1>2, <1>3, <1>4, <1>5

\* A label is placed where the registers are as its state says.
LEMMA LabelPlaced ==
  ASSUME NEW S, NEW M, NEW n, NEW v, Core(S, M, n, v), NEW l \in Label,
         M[l].lives # {} => S.needs \subseteq M[l].promise,
         NEW m, m = [M[l] EXCEPT !.at = "placed", !.active = S.active, !.needs = S.needs,
                                 !.live = {i \in Ins : Extant(S, i)}]
  PROVE  m \in LabelStates /\ LabelOK(S, m, n)
<1>1. M[l] \in LabelStates
  BY DEF Core
<1>2. /\ m.at = "placed" /\ m.active = S.active /\ m.needs = S.needs
      /\ m.live = {i \in Ins : Extant(S, i)} /\ m.lives = M[l].lives
      /\ m.promise = M[l].promise
  BY <1>1 DEF LabelStates
<1>3. S.active \in Acts /\ S.needs \in NeedSet
  BY ActiveFacts DEF Core, Sound, IsState
<1>4. m \in LabelStates
  BY <1>1, <1>3 DEF LabelStates
<1>5. PlacedOK(S, m, n)
  <2>1. ASSUME NEW x \in m.needs
        PROVE  x[2] \in m.live /\ (InAct(m.active, x) \/ InSlot(S, x))
    BY <1>2, <2>1, ActiveFacts
  <2>2. ASSUME NEW r \in Reg, m.active[r] # NULL PROVE m.active[r] \in m.live
    BY <1>2, <2>2, ActiveFacts
  <2> QED
    BY <1>2, <2>1, <2>2 DEF PlacedOK
<1>6. OneEach(m.active)
  BY <1>2, ActiveFacts
<1> QED
  BY <1>2, <1>4, <1>5, <1>6 DEF LabelOK

\* One label's state changes.
LEMMA CoreLabel ==
  ASSUME NEW S, NEW M, NEW n, NEW v, Core(S, M, n, v), NEW l \in Label,
         NEW m \in LabelStates, LabelOK(S, m, n), NEW N, N = [M EXCEPT ![l] = m]
  PROVE  Core(S, N, n, v)
<1>1. N \in [Label -> LabelStates] /\ \A k \in Label : N[k] = IF k = l THEN m ELSE M[k]
  BY DEF Core
<1>2. \A k \in Label : LabelOK(S, N[k], n)
  BY <1>1 DEF Core
<1> QED
  BY <1>1, <1>2 DEF Core

LEMMA LabelUnseenStep ==
  ASSUME Inv, program' = program, NEW l \in Label, LabelUnseen(l)
  PROVE  Inv'
<1>1. PICK S, M, n, v, j : S = State /\ M = labels /\ n = next /\ v = lived /\ j = job
  OBVIOUS
<1>2. /\ program \in Programs /\ Core(S, M, n, v) /\ JobOK(S, M, n, j) /\ j.at = "read"
      /\ S.active = active /\ S.needs = needs
  BY <1>1, Before DEF LabelUnseen, Body, Instr, Reading, State
<1>3. PICK m : m = [M[l] EXCEPT !.at = "placed", !.active = S.active, !.needs = S.needs,
                                !.live = {i \in Ins : Extant(S, i)}]
  OBVIOUS
<1>4. PICK N : N = [M EXCEPT ![l] = m]
  OBVIOUS
<1>5. M[l].lives = {}
  BY <1>1, <1>2 DEF LabelUnseen, Core, LabelOK
<1>6. Core(S, N, n, v)
  BY <1>2, <1>3, <1>4, <1>5, LabelPlaced, CoreLabel
<1>7. JobOK(S, N, n, j)
  BY <1>2, ReadingOK
<1>8. labels' = N
  BY <1>1, <1>2, <1>3, <1>4 DEF LabelUnseen
<1>9. Becoming(S, N, n, v, j)
  BY <1>1, <1>8 DEF Becoming, LabelUnseen, Body, Instr, SetState, State, regVars
<1> QED
  BY <1>2, <1>6, <1>7, <1>9, InvPrimed DEF Good

LEMMA LabelAwaitedStep ==
  ASSUME Inv, program' = program, NEW l \in Label, LabelAwaited(l)
  PROVE  Inv'
<1>1. PICK S, M, n, v : S = State /\ M = labels /\ n = next /\ v = lived
  OBVIOUS
<1>2. PICK op, saved : op = [k |-> "label", l |-> l] /\ saved = M[l].active
  OBVIOUS
<1>3. PICK j : j = Merge("intersect", op, active, saved)
  OBVIOUS
<1>4. Core(S, M, n, v) /\ active = S.active
  BY <1>1, Before DEF State
<1>5. M[l].at = "awaited" /\ \A i \in Ins : Extant(S, i) => i \in Imm \/ i \in M[l].lives
  BY <1>1 DEF LabelAwaited
<1>6. saved \in Acts /\ OneEach(saved) /\ Within(saved, n)
  BY <1>2, <1>4, <1>5, AwaitedFacts
<1>7. /\ IsJob(j) /\ j.at = "intersect" /\ j.op = op /\ j.adds = {} /\ j.saved = saved
      /\ j.todo = {r \in Reg : S.active[r] # saved[r]}
  BY <1>3, <1>4, MergeIs
<1>8. Merged(S, j.at, j.todo, j.adds, j.saved)
  BY <1>7, MergeBegins
<1>9. \A x \in S.needs : x[1] \in Reg \/ x[2] \in M[l].lives
  <2> SUFFICES ASSUME NEW x \in S.needs, x[1] \notin Reg PROVE x[2] \in M[l].lives
    OBVIOUS
  <2>1. x[2] \in Ins /\ Extant(S, x[2]) /\ InSlot(S, x)
    BY <1>4, ActiveFacts DEF InAct
  <2> QED
    BY <1>5, <2>1 DEF InSlot
<1>10. op.k = "label" /\ op.l = l
  BY <1>2
<1>11. MergeOK(S, M, n, j)
  BY <1>2, <1>5, <1>6, <1>7, <1>8, <1>9, <1>10 DEF MergeOK
<1>12. JobOK(S, M, n, j)
  BY <1>7, <1>10, <1>11 DEF JobOK
<1>13. UNCHANGED regVars /\ job' = j /\ next' = next /\ labels' = labels /\ lived' = lived
  BY <1>1, <1>2, <1>3 DEF LabelAwaited, Body, Instr, Become
<1> QED
  BY <1>1, <1>12, <1>13, JobStep

LEMMA ExitStep ==
  ASSUME Inv, program' = program, NEW a \in 1 .. next, NEW b \in 1 .. next, Exit(a, b)
  PROVE  Inv'
<1>1. PICK S, M, n, v : S = State /\ M = labels /\ n = next /\ v = lived
  OBVIOUS
<1>2. PICK A, T : A = AssignSavedRegs(ReleaseRegisters(S)) /\ T = ReadSavedRegs(A)
  OBVIOUS
<1>3. PICK op : op = [k |-> "exit", a |-> a, b |-> b]
  OBVIOUS
<1>4. PICK j : j = [Merge("intersect", op, A.active, S.active) EXCEPT !.main = S.needs]
  OBVIOUS
<1>5. /\ program \in Programs /\ Core(S, M, n, v) /\ Sound(S, {}, {})
      /\ active = S.active /\ needs = S.needs
  BY <1>1, Before DEF State
<1>6. DOMAIN Param \subseteq 1 .. n
  BY <1>1 DEF Exit, Body, Instr
<1>7. Sound(A, {}, {}) /\ Afresh(S, A) /\ Grows(S, A, n)
  BY <1>2, <1>5, <1>6, AssignSound, AfreshGrows
<1>8. Sound(T, {}, {}) /\ T.active = A.active /\ T.reg = A.reg /\ T.ar = A.ar
  <2>1. \A p \in DOMAIN Param : A.active[Param[p]] = p
    BY <1>7 DEF Afresh
  <2>2. PICK none : none = {}
    OBVIOUS
  <2>3. Sound(A, {}, none)
    BY <1>7, <2>2
  <2>4. Sound(T, {}, none) /\ T.active = A.active /\ T.reg = A.reg /\ T.ar = A.ar
    BY <1>2, <1>5, <2>1, <2>3, ReadSavedSound
  <2> QED
    BY <2>2, <2>4
<1>9. Grows(S, T, n)
  BY <1>7, <1>8 DEF Grows, Extant
<1>10. /\ IsJob(j) /\ j.at = "intersect" /\ j.op = op /\ j.adds = {} /\ j.saved = S.active
       /\ j.todo = {r \in Reg : T.active[r] # S.active[r]} /\ j.main = S.needs
  BY <1>4, <1>8 DEF Merge, Job, IsJob
<1>11. Merged(T, j.at, j.todo, j.adds, j.saved)
  BY <1>10, MergeBegins
<1>12. S.active \in Acts /\ OneEach(S.active) /\ Within(S.active, n)
  BY <1>5, ActiveFacts
<1>13. S.needs \in NeedSet /\ \A x \in S.needs : InAct(S.active, x) \/ InSlot(T, x)
  <2>1. \A x \in S.needs : InAct(S.active, x) \/ InSlot(S, x)
    BY <1>5, ActiveFacts
  <2>2. T.ar = S.ar
    BY <1>7, <1>8 DEF Afresh
  <2> QED
    BY <1>5, <2>1, <2>2 DEF Sound, IsState, InSlot
<1>14. op.k = "exit" /\ op.a = a /\ op.b = b
  BY <1>3
<1>15. MergeOK(T, M, n, j)
  BY <1>10, <1>11, <1>12, <1>13, <1>14 DEF MergeOK
<1>16. JobOK(T, M, n, j)
  BY <1>1, <1>10, <1>14, <1>15 DEF JobOK
<1>17. /\ SetState(T) /\ job' = j /\ next' = next /\ labels' = labels /\ lived' = lived
  BY <1>1, <1>2, <1>3, <1>4, <1>5 DEF Exit, Body, Instr
<1> QED
  BY <1>1, <1>8, <1>9, <1>16, <1>17, GrownStep

\* The loop over the values that LIR_live names.
LEMMA ReserveStepOK == ASSUME Inv, program' = program, ReserveStep PROVE Inv'
<1>1. PICK S, M, n, j : S = State /\ M = labels /\ n = next /\ j = job
  OBVIOUS
<1>2. /\ Sound(S, {}, {}) /\ n \in 0 .. NumIns /\ JobOK(S, M, n, j) /\ IsJob(j)
      /\ j.at = "lives" /\ j.adds # {} /\ j.adds \subseteq 1 .. n
  BY <1>1, Before DEF ReserveStep, JobOK, LivesOK
<1>3. PICK p : p = Lowest(j.adds)
  OBVIOUS
<1>4. p \in 1 .. n
  <2>1. 1 .. n \subseteq Nat
    BY RegAssumption, <1>2
  <2>2. p \in j.adds
    BY <1>2, <1>3, <2>1, LowestIn
  <2> QED
    BY <1>2, <2>2
<1>5. PICK T : T = FindMemFor(S, p)
  OBVIOUS
<1>6. PICK k : k = [j EXCEPT !.adds = @ \ {p}]
  OBVIOUS
<1>7. Sound(T, {}, {}) /\ Grows(S, T, n) /\ (Backed(S, {}) => Backed(T, {}))
  BY <1>2, <1>4, <1>5, FindMemGrows
<1>8. /\ IsJob(k) /\ k.at = "lives" /\ k.op = j.op /\ k.todo = j.todo
      /\ k.adds = j.adds \ {p}
  BY <1>2, <1>6 DEF IsJob
<1>9. JobOK(T, M, n, k)
  BY <1>2, <1>7, <1>8 DEF JobOK, LivesOK
<1>10. SetState(T) /\ job' = k /\ next' = next /\ labels' = labels /\ lived' = lived
  BY <1>1, <1>3, <1>5, <1>6 DEF ReserveStep, Stays
<1> QED
  BY <1>1, <1>7, <1>9, <1>10, GrownStep

LEMMA LivesStepOK == ASSUME Inv, program' = program, LivesStep PROVE Inv'
<1>1. PICK S, M, n, v, j : S = State /\ M = labels /\ n = next /\ v = lived /\ j = job
  OBVIOUS
<1>2. /\ program \in Programs /\ Core(S, M, n, v) /\ Sound(S, {}, {}) /\ n \in 0 .. NumIns
      /\ JobOK(S, M, n, j) /\ IsJob(j) /\ j.at = "lives" /\ j.todo \subseteq 1 .. n
  BY <1>1, Before DEF LivesStep, JobOK, LivesOK
<1>3. PICK i \in j.todo : (\E T \in HandleLive(S, i) : SetState(T)) /\ Visit(i)
                            /\ lived' = v \cup {i}
  BY <1>1 DEF LivesStep
<1>4. PICK T \in HandleLive(S, i) : SetState(T)
  BY <1>3
<1>5. i \in 1 .. n /\ i \in Ins
  BY <1>2, RegAssumption DEF Ins
<1>6. Sound(T, {}, {}) /\ Grows(S, T, n) /\ T.ar[i] # 0 /\ (Backed(S, {}) => Backed(T, {}))
  BY <1>2, <1>5, HandleLiveSound
<1>7. Core(T, M, n, v)
  BY <1>2, <1>6, CoreGrows
<1>8. PICK w : w = v \cup {i}
  OBVIOUS
<1>9. Core(T, M, n, w)
  BY <1>5, <1>6, <1>7, <1>8 DEF Core
<1>10. PICK k : k = [j EXCEPT !.todo = @ \ {i}]
  OBVIOUS
<1>11. /\ IsJob(k) /\ k.at = "lives" /\ k.op = j.op /\ k.todo = j.todo \ {i} /\ k.adds = j.adds
  BY <1>2, <1>10 DEF IsJob
<1>12. JobOK(T, M, n, k)
  BY <1>2, <1>6, <1>11 DEF JobOK, LivesOK
<1>13. Becoming(T, M, n, w, k)
  BY <1>1, <1>3, <1>4, <1>8, <1>10 DEF Becoming, LivesStep, Stays, Visit
<1> QED
  BY <1>2, <1>9, <1>12, <1>13, InvPrimed DEF Good

\* Evictions before a jump to a label of which nothing is known.
LEMMA EvictJob ==
  ASSUME NEW S, NEW M, NEW n, NEW op, op.k \in {"jmp", "jcc"}, op.l \in Label,
         M[op.l].at = "unseen", op.k = "jcc" => op.a \in 1 .. n /\ op.b \in 1 .. n,
         NEW todo, todo \subseteq InUse(S.active), Backed(S, todo),
         NEW k, k = Job("evict", op, todo)
  PROVE  JobOK(S, M, n, k)
<1>1. IsJob(k) /\ k.at = "evict" /\ k.op = op /\ k.todo = todo /\ k.adds = {}
  BY JobIs
<1>2. EvictOK(S, M, n, k)
  BY <1>1 DEF EvictOK
<1> QED
  BY <1>1, <1>2 DEF JobOK

LEMMA HandledStep == ASSUME Inv, program' = program, Handled PROVE Inv'
<1>1. PICK S, M, n, v, j, op :
        S = State /\ M = labels /\ n = next /\ v = lived /\ j = job /\ op = j.op
  OBVIOUS
<1>2. /\ Core(S, M, n, v) /\ LivesOK(S, M, n, j) /\ JobOK(S, M, n, j) /\ S.active = active
  BY <1>1, Before DEF Handled, JobOK, State
<1>3. /\ op.k \in {"jmp", "jcc"} /\ op.l \in Label /\ M[op.l].at # "placed"
      /\ op.k = "jcc" => op.a \in 1 .. n /\ op.b \in 1 .. n
      /\ op.k = "jmp" => Backed(S, {})
  BY <1>1, <1>2 DEF JobOK, LivesOK
<1>4. PICK k : k = job'
  OBVIOUS
<1>5. k = CASE M[op.l].at = "awaited" -> Merge("intersect", op, S.active, M[op.l].active)
            [] M[op.l].at = "unseen" /\ op.k = "jcc" -> Job("evict", op, InUse(S.active))
            [] OTHER -> Job("evict", op, {})
  BY <1>1, <1>2, <1>4 DEF Handled, Become
<1>6. M[op.l].at \in {"unseen", "awaited"}
  BY <1>2, <1>3 DEF Core, LabelStates
<1>7. ASSUME M[op.l].at = "awaited" PROVE JobOK(S, M, n, k)
  <2>1. k = Merge("intersect", op, S.active, M[op.l].active)
    BY <1>5, <1>7
  <2>2. PICK l \in Label : l = op.l
    BY <1>3
  <2>3. M[l].at = "awaited" /\ k = Merge("intersect", op, S.active, M[l].active) /\ op.l = l
    BY <1>7, <2>1, <2>2
  <2> QED
    BY <1>2, <1>3, <2>3, JumpMerge
<1>8. ASSUME M[op.l].at = "unseen" /\ op.k = "jcc" PROVE JobOK(S, M, n, k)
  <2>1. PICK todo : todo = InUse(S.active)
    OBVIOUS
  <2>2. k = Job("evict", op, todo) /\ todo \subseteq InUse(S.active)
    BY <1>5, <1>8, <2>1
  <2>3. Backed(S, todo)
    BY <1>2, <2>1 DEF Backed, InUse, Core, Sound, IsState
  <2> QED
    BY <1>3, <1>8, <2>2, <2>3, EvictJob
<1>9. ASSUME M[op.l].at = "unseen" /\ op.k # "jcc" PROVE JobOK(S, M, n, k)
  <2>1. PICK none : none = {}
    OBVIOUS
  <2>2. k = Job("evict", op, none) /\ Backed(S, none) /\ none \subseteq InUse(S.active)
    BY <1>3, <1>5, <1>9, <2>1
  <2>3. Backed(S, none) /\ M[op.l].at = "unseen"
    BY <1>9, <2>2
  <2> QED
    BY <1>3, <2>2, <2>3, EvictJob
<1>10. JobOK(S, M, n, k)
  BY <1>6, <1>7, <1>8, <1>9
<1>11. UNCHANGED regVars /\ next' = next /\ labels' = labels /\ lived' = lived
  BY DEF Handled, Stays
<1> QED
  BY <1>1, <1>4, <1>10, <1>11, JobStep

\* The value of a register that is still to be visited is evicted, or stays.
LEMMA CallEvicts ==
  ASSUME NEW S, Sound(S, {}, {}), NEW M, NEW n, NEW todo, NEW v, NEW addr, NEW arg,
         CallOK(S, M, n, todo, v, addr, arg), NEW r \in Reg, r \in todo,
         NEW T, Sound(T, {}, {}), Emptied(S, T, r), Spills(S, T, {S.active[r]})
  PROVE  CallOK(T, M, n, todo \ {r}, v, addr, arg)
<1>1. ASSUME v # 0 PROVE T.reg[v] = RetReg /\ Spilled(T, v)
  <2>1. v \in Ins /\ S.reg[v] = RetReg /\ RetReg \notin todo /\ Spilled(S, v) /\ RetReg \in Reg
    BY <1>1, Basics DEF CallOK
  <2>2. S.active[RetReg] = v /\ v # NULL
    BY <2>1, Basics DEF Sound, Agree
  <2>3. T.active[RetReg] = v
    BY <2>1, <2>2 DEF Emptied
  <2>4. T.reg[v] = RetReg
    BY <2>1, <2>2, <2>3 DEF Sound, Agree
  <2>5. v # S.active[r]
    <3> SUFFICES ASSUME v = S.active[r] PROVE FALSE
      OBVIOUS
    <3>1. S.reg[v] = r
      BY <2>2 DEF Sound, Agree
    <3> QED
      BY <2>1, <3>1
  <2>6. PICK D : D = {S.active[r]}
    OBVIOUS
  <2>7. Spilled(T, v)
    BY <2>1, <2>5, <2>6, StaysSpilled
  <2> QED
    BY <2>4, <2>7
<1>2. \A q \in Scratch :
        T.active[q] # NULL => q \in todo \ {r} \/ (v # 0 /\ q = RetReg)
  BY DEF Emptied, CallOK, Scratch
<1> QED
  BY <1>1, <1>2 DEF CallOK

LEMMA EvictStepOK == ASSUME Inv, program' = program, EvictStep PROVE Inv'
<1>1. PICK S, M, n, j : S = State /\ M = labels /\ n = next /\ j = job
  OBVIOUS
<1>2. /\ program \in Programs /\ Sound(S, {}, {}) /\ JobOK(S, M, n, j) /\ IsJob(j)
      /\ S.active = active /\ j.at = "evict" /\ EvictOK(S, M, n, j) /\ j.todo # {}
  BY <1>1, Before DEF EvictStep, JobOK, State
<1>3. j.todo \subseteq InUse(S.active) /\ InUse(S.active) \subseteq Reg /\ Reg \subseteq Nat
  BY <1>2, RegAssumption DEF EvictOK, InUse, Sound, IsState
<1>4. PICK r : r = NextToEvict
  OBVIOUS
<1>5. r \in j.todo
  <2>1. PICK saved : saved = j.todo \cap SavedRegs
    OBVIOUS
  <2>2. r = Lowest(IF j.op.k = "call" /\ saved # {} THEN saved ELSE j.todo)
    BY <1>1, <1>4, <2>1 DEF NextToEvict
  <2>3. CASE j.op.k = "call" /\ saved # {}
    BY <1>3, <2>1, <2>2, <2>3, LowestIn
  <2>4. CASE ~(j.op.k = "call" /\ saved # {})
    BY <1>2, <1>3, <2>2, <2>4, LowestIn
  <2> QED
    BY <2>3, <2>4
<1>6. r \in Reg /\ S.active[r] # NULL
  BY <1>3, <1>5 DEF InUse
<1>7. PICK k : k = [j EXCEPT !.todo = @ \ {r}]
  OBVIOUS
<1>8. IsJob(k) /\ k.at = "evict" /\ k.op = j.op /\ k.todo = j.todo \ {r} /\ k.adds = j.adds
  BY <1>2, <1>7 DEF IsJob
<1>9. PICK T : T = IF Evictable(r) THEN Evict(S, S.active[r]) ELSE S
  OBVIOUS
<1>10. /\ SetState(T) /\ job' = k /\ next' = next /\ labels' = labels /\ lived' = lived
  BY <1>1, <1>2, <1>4, <1>7, <1>9 DEF EvictStep, Visit, Stays
<1>11. Sound(T, {}, {}) /\ Grows(S, T, n) /\ JobOK(T, M, n, k)
  <2>1. CASE Evictable(r)
    <3>1. Sound(T, {}, {}) /\ Emptied(S, T, r) /\ Spills(S, T, {S.active[r]})
      BY <1>2, <1>6, <1>9, <2>1, EvictPlain
    <3>2. Grows(S, T, n)
      BY <3>1 DEF Emptied, Brings, Grows
    <3>3. k.todo \subseteq InUse(T.active)
      BY <1>3, <1>8, <3>1 DEF InUse, Emptied, Sound, IsState
    <3>4. Backed(S, j.todo) => Backed(T, k.todo)
      BY <1>2, <1>8, <3>1 DEF Backed, Emptied, Brings, Sound, IsState
    <3>5. j.op.k = "call" => CallOK(T, M, n, k.todo, j.op.v, j.op.addr, j.op.arg)
      BY <1>2, <1>5, <1>6, <1>8, <3>1, CallEvicts DEF EvictOK
    <3>6. EvictOK(T, M, n, k)
      BY <1>2, <1>8, <3>3, <3>4, <3>5 DEF EvictOK
    <3> QED
      BY <1>2, <1>8, <3>1, <3>2, <3>6 DEF JobOK
  <2>2. CASE ~Evictable(r)
    <3>1. T = S /\ j.op.k = "call" /\ r \in SavedRegs
      BY <1>1, <1>9, <2>2 DEF Evictable
    <3>2. Sound(T, {}, {}) /\ Grows(S, T, n)
      BY <1>2, <3>1 DEF Grows
    <3>3. r \notin Scratch
      BY <3>1 DEF Scratch
    <3>4. CallOK(S, M, n, j.todo, j.op.v, j.op.addr, j.op.arg)
      BY <1>2, <3>1 DEF EvictOK
    <3>5. CallOK(S, M, n, k.todo, j.op.v, j.op.addr, j.op.arg)
      BY <1>8, <3>3, <3>4 DEF CallOK
    <3>6. EvictOK(S, M, n, k)
      BY <1>2, <1>8, <3>1, <3>5 DEF EvictOK
    <3> QED
      BY <1>2, <1>8, <3>1, <3>2, <3>6 DEF JobOK
  <2> QED
    BY <2>1, <2>2
<1> QED
  BY <1>1, <1>10, <1>11, GrownStep

\* A round of a merge keeps what does not depend on the registers it has still
\* to visit.
LEMMA MergeGoesOn ==
  ASSUME NEW S, NEW M, NEW n, NEW j, JobOK(S, M, n, j), MergeOK(S, M, n, j),
         j.at \in {"union", "intersect"}, NEW T, Grows(S, T, n),
         NEW k, IsJob(k), k.at = j.at, k.op = j.op, k.saved = j.saved, k.main = j.main,
         Merged(T, k.at, k.todo, k.adds, k.saved),
         j.op.k = "label" =>
           /\ k.todo # {} => \A i \in Ins : Extant(T, i) => i \in Imm \/ i \in M[j.op.l].lives
           /\ \A x \in T.needs : x[1] \in Reg \/ x[2] \in M[j.op.l].lives
  PROVE  JobOK(T, M, n, k)
<1>1. ASSUME j.op.k = "exit"
      PROVE  j.main \in NeedSet /\ \A x \in j.main : InAct(j.saved, x) \/ InSlot(T, x)
  <2>1. j.main \in NeedSet /\ \A x \in j.main : InAct(j.saved, x) \/ InSlot(S, x)
    BY <1>1 DEF MergeOK
  <2>2. \A x \in j.main : x[2] \in Ins
    BY <2>1 DEF NeedSet
  <2> QED
    BY <2>1, <2>2 DEF InSlot, Grows
<1>2. MergeOK(T, M, n, k)
  BY <1>1 DEF MergeOK
<1> QED
  BY <1>2 DEF JobOK

LEMMA MergeStepOK == ASSUME Inv, program' = program, MergeStep PROVE Inv'
<1>1. PICK S, M, n, j : S = State /\ M = labels /\ n = next /\ j = job
  OBVIOUS
<1>2. /\ program \in Programs /\ Sound(S, {}, {}) /\ Core(S, M, n, lived) /\ IsJob(j)
      /\ JobOK(S, M, n, j)
      /\ S.active = active /\ j.at \in {"union", "intersect"} /\ j.todo # {}
  BY <1>1, Before DEF MergeStep, Merging, JobOK, State
<1>3. MergeOK(S, M, n, j) /\ Merged(S, j.at, j.todo, j.adds, j.saved)
  BY <1>2 DEF JobOK, MergeOK
<1>4. j.todo \subseteq Reg /\ j.todo \subseteq Nat /\ IsFiniteSet(j.todo)
  BY <1>3, RegAssumption, FS_Subset DEF Merged
<1>5. PICK r : r = NextToMerge(j.todo)
  OBVIOUS
<1>6. r \in j.todo /\ r \in Reg
  BY <1>2, <1>4, <1>5, LowestIn, HighestIn DEF NextToMerge
<1>7. PICK k : k = [j EXCEPT !.todo = @ \ {r},
                             !.adds = IF j.saved[r] # NULL THEN @ \cup {r} ELSE @]
  OBVIOUS
<1>8. /\ IsJob(k) /\ k.at = j.at /\ k.op = j.op /\ k.saved = j.saved /\ k.main = j.main
      /\ k.todo = j.todo \ {r}
      /\ k.adds = IF j.saved[r] # NULL THEN j.adds \cup {r} ELSE j.adds
  BY <1>2, <1>7 DEF IsJob
<1>9. PICK T : T = IF MustEvict(r) THEN Evict(S, S.active[r]) ELSE S
  OBVIOUS
<1>10. /\ SetState(T) /\ job' = k /\ next' = next /\ labels' = labels /\ lived' = lived
  BY <1>1, <1>2, <1>5, <1>7, <1>9 DEF MergeStep, Stays
<1>11. MustEvict(r) <=> S.active[r] # NULL /\ (j.at = "intersect" \/ j.saved[r] # NULL)
  BY <1>1, <1>2 DEF MustEvict
<1>12. PICK old : old = {S.active[r]}
  OBVIOUS
<1>13. /\ Sound(T, {}, {}) /\ Brings(S, T, {}) /\ Spills(S, T, old)
       /\ \A q \in Reg \ {r} : T.active[q] = S.active[q]
       /\ T.active[r] = IF MustEvict(r) THEN NULL ELSE S.active[r]
  <2>1. CASE MustEvict(r)
    <3>1. T = Evict(S, S.active[r]) /\ S.active[r] # NULL
      BY <1>9, <1>11, <2>1
    <3>2. Sound(T, {}, {}) /\ Emptied(S, T, r) /\ Spills(S, T, {S.active[r]})
      BY <1>2, <1>6, <3>1, EvictPlain
    <3>3. Spills(S, T, old)
      BY <1>12, <3>2
    <3> QED
      BY <2>1, <3>2, <3>3 DEF Emptied
  <2>2. CASE ~MustEvict(r)
    BY <1>2, <1>9, <2>2 DEF Brings, Spills
  <2> QED
    BY <2>1, <2>2
<1>14. Grows(S, T, n)
  BY <1>13 DEF Brings, Grows
<1>15. Merged(T, k.at, k.todo, k.adds, k.saved)
  <2>1. k.todo \subseteq Reg /\ k.adds \subseteq Reg /\ k.todo \cap k.adds = {}
    BY <1>3, <1>6, <1>8 DEF Merged
  <2>2. ASSUME NEW q \in k.adds PROVE j.saved[q] # NULL /\ T.active[q] = NULL
    <3>1. CASE q = r
      <4>1. j.saved[r] # NULL
        BY <1>3, <1>6, <1>8, <3>1 DEF Merged
      <4> QED
        BY <1>11, <1>13, <3>1, <4>1
    <3>2. CASE q # r
      BY <1>3, <1>8, <1>13, <3>2 DEF Merged
    <3> QED
      BY <3>1, <3>2
  <2>3. ASSUME NEW q \in Reg, q \notin k.todo, q \notin k.adds
        PROVE  T.active[q] = j.saved[q] \/ (j.at = "union" /\ j.saved[q] = NULL)
    <3>1. CASE q = r
      <4>1. j.saved[r] = NULL
        BY <1>8, <2>3, <3>1
      <4> QED
        BY <1>2, <1>11, <1>13, <3>1, <4>1
    <3>2. CASE q # r
      <4>1. q \notin j.todo /\ q \notin j.adds
        BY <1>8, <2>3, <3>2
      <4> QED
        BY <1>3, <1>13, <3>2, <4>1 DEF Merged
    <3> QED
      BY <3>1, <3>2
  <2> QED
    BY <1>8, <2>1, <2>2, <2>3 DEF Merged
<1>16. ASSUME j.op.k = "label"
       PROVE  /\ \A i \in Ins : Extant(T, i) => i \in Imm \/ i \in M[j.op.l].lives
              /\ \A x \in T.needs : x[1] \in Reg \/ x[2] \in M[j.op.l].lives
  <2>1. /\ \A i \in Ins : Extant(S, i) => i \in Imm \/ i \in M[j.op.l].lives
        /\ \A x \in S.needs : x[1] \in Reg \/ x[2] \in M[j.op.l].lives
    BY <1>2, <1>3, <1>16 DEF MergeOK
  <2>2. \A i \in Ins : Extant(T, i) => i \in Imm \/ i \in M[j.op.l].lives
    BY <1>13, <2>1 DEF Brings
  <2>3. ASSUME NEW x \in T.needs, x[1] \notin Reg PROVE x[2] \in M[j.op.l].lives
    <3>1. Core(T, M, n, lived)
      BY <1>2, <1>13, <1>14, CoreGrows
    <3>2. x[2] \in Ins /\ Extant(T, x[2]) /\ InSlot(T, x)
      BY <2>3, <3>1, ActiveFacts DEF InAct
    <3> QED
      BY <2>2, <3>2 DEF InSlot
  <2> QED
    BY <2>2, <2>3
<1>17. JobOK(T, M, n, k)
  BY <1>2, <1>3, <1>8, <1>14, <1>15, <1>16, MergeGoesOn
<1> QED
  BY <1>1, <1>10, <1>13, <1>14, <1>17, GrownStep

\* Finding a value in one register changes no other, but for the one it leaves.
LEMMA FoundIn ==
  ASSUME NEW S, Sound(S, {}, {}), NEW T, Sound(T, {}, {}), NEW i \in Ins, NEW r \in Reg,
         NEW allow, allow = {r}, Found(S, T, i, allow)
  PROVE  /\ T.active[r] = i
         /\ \A q \in Reg \ {r} : \/ T.active[q] = S.active[q]
                                 \/ T.active[q] = NULL /\ S.active[q] = i
<1>1. T.reg[i] = r /\ T.active[r] = i
  BY Basics DEF Found, Sound, Agree
<1>2. SUFFICES ASSUME NEW q \in Reg \ {r}, T.active[q] # S.active[q]
               PROVE  T.active[q] = NULL /\ S.active[q] = i
  BY <1>1
<1>3. ASSUME T.active[q] # NULL PROVE FALSE
  <2>1. PICK k \in Ins : k = T.active[q]
    BY <1>3 DEF Sound, IsState
  <2>2. T.reg[k] = q /\ k # i
    BY <1>1, <1>3, <2>1 DEF Sound, Agree
  <2>3. S.reg[k] = q
    BY <2>2, Basics DEF Found, Stay
  <2>4. S.active[q] = k
    BY <2>3, Basics DEF Sound, Agree
  <2> QED
    BY <1>2, <2>1, <2>4
<1>4. ASSUME S.active[q] # i PROVE FALSE
  <2>1. PICK k \in Ins : k = S.active[q]
    BY <1>2, <1>3 DEF Sound, IsState
  <2>2. S.reg[k] = q
    BY <2>1, Basics DEF Sound, Agree
  <2>3. T.reg[k] = q
    BY <1>4, <2>1, <2>2 DEF Found, Stay
  <2>4. T.active[q] = k
    BY <2>3, Basics DEF Sound, Agree
  <2> QED
    BY <1>2, <2>1, <2>4
<1> QED
  BY <1>3, <1>4

LEMMA AddStepOK == ASSUME Inv, program' = program, AddStep PROVE Inv'
<1>1. PICK S, M, n, j : S = State /\ M = labels /\ n = next /\ j = job
  OBVIOUS
<1>2. /\ program \in Programs /\ Sound(S, {}, {}) /\ JobOK(S, M, n, j) /\ IsJob(j)
      /\ j.at \in {"union", "intersect"} /\ j.todo = {} /\ j.adds # {} /\ n \in 0 .. NumIns
  BY <1>1, Before DEF AddStep, Merging, JobOK
<1>3. MergeOK(S, M, n, j) /\ Merged(S, j.at, j.todo, j.adds, j.saved)
  BY <1>2 DEF JobOK, MergeOK
<1>4. j.adds \subseteq Reg /\ j.adds \subseteq Nat /\ IsFiniteSet(j.adds)
  BY <1>3, RegAssumption, FS_Subset DEF Merged
<1>5. PICK r : r = NextToMerge(j.adds)
  OBVIOUS
<1>6. r \in j.adds /\ r \in Reg
  BY <1>2, <1>4, <1>5, LowestIn, HighestIn DEF NextToMerge
<1>7. PICK k : k = [j EXCEPT !.adds = @ \ {r}]
  OBVIOUS
<1>8. /\ IsJob(k) /\ k.at = j.at /\ k.op = j.op /\ k.saved = j.saved /\ k.main = j.main
      /\ k.todo = {} /\ k.adds = j.adds \ {r}
  BY <1>2, <1>7 DEF IsJob
<1>9. PICK i : i = j.saved[r]
  OBVIOUS
<1>10. i \in Ins /\ i \in 1 .. n /\ S.active[r] = NULL /\ OneEach(j.saved)
  BY <1>3, <1>6, <1>9 DEF Merged, MergeOK, Acts, Within
<1>11. PICK allow \in SUBSET Reg : allow = {r}
  BY <1>6
<1>12. PICK T \in FindRegFor(S, i, allow) : SetState(T)
  BY <1>1, <1>5, <1>9, <1>11 DEF AddStep
<1>13. job' = k /\ next' = next /\ labels' = labels /\ lived' = lived
  BY <1>1, <1>5, <1>7 DEF AddStep, Stays
<1>14. Sound(T, {}, {}) /\ Found(S, T, i, allow)
  BY <1>2, <1>10, <1>12, FindPlain
<1>15. Grows(S, T, n)
  BY <1>10, <1>14, FoundGrows
<1>16. /\ T.active[r] = i
       /\ \A q \in Reg \ {r} : \/ T.active[q] = S.active[q]
                               \/ T.active[q] = NULL /\ S.active[q] = i
  BY <1>2, <1>6, <1>10, <1>11, <1>14, FoundIn
<1>17. Merged(T, k.at, k.todo, k.adds, k.saved)
  <2>1. ASSUME NEW q \in k.adds PROVE j.saved[q] # NULL /\ T.active[q] = NULL
    <3>1. q \in j.adds /\ q \in Reg \ {r}
      BY <1>4, <1>8, <2>1
    <3> QED
      BY <1>3, <1>16, <3>1 DEF Merged
  <2>2. ASSUME NEW q \in Reg, q \notin k.adds
        PROVE  T.active[q] = j.saved[q] \/ (j.at = "union" /\ j.saved[q] = NULL)
    <3>1. CASE q = r
      BY <1>9, <1>16, <3>1
    <3>2. CASE q # r
      <4>1. S.active[q] = j.saved[q] \/ (j.at = "union" /\ j.saved[q] = NULL)
        BY <1>2, <1>3, <1>8, <2>2, <3>2 DEF Merged
      <4>2. ASSUME T.active[q] # S.active[q], S.active[q] = j.saved[q] PROVE FALSE
        <5>1. j.saved[q] = i /\ i # NULL
          BY <1>10, <1>16, <3>2, <4>2, Basics
        <5> QED
          BY <1>6, <1>9, <1>10, <3>2, <5>1 DEF OneEach
      <4> QED
        BY <4>1, <4>2
    <3> QED
      BY <3>1, <3>2
  <2> QED
    BY <1>4, <1>8, <2>1, <2>2 DEF Merged
<1>18. ASSUME j.op.k = "label"
       PROVE  \A x \in T.needs : x[1] \in Reg \/ x[2] \in M[j.op.l].lives
  <2>1. \A x \in S.needs : x[1] \in Reg \/ x[2] \in M[j.op.l].lives
    BY <1>2, <1>3, <1>18 DEF MergeOK
  <2>2. \A q \in Ins : S.reg[q] # r
    <3>1. \A q \in Ins : S.reg[q] # NULL => S.active[S.reg[q]] = q
      BY <1>2 DEF Sound, Agree
    <3> QED
      BY <1>6, <1>10, <3>1, Basics
  <2>3. \A q \in Ins : S.reg[q] \notin allow
    BY <1>11, <2>2
  <2> QED
    BY <1>14, <2>1, <2>3 DEF Found, Spills
<1>19. JobOK(T, M, n, k)
  BY <1>2, <1>3, <1>8, <1>15, <1>17, <1>18, MergeGoesOn
<1> QED
  BY <1>1, <1>12, <1>13, <1>14, <1>15, <1>19, GrownStep

-----------------------------------------------------------------------------
(* The steps that follow the loops.                                        *)

LEMMA EndFenceStep == ASSUME Inv, program' = program, EndFence PROVE Inv'
<1>1. /\ UNCHANGED regVars /\ job' = Idle /\ next' = next /\ labels' = labels /\ lived' = lived
  BY DEF EndFence, Done, Stays
<1> QED
  BY <1>1, IdleOK, JobStep

\* Which job an instruction is at when its loops are done.
LEMMA DoneFacts ==
  ASSUME NEW S, NEW M, NEW n, NEW j, JobOK(S, M, n, j),
         j.at \in {"evict", "union", "intersect"}, j.todo = {}, j.adds = {}
  PROVE  /\ j.op.k = "call" =>
              CallOK(S, M, n, {}, j.op.v, j.op.addr, j.op.arg)
         /\ j.op.k \in {"label", "exit"} => j.at = "intersect"
         /\ j.at \in {"union", "intersect"} => MergeOK(S, M, n, j)
         /\ j.at = "evict" /\ j.op.k \in {"jmp", "jcc"} =>
              M[j.op.l].at = "unseen" /\ Backed(S, {})
         /\ j.at = "intersect" => \A r \in Reg : S.active[r] = j.saved[r]
         /\ j.at = "union" => \A r \in Reg : j.saved[r] # NULL => S.active[r] = j.saved[r]
<1>1. CASE j.at = "evict"
  <2>1. EvictOK(S, M, n, j)
    BY <1>1 DEF JobOK
  <2> QED
    BY <1>1, <2>1 DEF EvictOK
<1>2. CASE j.at \in {"union", "intersect"}
  <2>1. MergeOK(S, M, n, j)
    BY <1>2 DEF JobOK
  <2>2. \A r \in Reg : S.active[r] = j.saved[r] \/ (j.at = "union" /\ j.saved[r] = NULL)
    BY <2>1 DEF MergeOK, Merged
  <2> QED
    BY <1>2, <2>1, <2>2 DEF MergeOK
<1> QED
  BY <1>1, <1>2

LEMMA EndCallStep == ASSUME Inv, program' = program, EndCall PROVE Inv'
<1>1. PICK S, M, n, w, j : S = State /\ M = labels /\ n = next /\ w = lived /\ j = job
  OBVIOUS
<1>2. PICK v, addr, arg : v = j.op.v /\ addr = j.op.addr /\ arg = j.op.arg
  OBVIOUS
<1>3. /\ program \in Programs /\ Sound(S, {}, {}) /\ n \in 0 .. NumIns /\ Core(S, M, n, w)
      /\ JobOK(S, M, n, j) /\ j.at \in {"evict", "union", "intersect"} /\ j.todo = {}
      /\ j.adds = {} /\ j.op.k = "call" /\ job' = Idle /\ lived' = lived /\ labels' = labels
  BY <1>1, Before DEF EndCall, Done
<1>4. CallOK(S, M, n, {}, v, addr, arg)
  BY <1>2, <1>3, DoneFacts
<1>5. CallReady(S, v)
  BY <1>4 DEF CallOK, CallReady
<1>6. PICK T \in CallCode(S, v, addr, arg) : SetState(T)
  BY <1>1, <1>2 DEF EndCall
<1>7. next' = IF v = 0 THEN n ELSE n - 1
  BY <1>1, <1>2 DEF EndCall
<1>8. /\ v = 0 => arg \in 1 .. n /\ addr \in 0 .. n
      /\ v # 0 => v = n /\ arg \in 1 .. (n - 1) /\ addr \in 0 .. (n - 1) /\ NotAwaited(M, v)
  BY <1>4 DEF CallOK
<1>9. Sound(T, {}, {}) /\ (v = 0 => Grows(S, T, n)) /\ (v # 0 => Replaces(S, T, n))
  BY <1>3, <1>5, <1>6, <1>8, CallCodeSound
<1>10. CASE v = 0
  BY <1>1, <1>3, <1>6, <1>7, <1>9, <1>10, IdleOK, GrownStep
<1>11. CASE v # 0
  <2>1. n # 0 /\ NotAwaited(M, n) /\ Replaces(S, T, n)
    BY <1>8, <1>9, <1>11
  <2>2. Core(T, M, n - 1, w)
    BY <1>3, <1>9, <2>1, CoreReplaces
  <2>3. Becoming(T, M, n - 1, w, Idle)
    BY <1>1, <1>3, <1>6, <1>7, <1>11 DEF Becoming
  <2> QED
    BY <1>3, <2>2, <2>3, IdleOK, InvPrimed DEF Good
<1> QED
  BY <1>10, <1>11

LEMMA ReadPlain ==
  ASSUME NEW S, Sound(S, {}, {}), NEW reads, ReadsOf(S, reads, {}), NEW T, T = Read(S, reads),
         NEW n
  PROVE  Sound(T, {}, {}) /\ Grows(S, T, n)
<1>1. PICK none : none = {}
  OBVIOUS
<1>2. Sound(S, {}, none) /\ ReadsOf(S, reads, none)
  BY <1>1
<1>3. Sound(T, {}, none) /\ T.reg = S.reg /\ T.ar = S.ar
  BY <1>2, ReadServes
<1> QED
  BY <1>1, <1>3 DEF Grows, Extant

\* What a jump to a label still to be met promises is there, and stays there.
LEMMA PromiseHeld ==
  ASSUME NEW S, NEW M, NEW n, NEW v, Core(S, M, n, v), Backed(S, {}), NEW l \in Label,
         NEW promise,
         promise = {<<r, S.active[r]>> : r \in InUse(S.active)} \cup
                     {<<Slot(S, i), i>> : i \in {k \in v \ Imm : S.ar[k] # 0}},
         NEW m, m = [M[l] EXCEPT !.at = "awaited", !.active = S.active, !.promise = promise,
                                 !.lives = v \cap 1 .. n]
  PROVE  ReadsOf(S, promise, {}) /\ m \in LabelStates /\ LabelOK(S, m, n)
<1>1. M[l] \in LabelStates /\ v \subseteq Ins /\ n \in 0 .. NumIns
  BY DEF Core
<1>2. /\ m.at = "awaited" /\ m.active = S.active /\ m.promise = promise
      /\ m.lives = v \cap 1 .. n /\ m.needs = M[l].needs /\ m.live = M[l].live
  BY <1>1 DEF LabelStates
<1>3. /\ S.active \in [Reg -> Ins \cup {NULL}] /\ InUse(S.active) \subseteq Reg
      /\ S.ar \in [Ins -> 0 .. NumIns]
  BY DEF Core, Sound, IsState, InUse
<1>4. \A x \in promise : \/ \E r \in InUse(S.active) : x = <<r, S.active[r]>>
                         \/ \E i \in v \ Imm : S.ar[i] # 0 /\ x = <<-S.ar[i], i>>
  BY DEF Slot, SlotAt
<1>5. \A r \in Reg : S.active[r] # NULL => <<r, S.active[r]>> \in promise
  BY <1>3 DEF InUse
<1>6. \A i \in v \ Imm : S.ar[i] # 0 => <<-S.ar[i], i>> \in promise
  BY DEF Slot, SlotAt
<1>7. ASSUME NEW x \in promise
      PROVE  x \in Place \X Ins /\ Has(S, x) /\ (InAct(S.active, x) \/ InSlot(S, x))
  <2>1. CASE \E r \in InUse(S.active) : x = <<r, S.active[r]>>
    <3>1. PICK r \in InUse(S.active) : x = <<r, S.active[r]>>
      BY <2>1
    <3>2. r \in Reg /\ r \in Place /\ S.active[r] \in Ins
      BY <1>3, <3>1, Basics DEF InUse
    <3> QED
      BY <3>1, <3>2 DEF Has, InReg, InAct
  <2>2. CASE \E i \in v \ Imm : S.ar[i] # 0 /\ x = <<-S.ar[i], i>>
    <3>1. PICK i \in v \ Imm : S.ar[i] # 0 /\ x = <<-S.ar[i], i>>
      BY <2>2
    <3>2. i \in Ins /\ i \notin Imm
      BY <1>1, <3>1
    <3>3. S.ar[i] \in Nat
      BY <1>3, <3>2, RegAssumption
    <3>4. -S.ar[i] \in Place
      BY <3>3 DEF Place
    <3> QED
      BY <3>1, <3>2, <3>4 DEF Has, InSlot
  <2> QED
    BY <1>4, <2>1, <2>2
<1>8. m \in LabelStates
  <2>1. promise \in NeedSet
    BY <1>7 DEF NeedSet
  <2>2. v \cap 1 .. n \subseteq Ins /\ S.active \in Acts
    BY <1>1, <1>3 DEF Acts
  <2> QED
    BY <1>1, <2>1, <2>2 DEF LabelStates
<1>9. AwaitedOK(S, m, n)
  <2>1. Within(S.active, n)
    BY ActiveFacts
  <2>2. \A r \in Reg : S.active[r] # NULL => S.ar[S.active[r]] # 0
    BY DEF Backed
  <2>3. \A i \in v : i \in 1 .. n => S.ar[i] # 0
    BY DEF Core
  <2> QED
    BY <1>2, <1>5, <1>6, <1>7, <2>1, <2>2, <2>3 DEF AwaitedOK
<1>10. OneEach(m.active)
  BY <1>2, ActiveFacts
<1>11. ReadsOf(S, promise, {})
  BY <1>7 DEF ReadsOf
<1> QED
  BY <1>2, <1>8, <1>9, <1>10, <1>11 DEF LabelOK

\* What the code at a label needs is there when a jump to it has been merged.
LEMMA NeedsThere ==
  ASSUME NEW S, NEW M, NEW n, NEW v, Core(S, M, n, v), NEW j, MergeOK(S, M, n, j),
         j.op.l \in Label, j.op.k \in {"jmp", "jcc"}, j.at \in {"union", "intersect"},
         \A r \in Reg : j.saved[r] # NULL => S.active[r] = j.saved[r],
         NEW reads,
         reads = IF j.at = "union" THEN M[j.op.l].needs
                                   ELSE {x \in M[j.op.l].promise : x[2] <= n}
  PROVE  ReadsOf(S, reads, {})
<1>1. PICK l \in Label : l = j.op.l
  OBVIOUS
<1>2. M[l] \in LabelStates /\ LabelOK(S, M[l], n) /\ n \in Nat
  BY RegAssumption DEF Core
<1>3. j.saved = M[l].active
  BY <1>1 DEF MergeOK
<1>4. \A x : x[2] \in Ins /\ InAct(M[l].active, x) => Has(S, x)
  BY <1>3, Basics DEF InAct, Has, InReg
<1>5. CASE j.at = "union"
  <2>1. PlacedOK(S, M[l], n) /\ M[l].live \subseteq 1 .. n /\ reads = M[l].needs
    BY <1>1, <1>2, <1>5 DEF MergeOK, LabelOK
  <2>2. reads \subseteq Place \X Ins
    BY <1>2, <2>1 DEF LabelStates, NeedSet
  <2> QED
    BY <1>4, <2>1, <2>2 DEF PlacedOK, ReadsOf, Has
<1>6. CASE j.at = "intersect"
  <2>1. AwaitedOK(S, M[l], n) /\ reads = {x \in M[l].promise : x[2] <= n}
    BY <1>1, <1>2, <1>6 DEF MergeOK, LabelOK
  <2>2. M[l].promise \subseteq Place \X Ins
    BY <1>2 DEF LabelStates, NeedSet
  <2>3. ASSUME NEW x \in reads PROVE x \in Place \X Ins /\ Has(S, x)
    <3>1. x \in M[l].promise /\ x[2] \in Ins /\ x[2] <= n
      BY <2>1, <2>2
    <3>2. x[2] \in 1 .. n
      BY <1>2, <3>1, RegAssumption DEF Ins
    <3> QED
      BY <1>4, <2>1, <2>2, <3>1, <3>2 DEF AwaitedOK, Has
  <2> QED
    BY <2>3 DEF ReadsOf
<1> QED
  BY <1>5, <1>6

LEMMA JumpEnds ==
  ASSUME Inv, job.at \in {"evict", "union", "intersect"}, job.todo = {}, job.adds = {},
         job.op.k \in {"jmp", "jcc"}, NEW reads, reads = JumpNeeds(job.op.l),
         NEW N, AwaitLabel(job.op.l), N = labels'
  PROVE  ReadsOf(State, reads, {}) /\ Core(State, N, next, lived)
<1>1. PICK S, M, n, v, j : S = State /\ M = labels /\ n = next /\ v = lived /\ j = job
  OBVIOUS
<1>2. PICK l : l = j.op.l
  OBVIOUS
<1>3. Core(S, M, n, v) /\ JobOK(S, M, n, j) /\ l \in Label
  BY <1>1, <1>2, Before DEF JobOK
<1>4. reads = CASE M[l].at = "placed" -> M[l].needs
                [] M[l].at = "awaited" -> {x \in M[l].promise : x[2] <= n}
                [] OTHER -> Promise
  BY <1>1, <1>2 DEF JumpNeeds
<1>5. CASE j.at = "evict"
  <2>1. M[l].at = "unseen" /\ Backed(S, {})
    BY <1>1, <1>2, <1>3, <1>5, DoneFacts
  <2>2. PICK promise : promise = Promise
    OBVIOUS
  <2>3. promise = {<<r, S.active[r]>> : r \in InUse(S.active)} \cup
                    {<<Slot(S, i), i>> : i \in {k \in v \ Imm : S.ar[k] # 0}}
    BY <1>1, <2>2 DEF Promise, State
  <2>4. PICK m : m = [M[l] EXCEPT !.at = "awaited", !.active = S.active,
                                  !.promise = promise, !.lives = v \cap 1 .. n]
    OBVIOUS
  <2>5. ReadsOf(S, promise, {}) /\ m \in LabelStates /\ LabelOK(S, m, n)
    BY <1>3, <2>1, <2>3, <2>4, PromiseHeld
  <2>6. N = [M EXCEPT ![l] = m]
    BY <1>1, <1>2, <2>1, <2>2, <2>4 DEF AwaitLabel, State
  <2>7. Core(S, N, n, v)
    BY <1>3, <2>5, <2>6, CoreLabel
  <2> QED
    BY <1>1, <1>4, <2>1, <2>2, <2>5, <2>7
<1>6. CASE j.at \in {"union", "intersect"}
  <2>1. MergeOK(S, M, n, j) /\ \A r \in Reg : j.saved[r] # NULL => S.active[r] = j.saved[r]
    BY <1>1, <1>3, <1>6, DoneFacts
  <2>2. M[l].at = IF j.at = "union" THEN "placed" ELSE "awaited"
    BY <1>1, <1>2, <1>6, <2>1 DEF MergeOK
  <2>3. reads = IF j.at = "union" THEN M[j.op.l].needs
                                  ELSE {x \in M[j.op.l].promise : x[2] <= n}
    BY <1>2, <1>4, <1>6, <2>2
  <2>4. j.op.l \in Label /\ j.op.k \in {"jmp", "jcc"}
    BY <1>1, <1>2, <1>3
  <2>5. ReadsOf(S, reads, {})
    BY <1>3, <1>6, <2>1, <2>3, <2>4, NeedsThere
  <2>6. N = M
    BY <1>1, <1>2, <2>2 DEF AwaitLabel
  <2> QED
    BY <1>1, <1>3, <2>5, <2>6
<1> QED
  BY <1>1, <1>5, <1>6

LEMMA EndJmpStep == ASSUME Inv, program' = program, EndJmp PROVE Inv'
<1>1. PICK S, n, v, N, reads :
        /\ S = State /\ n = next /\ v = lived /\ N = labels' /\ reads = JumpNeeds(job.op.l)
  OBVIOUS
<1>2. PICK T : T = Read(S, reads)
  OBVIOUS
<1>3. /\ job.at \in {"evict", "union", "intersect"} /\ job.todo = {} /\ job.adds = {}
      /\ job.op.k \in {"jmp", "jcc"} /\ AwaitLabel(job.op.l)
  BY DEF EndJmp, Done
<1>4. ReadsOf(S, reads, {}) /\ Core(S, N, n, v) /\ program \in Programs /\ Sound(S, {}, {})
  BY <1>1, <1>3, JumpEnds, Before
<1>5. Core(T, N, n, v)
  BY <1>2, <1>4, ReadPlain, CoreGrows
<1>6. Becoming(T, N, n, v, Idle)
  BY <1>1, <1>2 DEF EndJmp, Done, Becoming
<1> QED
  BY <1>4, <1>5, <1>6, IdleOK, InvPrimed DEF Good

LEMMA EndJccStep == ASSUME Inv, program' = program, EndJcc PROVE Inv'
<1>1. PICK S, n, v, N, reads, a, b :
        /\ S = State /\ n = next /\ v = lived /\ N = labels' /\ reads = JumpNeeds(job.op.l)
        /\ a = job.op.a /\ b = job.op.b
  OBVIOUS
<1>2. PICK R : R = Read(S, reads)
  OBVIOUS
<1>3. /\ job.at \in {"evict", "union", "intersect"} /\ job.todo = {} /\ job.adds = {}
      /\ job.op.k \in {"jmp", "jcc"} /\ AwaitLabel(job.op.l) /\ job.op.k = "jcc"
  BY DEF EndJcc, Done
<1>4. ReadsOf(S, reads, {}) /\ Core(S, N, n, v) /\ program \in Programs /\ Sound(S, {}, {})
  BY <1>1, <1>3, JumpEnds, Before
<1>5. a \in 1 .. n /\ b \in 1 .. n /\ n \in 0 .. NumIns
  BY <1>1, <1>3, Before DEF JobOK
<1>6. Core(R, N, n, v) /\ Sound(R, {}, {})
  BY <1>2, <1>4, ReadPlain, CoreGrows
<1>7. PICK T \in Compare(R, a, b) : SetState(T)
  BY <1>1, <1>2 DEF EndJcc
<1>8. Sound(T, {}, {}) /\ Grows(R, T, n)
  BY <1>4, <1>5, <1>6, <1>7, CompareGrows
<1>9. Core(T, N, n, v)
  BY <1>6, <1>8, CoreGrows
<1>10. Becoming(T, N, n, v, Idle)
  BY <1>1, <1>7 DEF EndJcc, Done, Becoming
<1> QED
  BY <1>4, <1>9, <1>10, IdleOK, InvPrimed DEF Good

\* At the top of a loop, the code reads nothing but what jumps to it promised.
LEMMA EndLabelStep == ASSUME Inv, program' = program, EndLabel PROVE Inv'
<1>1. PICK S, M, n, v, j, l :
        /\ S = State /\ M = labels /\ n = next /\ v = lived /\ j = job /\ l = j.op.l
  OBVIOUS
<1>2. /\ program \in Programs /\ Core(S, M, n, v) /\ JobOK(S, M, n, j) /\ S.needs = needs
      /\ j.at \in {"evict", "union", "intersect"} /\ j.todo = {} /\ j.adds = {}
      /\ j.op.k = "label"
  BY <1>1, Before DEF EndLabel, Done, State
<1>3. l \in Label /\ j.at = "intersect" /\ MergeOK(S, M, n, j)
      /\ \A r \in Reg : S.active[r] = j.saved[r]
  BY <1>1, <1>2, DoneFacts DEF JobOK
<1>4. M[l].at = "awaited" /\ j.saved = M[l].active /\ M[l] \in LabelStates
      /\ \A x \in S.needs : x[1] \in Reg \/ x[2] \in M[l].lives
  BY <1>1, <1>2, <1>3 DEF MergeOK, Core
<1>5. S.active = M[l].active
  BY <1>2, <1>3, <1>4, ActiveFacts DEF LabelStates, Acts
<1>6. AwaitedOK(S, M[l], n)
  BY <1>2, <1>3, <1>4 DEF Core, LabelOK
<1>7. ASSUME NEW x \in S.needs PROVE x \in M[l].promise
  <2>1. /\ x = <<x[1], x[2]>> /\ x[2] \in Ins /\ x[2] \in 1 .. n
        /\ InAct(S.active, x) \/ InSlot(S, x)
    BY <1>2, ActiveFacts DEF Core
  <2>2. CASE InAct(S.active, x)
    <3>1. x[1] \in Reg /\ M[l].active[x[1]] = x[2] /\ x[2] # NULL
      BY <1>5, <2>1, <2>2, Basics DEF InAct
    <3>2. <<x[1], x[2]>> \in M[l].promise
      BY <1>6, <3>1 DEF AwaitedOK
    <3> QED
      BY <2>1, <3>2
  <2>3. CASE InSlot(S, x) /\ ~InAct(S.active, x)
    <3>1. S.ar[x[2]] # 0 /\ x[1] = -S.ar[x[2]] /\ x[2] \notin Imm
      BY <2>3 DEF InSlot
    <3>2. S.ar[x[2]] \in Nat
      BY <1>2, <2>1, RegAssumption DEF Core, Sound, IsState
    <3>3. x[1] \notin Reg
      BY <3>1, <3>2, Basics
    <3>4. x[2] \in M[l].lives \ Imm
      BY <1>4, <3>1, <3>3
    <3>5. <<-S.ar[x[2]], x[2]>> \in M[l].promise
      BY <1>6, <2>1, <3>4 DEF AwaitedOK
    <3> QED
      BY <2>1, <3>1, <3>5
  <2> QED
    BY <2>1, <2>2, <2>3
<1>8. PICK m : m = [M[l] EXCEPT !.at = "placed", !.active = S.active, !.needs = S.needs,
                                !.live = {i \in Ins : Extant(S, i)}]
  OBVIOUS
<1>9. PICK N : N = [M EXCEPT ![l] = m]
  OBVIOUS
<1>10. Core(S, N, n, v)
  BY <1>2, <1>3, <1>7, <1>8, <1>9, LabelPlaced, CoreLabel
<1>11. labels' = N
  <2>1. m = [M[l] EXCEPT !.at = "placed", !.needs = S.needs,
                         !.live = {i \in Ins : Extant(S, i)}]
    BY <1>4, <1>5, <1>8 DEF LabelStates
  <2> QED
    BY <1>1, <1>2, <1>9, <2>1 DEF EndLabel
<1>12. Becoming(S, N, n, v, Idle)
  BY <1>1, <1>11 DEF Becoming, EndLabel, Done, SetState, State, regVars
<1> QED
  BY <1>2, <1>10, <1>12, IdleOK, InvPrimed DEF Good

LEMMA EndExitStep == ASSUME Inv, program' = program, EndExit PROVE Inv'
<1>1. PICK S, M, n, j, a, b :
        /\ S = State /\ M = labels /\ n = next /\ j = job /\ a = j.op.a /\ b = j.op.b
  OBVIOUS
<1>2. /\ program \in Programs /\ Sound(S, {}, {}) /\ JobOK(S, M, n, j) /\ n \in 0 .. NumIns
      /\ j.at \in {"evict", "union", "intersect"} /\ j.todo = {} /\ j.adds = {}
      /\ j.op.k = "exit"
  BY <1>1, Before DEF EndExit, Done
<1>3. MergeOK(S, M, n, j) /\ \A r \in Reg : S.active[r] = j.saved[r]
  BY <1>2, DoneFacts
<1>4. a \in 1 .. n /\ b \in 1 .. n
  BY <1>1, <1>2 DEF JobOK
<1>5. PICK reads : reads = j.main
  OBVIOUS
<1>6. ReadsOf(S, reads, {})
  <2>1. reads \subseteq Place \X Ins /\ \A x \in reads : InAct(j.saved, x) \/ InSlot(S, x)
    BY <1>2, <1>3, <1>5 DEF MergeOK, NeedSet
  <2> QED
    BY <1>3, <2>1 DEF ReadsOf, InAct, Has, InReg
<1>7. PICK R : R = Read(S, reads)
  OBVIOUS
<1>8. Sound(R, {}, {}) /\ Grows(S, R, n)
  BY <1>2, <1>6, <1>7, ReadPlain
<1>9. PICK T \in Compare(R, a, b) : SetState(T)
  BY <1>1, <1>5, <1>7 DEF EndExit
<1>10. Sound(T, {}, {}) /\ Grows(R, T, n)
  BY <1>2, <1>4, <1>8, <1>9, CompareGrows
<1>11. Grows(S, T, n)
  BY <1>8, <1>10, GrowsGrows
<1>12. job' = Idle /\ next' = next /\ labels' = labels /\ lived' = lived
  BY DEF EndExit, Done, Stays
<1> QED
  BY <1>1, <1>9, <1>10, <1>11, <1>12, IdleOK, GrownStep

-----------------------------------------------------------------------------
(* The theorems.                                                           *)

LEMMA UseStep == ASSUME Inv, program' = program, Use PROVE Inv'
<1>1. PICK a \in 1 .. next :
        \/ Ret(a)
        \/ \E b \in 1 .. next : Store(a, b) \/ Exit(a, b)
        \/ \E addr \in 0 .. next : Call(0, addr, a)
  BY DEF Use
<1>2. ASSUME NEW addr \in 0 .. next, Call(0, addr, a) PROVE Inv'
  BY <1>2, CallStep
<1> QED
  BY <1>1, <1>2, RetStep, StoreStep, ExitStep

LEMMA JumpStep == ASSUME Inv, program' = program, Jump PROVE Inv'
BY JmpForwardStep, LabelUnseenStep, LabelAwaitedStep, JmpBackStep, JccForwardStep, JccBackStep
DEF Jump

LEMMA DefineOrCallStep == ASSUME Inv, program' = program, Define PROVE Inv'
<1>1. PICK i \in Ins :
        \/ \/ DefineImm(i) \/ DefineParam(i) \/ DefineLea(i)
           \/ \E a \in 1 .. (i - 1) :
                \/ DefineLoad(i, a)
                \/ \E b \in 1 .. (i - 1) :
                     \/ DefineBinary(i, a, b)
                     \/ DefineDiv(i, a, b)
                     \/ \E c \in 1 .. (i - 1) : DefineCmov(i, a, b, c)
        \/ \E a \in 1 .. (i - 1) : \E addr \in 0 .. (i - 1) : Call(i, addr, a)
  BY DEF Define
<1>2. CASE \E a \in 1 .. (i - 1) : \E addr \in 0 .. (i - 1) : Call(i, addr, a)
  BY <1>2, CallStep
<1> QED
  BY <1>1, <1>2, DefineStep

LEMMA StepOK == ASSUME Inv, program' = program, Step PROVE Inv'
<1>1. CASE Skip
  BY <1>1, SkipStep
<1>2. CASE Define
  BY <1>2, DefineOrCallStep
<1>3. CASE Use
  BY <1>3, UseStep
<1>4. CASE Fence
  BY <1>4, FenceStep
<1>5. CASE Jump
  BY <1>5, JumpStep
<1>6. CASE Loop
  BY <1>6, ReserveStepOK, LivesStepOK, HandledStep, EvictStepOK, MergeStepOK, AddStepOK DEF Loop
<1>7. CASE End
  BY <1>7, EndFenceStep, EndCallStep, EndJmpStep, EndJccStep, EndLabelStep, EndExitStep DEF End
<1> QED
  BY <1>1, <1>2, <1>3, <1>4, <1>5, <1>6, <1>7 DEF Step

\* Nothing but the variables is read.
LEMMA StutterOK == ASSUME Inv, UNCHANGED vars PROVE Inv'
<1>1. PICK j : j = job
  OBVIOUS
<1>2. JobOK(State, labels, next, j)
  BY <1>1, Before
<1>3. /\ program' = program /\ UNCHANGED regVars /\ labels' = labels /\ next' = next
      /\ lived' = lived /\ job' = j
  BY <1>1 DEF vars
<1> QED
  BY <1>2, <1>3, JobStep

\* The records of the allocator agree with each other, with what the emitted
\* code reads, with the labels' states and with the instruction being assembled,
\* whatever the program and the number of registers.
THEOREM RegAllocInvariant == Spec => []Inv
<1>1. Inv /\ [Next]_vars => Inv'
  BY StepOK, StutterOK DEF Next
<1> QED
  BY <1>1, InitInv, PTL DEF Spec

\* Every managed register is free or holds one value, which names it, and no
\* two values share a stack slot, between and within instructions: findVictim,
\* evict and the freeing of a result's registers never lose one.
THEOREM RegistersAlwaysConsistent == Spec => []RegistersConsistent
<1>1. ASSUME Inv PROVE RegistersConsistent
  <2>1. PICK S : S = State
    OBVIOUS
  <2>2. Sound(S, {}, {})
    BY <1>1, <2>1, Before
  <2>3. /\ \A r \in Reg : r \in S.free <=> S.active[r] = NULL
        /\ \A r \in Reg : S.active[r] # NULL => S.reg[S.active[r]] = r
        /\ \A i \in Ins : S.reg[i] # NULL => S.active[S.reg[i]] = i
    BY <2>2 DEF Sound, Agree
  <2>4. DOMAIN S.active = Reg /\ DOMAIN S.reg = Ins /\ InUse(S.active) \subseteq Reg
    BY <2>2, Fields DEF Sound, InUse
  <2>5. Consistent(S)
    BY <2>3, <2>4 DEF Consistent, InUse
  <2> QED
    BY <2>1, <2>2, <2>5 DEF RegistersConsistent, Sound
<1> QED
  BY <1>1, RegAllocInvariant, PTL

\* Whatever the emitted code reads at its entry is where the allocator has put
\* it: evictions, copies between registers, spills and calls all reload, move or
\* store what code already emitted expects.
THEOREM ValuesAlwaysWhereNeeded == Spec => []ValuesWhereNeeded
<1>1. ASSUME Inv PROVE ValuesWhereNeeded
  <2>1. PICK S, n : S = State /\ n = next
    OBVIOUS
  <2>2. Sound(S, {}, {}) /\ IsState(S) /\ Core(S, labels, n, lived)
    BY <1>1, <2>1, Before DEF Sound
  <2>3. ASSUME NEW x \in S.needs PROVE x \in Provided(S)
    <3>1. x = <<x[1], x[2]>> /\ x[2] \in Ins /\ (InAct(S.active, x) \/ InSlot(S, x))
      BY <2>2, ActiveFacts
    <3>2. CASE InAct(S.active, x)
      <4>1. x[1] \in InUse(S.active) /\ S.active[x[1]] = x[2]
        BY <2>2, <3>1, <3>2, Fields, Basics DEF InAct, InUse
      <4> QED
        BY <3>1, <4>1 DEF Provided
    <3>3. CASE InSlot(S, x)
      <4>1. S.ar[x[2]] # 0 /\ x[1] = Slot(S, x[2])
        BY <3>3 DEF InSlot, Slot, SlotAt
      <4>2. x[2] \in {i \in DOMAIN S.ar : S.ar[i] # 0 /\ ~IsAlloc(S, i)}
        BY <2>2, <3>1, <4>1, Fields DEF IsAlloc
      <4> QED
        BY <3>1, <4>1, <4>2 DEF Provided
    <3> QED
      BY <3>1, <3>2, <3>3
  <2>4. S.needs = needs
    BY <2>1 DEF State
  <2> QED
    BY <2>1, <2>3, <2>4 DEF ValuesWhereNeeded
<1> QED
  BY <1>1, RegAllocInvariant, PTL

\* When gen has passed the instruction that defines a value, the value holds
\* neither register nor slot.
THEOREM NothingEverOutlivesItsDefinition == Spec => []NothingOutlivesItsDefinition
<1>1. ASSUME Inv PROVE NothingOutlivesItsDefinition
  <2>1. next \in 0 .. NumIns /\ NumIns \in Nat
    BY <1>1, Before, RegAssumption
  <2>2. \A i \in Ins : Extant(State, i) => i \in 1 .. next
    BY <1>1 DEF Inv, Good, Core
  <2>3. \A i \in 1 .. next : i <= next
    BY <2>1
  <2> QED
    BY <2>2, <2>3 DEF NothingOutlivesItsDefinition
<1> QED
  BY <1>1, RegAllocInvariant, PTL

\* asm_leave_trace's intersectRegisterState leaves the registers of the main
\* path as they were before the exit.
THEOREM ExitsAlwaysLeaveRegistersAlone == Spec => []ExitsLeaveRegistersAlone
<1>1. ASSUME Inv PROVE ExitsLeaveRegistersAlone
  <2> SUFFICES ASSUME job.op.k = "exit", job.todo = {}, job.adds = {}
               PROVE  active = job.saved
    BY DEF ExitsLeaveRegistersAlone
  <2>1. PICK S, j : S = State /\ j = job
    OBVIOUS
  <2>2. JobOK(S, labels, next, j) /\ Sound(S, {}, {}) /\ S.active = active
    BY <1>1, <2>1, Before DEF State
  <2>3. j.at \in {"evict", "union", "intersect"}
    BY <2>1, <2>2 DEF JobOK, LivesOK
  <2>4. MergeOK(S, labels, next, j) /\ \A r \in Reg : S.active[r] = j.saved[r]
    BY <2>1, <2>2, <2>3, DoneFacts
  <2>5. S.active \in Acts /\ j.saved \in Acts
    BY <2>2, <2>4 DEF MergeOK, Sound, IsState, Acts
  <2>6. S.active = j.saved
    BY <2>4, <2>5 DEF Acts
  <2> QED
    BY <2>1, <2>2, <2>6
<1> QED
  BY <1>1, RegAllocInvariant, PTL

\* Jumping back to the top of a loop gives the code there all that it reads,
\* however many jumps there are and whatever code is between.
THEOREM LoopsAlwaysGetWhatTheyRead == Spec => []LoopsGetWhatTheyRead
<1>1. ASSUME Inv PROVE LoopsGetWhatTheyRead
  <2>1. \A l \in Label : LabelOK(State, labels[l], next)
    BY <1>1 DEF Inv, Good, Core
  <2> QED
    BY <2>1 DEF LoopsGetWhatTheyRead, LabelOK, PlacedOK
<1> QED
  BY <1>1, RegAllocInvariant, PTL

=============================================================================
