--------------------------- MODULE BackendsProofs ---------------------------
(***************************************************************************)
(* Theorems about Backends: for any processors, programs and code that     *)
(* follows the rules of Upkeep, the register state is consistent between   *)
(* instructions and nothing is kept for a value above its definition.      *)
(*                                                                         *)
(* First what the operators of RegState and Native do to a good register   *)
(* state; then, for each step of a script, that what Upkeep knows after it *)
(* is true; then whole scripts, by induction over their steps.             *)
(***************************************************************************)
EXTENDS Backends, FiniteSetTheorems, WellFoundedInduction, TLAPS

-----------------------------------------------------------------------------
(* Numbers.                                                                *)

LEMMA LeastNat ==
  ASSUME NEW T, T \subseteq Nat, T # {}
  PROVE  \E x \in T : \A y \in T : x <= y
<1> DEFINE R == {ss \in Nat \X Nat : ss[1] < ss[2]}
<1>1. IsWellFoundedOn(R, Nat)
  BY NatLessThanWellFounded DEF OpToRel
<1>2. \A x, y \in Nat : y < x => <<y, x>> \in R
  OBVIOUS
<1> HIDE DEF R
<1>3. PICK x \in T : \A y \in T : ~(<<y, x>> \in R)
  BY <1>1, WFMin
<1>4. \A y \in T : ~(y < x)
  BY <1>2, <1>3
<1> QED
  BY <1>4

-----------------------------------------------------------------------------
(* A good register state.                                                  *)

Fields == {"mach", "kind", "free", "active", "reg", "ar", "needs", "env", "used",
           "protected", "to", "saved"}
Ins(S) == 1..Len(S.kind)
Managed(S) == S.mach.managed

IsState(S) ==
  /\ DOMAIN S = Fields
  /\ IsMachine(S.mach)
  /\ S.kind \in Seq(STRING)
  /\ S.free \subseteq Managed(S)
  /\ S.active \in [Managed(S) -> Ins(S) \cup {NULL}]
  /\ S.reg \in [Ins(S) -> Managed(S) \cup {NULL}]
  /\ S.ar \in [Ins(S) -> 0..Len(S.kind)]

\* Registers and reservations name each other, but for the values in L, whose
\* register has been retired and not yet replaced.
Agree(S, L) ==
  /\ \A r \in Managed(S) : r \in S.free <=> S.active[r] = NULL
  /\ \A r \in Managed(S) : S.active[r] # NULL => S.reg[S.active[r]] = r
  /\ \A i \in Ins(S) \ L : S.reg[i] # NULL => S.active[S.reg[i]] = i
  /\ \A i \in Ins(S) \cap L : \A r \in Managed(S) : S.active[r] # i

\* The registers value i may be in.
ClassOf(S, i) ==
  IF S.kind[i] \in FpKinds THEN Managed(S) \cap S.mach.fpr ELSE Managed(S) \ S.mach.fpr

Sorted(S) ==
  \A r \in Managed(S) : S.active[r] # NULL => r \in ClassOf(S, S.active[r])

\* Only the values 1..n have anything kept for them.
Below(S, n) == \A i \in Ins(S) : Extant(S, i) => i <= n

Good(S, n, L) ==
  IsState(S) /\ Agree(S, L) /\ Disjoint(S) /\ Sorted(S) /\ Below(S, n)

\* What only a script changes; and what some steps leave alone.
Fixed(S, T) ==
  /\ DOMAIN T = DOMAIN S
  /\ T.mach = S.mach /\ T.kind = S.kind
  /\ T.env = S.env /\ T.to = S.to /\ T.saved = S.saved

Alike(S, T) ==
  /\ DOMAIN T = DOMAIN S
  /\ T.mach = S.mach /\ T.kind = S.kind
  /\ T.free = S.free /\ T.active = S.active /\ T.reg = S.reg /\ T.ar = S.ar

Quiet(S, T) ==
  /\ Fixed(S, T)
  /\ T.free = S.free /\ T.active = S.active /\ T.reg = S.reg /\ T.ar = S.ar

\* Where values are lost from when registers in regs are emptied: a double may need
\* a temporary to be restored.
Lossy(S, regs) ==
  regs \cup {t \in S.mach.tempRegs : S.mach.tempKinds # {} /\ regs \cap S.mach.fpr # {}}

\* What becomes of the other values when registers in regs are emptied or taken for
\* the values in D.
Keeps(S, T, D, regs) ==
  /\ Fixed(S, T)
  /\ \A j \in Ins(S) \ D :
       /\ T.reg[j] = S.reg[j] \/ (T.reg[j] = NULL /\ S.reg[j] \in Lossy(S, regs))
       /\ Extant(T, j) => Extant(S, j)
  /\ \A r \in S.free \ regs : r \in T.free

Empties(S, T, regs) == Keeps(S, T, {}, regs) /\ S.free \subseteq T.free

Finds(S, T, i, regs) == Keeps(S, T, {i}, regs) /\ T.reg[i] \in regs

LEMMA NotNull ==
  ASSUME NEW S, IsState(S)
  PROVE  /\ NULL \notin Managed(S) /\ NULL \notin Ins(S) /\ NULL # 0
         /\ Len(S.kind) \in Nat /\ DOMAIN S.kind = Ins(S) /\ Ins(S) \subseteq Nat
         /\ DOMAIN S.active = Managed(S) /\ DOMAIN S.reg = Ins(S) /\ DOMAIN S.ar = Ins(S)
<1>1. Len(S.kind) \in Nat /\ DOMAIN S.kind = Ins(S)
  BY DEF IsState, Ins
<1>2. NULL \notin Nat
  BY ProgramsAssumption
<1>3. Ins(S) \subseteq Nat
  BY <1>1 DEF Ins
<1>4. NULL # 0
  <2>1. 0 \in Nat
    OBVIOUS
  <2> QED
    BY <1>2, <2>1
<1> QED
  BY <1>1, <1>2, <1>3, <1>4 DEF IsState, IsMachine, Managed

LEMMA AlikeGood ==
  ASSUME NEW S, NEW n, NEW L, Good(S, n, L), NEW T, Alike(S, T)
  PROVE  Good(T, n, L)
<1>1. IsState(S) /\ Agree(S, L) /\ Disjoint(S) /\ Sorted(S) /\ Below(S, n)
  BY DEF Good
<1>2. IsState(T)
  BY <1>1 DEF Alike, IsState, Ins, Managed
<1>3. Agree(T, L)
  BY <1>1 DEF Alike, Agree, Ins, Managed
<1>4. Disjoint(T)
  BY <1>1 DEF Alike, Disjoint
<1>5. Sorted(T)
  BY <1>1 DEF Alike, Sorted, ClassOf, Managed
<1>6. Below(T, n)
  BY <1>1 DEF Alike, Below, Extant, Ins
<1> QED
  BY <1>2, <1>3, <1>4, <1>5, <1>6 DEF Good

LEMMA QuietIsGood ==
  ASSUME NEW S, NEW n, NEW L, Good(S, n, L), NEW T, Quiet(S, T)
  PROVE  Good(T, n, L)
BY AlikeGood DEF Quiet, Fixed, Alike

LEMMA QuietKeeps ==
  ASSUME NEW S, NEW T, Quiet(S, T), NEW D, NEW regs
  PROVE  Keeps(S, T, D, regs) /\ Empties(S, T, regs)
BY DEF Quiet, Keeps, Empties, Extant

LEMMA QuietQuiet ==
  ASSUME NEW S, NEW T, NEW U, Quiet(S, T), Quiet(T, U)
  PROVE  Quiet(S, U)
BY DEF Quiet, Fixed

LEMMA KeepsKeeps ==
  ASSUME NEW S, NEW T, NEW U, NEW D, NEW regs, Keeps(S, T, D, regs), Keeps(T, U, D, regs)
  PROVE  Keeps(S, U, D, regs)
<1>1. Lossy(T, regs) = Lossy(S, regs) /\ Ins(T) = Ins(S)
  BY DEF Keeps, Fixed, Lossy, Ins
<1>2. Fixed(S, U)
  BY DEF Keeps, Fixed
<1>3. ASSUME NEW j \in Ins(S) \ D
      PROVE  /\ U.reg[j] = S.reg[j] \/ (U.reg[j] = NULL /\ S.reg[j] \in Lossy(S, regs))
             /\ Extant(U, j) => Extant(S, j)
  <2>1. /\ T.reg[j] = S.reg[j] \/ (T.reg[j] = NULL /\ S.reg[j] \in Lossy(S, regs))
        /\ Extant(T, j) => Extant(S, j)
    BY <1>3 DEF Keeps
  <2>2. /\ U.reg[j] = T.reg[j] \/ (U.reg[j] = NULL /\ T.reg[j] \in Lossy(S, regs))
        /\ Extant(U, j) => Extant(T, j)
    BY <1>1, <1>3 DEF Keeps
  <2> QED
    BY <2>1, <2>2
<1> QED
  BY <1>2, <1>3 DEF Keeps

\* More may be lost.
LEMMA KeepsMore ==
  ASSUME NEW S, NEW T, NEW D, NEW D2, NEW regs, NEW regs2, Keeps(S, T, D, regs),
         D \subseteq D2, regs \subseteq regs2
  PROVE  Keeps(S, T, D2, regs2)
<1>1. Lossy(S, regs) \subseteq Lossy(S, regs2)
  BY DEF Lossy
<1> QED
  BY <1>1 DEF Keeps

-----------------------------------------------------------------------------
(* Emitted instructions.                                                   *)

LEMMA NeedsQuiet ==
  ASSUME NEW S, DOMAIN S = Fields, NEW X
  PROVE  Quiet(S, [S EXCEPT !.needs = X])
BY DEF Quiet, Fixed, Fields

LEMMA ReadQuiet ==
  ASSUME NEW S, DOMAIN S = Fields, NEW reads
  PROVE  Quiet(S, Read(S, reads))
BY DEF Read, Quiet, Fixed, Fields

LEMMA ClobberQuiet ==
  ASSUME NEW S, DOMAIN S = Fields, NEW locs
  PROVE  Quiet(S, Clobber(S, locs))
<1>1. PICK lost : lost = {n \in S.needs : n[1] \in locs}
  OBVIOUS
<1>2. PICK X : X = (S.needs \ lost) \cup {<<NULL, n[2]>> : n \in lost}
  OBVIOUS
<1>3. Clobber(S, locs) = IF lost = {} THEN S ELSE [S EXCEPT !.needs = X]
  BY <1>1, <1>2 DEF Clobber
<1> QED
  BY <1>3, NeedsQuiet DEF Quiet, Fixed

LEMMA WriteQuiet ==
  ASSUME NEW S, DOMAIN S = Fields, NEW loc, NEW i, NEW reads
  PROVE  Quiet(S, Write(S, loc, i, reads))
<1>1. PICK X : X = S.needs \ {<<loc, i>>}
  OBVIOUS
<1>2. PICK T : T = [S EXCEPT !.needs = X]
  OBVIOUS
<1>3. PICK U : U = Clobber(T, {loc})
  OBVIOUS
<1>4. Quiet(S, T) /\ DOMAIN T = Fields
  BY <1>2, NeedsQuiet DEF Quiet, Fixed
<1>5. Quiet(T, U) /\ DOMAIN U = Fields
  BY <1>3, <1>4, ClobberQuiet DEF Quiet, Fixed
<1>6. Quiet(U, Read(U, reads))
  BY <1>5, ReadQuiet
<1>7. Write(S, loc, i, reads) = Read(U, reads)
  BY <1>1, <1>2, <1>3 DEF Write
<1> QED
  BY <1>4, <1>5, <1>6, <1>7, QuietQuiet

LEMMA SpillQuiet ==
  ASSUME NEW S, DOMAIN S = Fields, NEW i
  PROVE  Quiet(S, AsmMaybeSpill(S, i))
<1>1. Quiet(S, S)
  BY DEF Quiet, Fixed
<1> QED
  BY <1>1, WriteQuiet DEF AsmMaybeSpill, Move

LEMMA BreakQuiet ==
  ASSUME NEW S, DOMAIN S = Fields
  PROVE  Quiet(S, PageBreak(S))
<1>1. Quiet(S, S)
  BY DEF Quiet, Fixed
<1> QED
  BY <1>1, ClobberQuiet DEF PageBreak

LEMMA EmitQuiet ==
  ASSUME NEW S, DOMAIN S = Fields, NEW loc, NEW i, NEW reads
  PROVE  Quiet(S, Emit(S, loc, i, reads))
<1>1. PICK T : T = IF loc = "none" THEN Read(S, Where(S, reads))
                                   ELSE Write(S, At(S, loc), i, Where(S, reads))
  OBVIOUS
<1>2. Quiet(S, T) /\ DOMAIN T = Fields
  BY <1>1, ReadQuiet, WriteQuiet DEF Quiet, Fixed
<1>3. Quiet(T, PageBreak(T))
  BY <1>2, BreakQuiet
<1> QED
  BY <1>1, <1>2, <1>3, QuietQuiet DEF Emit

-----------------------------------------------------------------------------
(* findMemFor: there is always a slot left, and nobody else has it.        *)

LEMMA SlotLeft ==
  ASSUME NEW N, N \in Nat, NEW f, f \in [1..N -> 0..N], NEW i, i \in 1..N, f[i] = 0
  PROVE  \E s \in 1..N : s \notin {f[j] : j \in 1..N}
<1> DEFINE Others == (1..N) \ {i}
           g == [j \in Others |-> f[j]]
           T == {g[j] : j \in Others}
<1>1. N >= 1 /\ IsFiniteSet(1..N) /\ Cardinality(1..N) = N
  BY FS_Interval
<1>2. IsFiniteSet(Others) /\ Cardinality(Others) = N - 1
  BY <1>1, FS_RemoveElement
<1>3. g \in Surjection(Others, T)
  BY DEF Surjection
<1>4. IsFiniteSet(T) /\ Cardinality(T) <= N - 1
  <2> HIDE DEF T, g, Others
  <2> QED
    BY <1>2, <1>3, FS_Surjection
<1>5. ~(1..N \subseteq T)
  <2> HIDE DEF T
  <2>1. ASSUME 1..N \subseteq T PROVE FALSE
    <3>1. Cardinality(1..N) <= Cardinality(T)
      BY <1>4, <2>1, FS_Subset
    <3>2. Cardinality(T) \in Nat
      BY <1>4, FS_CardinalityType
    <3> QED
      BY <1>1, <1>4, <3>1, <3>2
  <2> QED
    BY <2>1
<1>6. PICK s \in 1..N : s \notin T
  BY <1>5
<1>7. ASSUME NEW j \in 1..N, s = f[j] PROVE FALSE
  <2>1. j # i
    BY <1>7
  <2>2. g[j] = s /\ j \in Others
    BY <1>7, <2>1
  <2> QED
    BY <1>6, <2>2
<1> QED
  BY <1>6, <1>7

\* A slot that f gives to nobody, and those before it to somebody.
FreshIn(f, N) ==
  \E s \in 1..N : /\ \A j \in 1..N : f[j] # s
                  /\ \A t \in 1..(s - 1) : \E j \in 1..N : f[j] = t

LEMMA FreshSlot ==
  ASSUME NEW N, N \in Nat, NEW f, f \in [1..N -> 0..N], NEW i, i \in 1..N, f[i] = 0
  PROVE  FreshIn(f, N)
<1>1. PICK T : T = {s \in 1..N : \A j \in 1..N : f[j] # s}
  OBVIOUS
<1>2. T \subseteq Nat /\ T # {}
  <2>1. T \subseteq Nat
    BY <1>1
  <2>2. PICK s \in 1..N : s \notin {f[j] : j \in 1..N}
    BY SlotLeft
  <2> QED
    BY <1>1, <2>1, <2>2
<1>3. PICK s \in T : \A t \in T : s <= t
  BY <1>2, LeastNat
<1>4. s \in 1..N /\ \A j \in 1..N : f[j] # s
  BY <1>1, <1>3
<1>5. ASSUME NEW t \in 1..(s - 1) PROVE \E j \in 1..N : f[j] = t
  <2>1. t \in 1..N /\ ~(s <= t)
    BY <1>4
  <2> QED
    BY <1>1, <1>3, <2>1
<1> QED
  BY <1>4, <1>5 DEF FreshIn

LEMMA FindMemForGood ==
  ASSUME NEW S, NEW n, NEW L, Good(S, n, L), NEW i \in Ins(S), i <= n,
         NEW T, T = FindMemFor(S, i)
  PROVE  /\ Good(T, n, L) /\ Fixed(S, T)
         /\ T.free = S.free /\ T.active = S.active /\ T.reg = S.reg
         /\ \A j \in Ins(S) \ {i} : T.ar[j] = S.ar[j]
         /\ T.ar[i] # 0
<1>1. PICK N : N \in Nat /\ N = Len(S.kind)
  BY NotNull DEF Good
<1>2. /\ IsState(S) /\ N \in Nat /\ S.ar \in [1..N -> 0..N] /\ DOMAIN S.ar = 1..N /\ i \in 1..N
      /\ Ins(S) = 1..N
  BY <1>1, NotNull DEF Good, IsState, Ins
<1>3. CASE S.ar[i] # 0
  BY <1>2, <1>3 DEF FindMemFor, Fixed
<1>4. CASE S.ar[i] = 0
  <2>1. Cardinality(1..N) = N
    BY <1>2, FS_Interval
  <2>2. PICK f, used : f = S.ar /\ used = {S.ar[j] : j \in 1..N}
    OBVIOUS
  <2>3. PICK new : new = CHOOSE s \in 1..N : s \notin used /\ 1..(s - 1) \subseteq used
    OBVIOUS
  <2>4. T = [S EXCEPT !.ar[i] = new]
    BY <1>2, <1>4, <2>1, <2>2, <2>3 DEF FindMemFor
  <2>5. new \in 1..N /\ \A j \in 1..N : S.ar[j] # new
    <3>1. N \in Nat /\ f \in [1..N -> 0..N] /\ i \in 1..N /\ f[i] = 0
      BY <1>2, <1>4, <2>2
    <3>2. FreshIn(f, N)
      BY <3>1, FreshSlot
    <3>3. PICK s \in 1..N : /\ \A j \in 1..N : f[j] # s
                            /\ \A t \in 1..(s - 1) : \E j \in 1..N : f[j] = t
      BY <3>2 DEF FreshIn
    <3>4. s \notin used /\ 1..(s - 1) \subseteq used
      BY <2>2, <3>1, <3>3
    <3>5. new \in 1..N /\ new \notin used
      BY <2>3, <3>4
    <3> QED
      BY <2>2, <3>5
  <2>6. /\ Fixed(S, T) /\ T.free = S.free /\ T.active = S.active /\ T.reg = S.reg
        /\ T.ar = [S.ar EXCEPT ![i] = new]
    BY <1>2, <2>4 DEF IsState, Fields, Fixed
  <2>7. IsState(T)
    BY <1>2, <2>5, <2>6 DEF IsState, Fixed, Ins, Managed
  <2>8. Agree(T, L) /\ Sorted(T)
    BY <2>6 DEF Good, Agree, Sorted, ClassOf, Fixed, Ins, Managed
  <2>9. Disjoint(T)
    <3>1. \A j, l \in 1..N : S.ar[j] = S.ar[l] /\ S.ar[j] # 0 => j = l
      BY <1>2 DEF Good, Disjoint
    <3>2. DOMAIN T.ar = 1..N /\ T.ar[i] = new /\ \A j \in 1..N : j # i => T.ar[j] = S.ar[j]
      BY <1>2, <2>6
    <3>3. \A j, l \in 1..N : T.ar[j] = T.ar[l] /\ T.ar[j] # 0 => j = l
      BY <2>5, <3>1, <3>2
    <3> QED
      BY <3>2, <3>3 DEF Disjoint
  <2>10. Below(T, n)
    BY <1>2, <2>6 DEF Good, Below, Extant, Fixed, Ins
  <2> QED
    BY <1>2, <2>5, <2>6, <2>7, <2>8, <2>9, <2>10 DEF Good, Ins
<1> QED
  BY <1>3, <1>4

-----------------------------------------------------------------------------
(* Emptying registers.                                                     *)

LEMMA RestoreGood ==
  ASSUME NEW S, NEW n, NEW L, Good(S, n, L), NEW i \in Ins(S), Extant(S, i), NEW r,
         NEW T, T = Restore(S, i, r)
  PROVE  /\ Good(T, n, L) /\ Fixed(S, T)
         /\ T.free = S.free /\ T.active = S.active /\ T.reg = S.reg
         /\ \A j \in Ins(S) : Extant(T, j) => Extant(S, j)
<1>1. IsState(S) /\ i <= n
  BY DEF Good, Below
<1>2. PICK U : U = IF NeedsSlot(S, i) THEN FindMemFor(S, i) ELSE S
  OBVIOUS
<1>3. /\ Good(U, n, L) /\ Fixed(S, U)
      /\ U.free = S.free /\ U.active = S.active /\ U.reg = S.reg
      /\ \A j \in Ins(S) \ {i} : U.ar[j] = S.ar[j]
  <2>1. CASE NeedsSlot(S, i)
    BY <1>1, <1>2, <2>1, FindMemForGood
  <2>2. CASE ~NeedsSlot(S, i)
    BY <1>2, <2>2 DEF Fixed
  <2> QED
    BY <2>1, <2>2
<1>4. PICK V : V = Write(U, r, i, RestoreReads(U, i, r))
  OBVIOUS
<1>5. Quiet(U, V) /\ DOMAIN V = Fields
  BY <1>3, <1>4, WriteQuiet DEF Good, IsState, Quiet, Fixed
<1>6. T = Clobber(V, RestoreTrash(U, i) \ {r})
  BY <1>2, <1>4 DEF Restore
<1>7. Quiet(U, T)
  BY <1>5, <1>6, ClobberQuiet, QuietQuiet
<1>8. Good(T, n, L)
  BY <1>3, <1>7, QuietIsGood
<1>9. /\ Fixed(S, T) /\ T.free = S.free /\ T.active = S.active /\ T.reg = S.reg
      /\ \A j \in Ins(S) \ {i} : T.ar[j] = S.ar[j]
  BY <1>3, <1>7 DEF Quiet, Fixed
<1> QED
  BY <1>8, <1>9 DEF Extant

\* Value i loses its register r.
Drops(S, T, i, r) ==
  /\ Fixed(S, T)
  /\ T.free = S.free \cup {r} /\ T.active = [S.active EXCEPT ![r] = NULL]
  /\ T.reg = [S.reg EXCEPT ![i] = NULL]

LEMMA DropIs ==
  ASSUME NEW S, DOMAIN S = Fields, NEW i, NEW r,
         NEW T, T = ClearReg(Retire(S, r), i)
  PROVE  Drops(S, T, i, r) /\ T.ar = S.ar
<1>1. PICK U : U = Retire(S, r)
  OBVIOUS
<1>2. /\ Fixed(S, U) /\ U.free = S.free \cup {r} /\ U.active = [S.active EXCEPT ![r] = NULL]
      /\ U.reg = S.reg /\ U.ar = S.ar
  BY <1>1 DEF Retire, Fixed, Fields
<1>3. T = ClearReg(U, i)
  BY <1>1
<1> QED
  BY <1>2, <1>3 DEF ClearReg, Fixed, Fields, Drops

LEMMA DropGood ==
  ASSUME NEW S, NEW n, NEW L, Good(S, n, L), NEW r \in Managed(S), NEW i \in Ins(S),
         S.active[r] = i, NEW T, Drops(S, T, i, r), T.ar = S.ar
  PROVE  /\ Good(T, n, L) /\ T.active[r] = NULL /\ T.reg[i] = NULL /\ S.reg[i] = r
         /\ \A j \in Ins(S) \ {i} : T.reg[j] = S.reg[j]
         /\ \A j \in Ins(S) : Extant(T, j) => Extant(S, j)
<1>1. /\ IsState(S) /\ Agree(S, L) /\ NULL \notin Managed(S) /\ NULL \notin Ins(S)
      /\ S.active \in [Managed(S) -> Ins(S) \cup {NULL}]
      /\ S.reg \in [Ins(S) -> Managed(S) \cup {NULL}]
  BY NotNull DEF Good, IsState
<1>2. S.reg[i] = r
  BY <1>1 DEF Agree
<1>3. /\ T.free = S.free \cup {r} /\ T.active = [S.active EXCEPT ![r] = NULL]
      /\ T.reg = [S.reg EXCEPT ![i] = NULL] /\ Ins(T) = Ins(S) /\ Managed(T) = Managed(S)
  BY DEF Drops, Fixed, Ins, Managed
<1>4. T.active[r] = NULL /\ T.reg[i] = NULL /\ \A j \in Ins(S) \ {i} : T.reg[j] = S.reg[j]
  BY <1>1, <1>3
<1>5. IsState(T)
  <2>1. /\ T.free \subseteq Managed(S) /\ T.active \in [Managed(S) -> Ins(S) \cup {NULL}]
        /\ T.reg \in [Ins(S) -> Managed(S) \cup {NULL}]
    BY <1>1, <1>3 DEF IsState
  <2> QED
    BY <1>1, <1>3, <2>1 DEF IsState, Drops, Fixed, Ins, Managed
<1>6. Agree(T, L)
  <2>1. \A q \in Managed(S) : q \in T.free <=> T.active[q] = NULL
    BY <1>1, <1>3 DEF Agree
  <2>2. \A q \in Managed(S) : T.active[q] # NULL => T.reg[T.active[q]] = q
    BY <1>1, <1>2, <1>3 DEF Agree
  <2>3. \A j \in Ins(S) \ L : T.reg[j] # NULL => T.active[T.reg[j]] = j
    BY <1>1, <1>2, <1>3 DEF Agree
  <2>4. \A j \in Ins(S) \cap L : \A q \in Managed(S) : T.active[q] # j
    BY <1>1, <1>3 DEF Agree
  <2> QED
    BY <1>3, <2>1, <2>2, <2>3, <2>4 DEF Agree
<1>7. Disjoint(T)
  BY DEF Good, Disjoint
<1>8. Sorted(T)
  <2>1. ClassOf(T, 0) = ClassOf(S, 0) /\ \A j : ClassOf(T, j) = ClassOf(S, j)
    BY <1>3 DEF ClassOf, Drops, Fixed
  <2>2. \A q \in Managed(S) : T.active[q] # NULL => T.active[q] = S.active[q]
    BY <1>1, <1>3
  <2> QED
    BY <1>3, <2>1, <2>2 DEF Good, Sorted
<1>9. \A j \in Ins(S) : Extant(T, j) => Extant(S, j)
  BY <1>1, <1>3 DEF Extant
<1>10. Below(T, n)
  BY <1>3, <1>9 DEF Good, Below
<1> QED
  BY <1>2, <1>4, <1>5, <1>6, <1>7, <1>8, <1>9, <1>10 DEF Good

LEMMA VacateGood ==
  ASSUME NEW S, NEW n, NEW L, Good(S, n, L), NEW r \in Managed(S),
         NEW T, T = Vacate(S, r)
  PROVE  /\ Good(T, n, L) /\ Fixed(S, T) /\ T.free = S.free \cup {r}
         /\ \A j \in Ins(S) :
              /\ T.reg[j] = S.reg[j] \/ (T.reg[j] = NULL /\ S.reg[j] = r)
              /\ Extant(T, j) => Extant(S, j)
<1>1. /\ IsState(S) /\ NULL \notin Ins(S)
      /\ S.active \in [Managed(S) -> Ins(S) \cup {NULL}]
  BY NotNull DEF Good, IsState
<1>2. CASE S.active[r] = NULL
  <2>1. T = S
    BY <1>2 DEF Vacate
  <2>2. r \in S.free
    BY <1>2 DEF Good, Agree
  <2> QED
    BY <2>1, <2>2 DEF Fixed
<1>3. CASE S.active[r] # NULL
  <2>1. PICK i \in Ins(S) : i = S.active[r]
    BY <1>1, <1>3
  <2>2. S.reg[i] = r /\ S.reg[i] # NULL
    BY <1>3, <2>1, NotNull DEF Good, Agree
  <2>3. PICK U : U = Restore(S, i, r)
    OBVIOUS
  <2>4. /\ Good(U, n, L) /\ Fixed(S, U)
        /\ U.free = S.free /\ U.active = S.active /\ U.reg = S.reg
        /\ \A j \in Ins(S) : Extant(U, j) => Extant(S, j)
    BY <2>2, <2>3, RestoreGood DEF Extant
  <2>5. T = ClearReg(Retire(U, r), i)
    BY <1>3, <2>1, <2>3 DEF Vacate
  <2>6. Drops(U, T, i, r) /\ T.ar = U.ar
    BY <2>4, <2>5, DropIs DEF Good, IsState
  <2>7. Ins(U) = Ins(S) /\ Managed(U) = Managed(S)
    BY <2>4 DEF Fixed, Ins, Managed
  <2>8. /\ Good(T, n, L)
        /\ T.reg[i] = NULL
        /\ \A j \in Ins(S) \ {i} : T.reg[j] = S.reg[j]
        /\ \A j \in Ins(S) : Extant(T, j) => Extant(U, j)
    BY <2>1, <2>4, <2>6, <2>7, DropGood
  <2>9. Fixed(S, T) /\ T.free = S.free \cup {r}
    BY <2>4, <2>6 DEF Drops, Fixed
  <2> QED
    BY <2>2, <2>4, <2>8, <2>9
<1> QED
  BY <1>2, <1>3

LEMMA FirstRegIn ==
  ASSUME NEW S, IsState(S), NEW regs, regs \subseteq Managed(S), regs # {}
  PROVE  FirstReg(S, regs) \in regs
<1>1. PICK best : best = IF regs \cap S.mach.saved # {} THEN regs \cap S.mach.saved ELSE regs
  OBVIOUS
<1>2. best \subseteq regs /\ best # {}
  BY <1>1
<1>3. PICK ord : ord = S.mach.order
  OBVIOUS
<1>4. /\ Len(ord) \in Nat /\ DOMAIN ord = 1..Len(ord)
      /\ \A r \in Managed(S) : \E n \in 1..Len(ord) : ord[n] = r
  BY <1>3 DEF IsState, IsMachine, Managed
<1>5. PICK T : T = {n \in 1..Len(ord) : ord[n] \in best}
  OBVIOUS
<1>6. T \subseteq Nat /\ T # {}
  <2>1. PICK r : r \in best
    BY <1>2
  <2>2. PICK n \in 1..Len(ord) : ord[n] = r
    BY <1>2, <1>4, <2>1
  <2> QED
    BY <1>4, <1>5, <2>1, <2>2
<1>7. PICK n \in T : \A m \in T : n <= m
  BY <1>6, LeastNat
<1>8. \A m \in 1..(n - 1) : ord[m] \notin best
  <2> SUFFICES ASSUME NEW m \in 1..(n - 1), ord[m] \in best PROVE FALSE
    OBVIOUS
  <2>1. n \in 1..Len(ord)
    BY <1>5, <1>7
  <2>2. m \in 1..Len(ord) /\ ~(n <= m)
    BY <1>4, <2>1
  <2> QED
    BY <1>5, <1>7, <2>2
<1>9. PICK l : l = CHOOSE k \in DOMAIN ord : /\ ord[k] \in best
                                            /\ \A m \in 1..(k - 1) : ord[m] \notin best
  OBVIOUS
<1>10. ord[l] \in best
  BY <1>4, <1>5, <1>7, <1>8, <1>9
<1>11. FirstReg(S, regs) = ord[l]
  BY <1>1, <1>3, <1>9 DEF FirstReg
<1> QED
  BY <1>2, <1>10, <1>11

LEMMA VictimsIn ==
  ASSUME NEW S, NEW allow
  PROVE  /\ \A r \in FindVictim(S, allow) : r \in allow /\ S.active[r] # NULL
         /\ (\E r \in allow : S.active[r] # NULL) => FindVictim(S, allow) # {}
<1>1. PICK act, remat : /\ act = {r \in allow : S.active[r] # NULL}
                        /\ remat = {r \in act : CanRemat(S, S.active[r])}
  OBVIOUS
<1>2. FindVictim(S, allow) = CASE remat # {} -> remat
                              [] remat = {} /\ act \ S.used # {} -> act \ S.used
                              [] OTHER -> act
  BY <1>1 DEF FindVictim
<1>3. /\ FindVictim(S, allow) \subseteq act
      /\ act # {} => FindVictim(S, allow) # {}
  <2>1. CASE remat # {}
    BY <1>1, <1>2, <2>1
  <2>2. CASE remat = {} /\ act \ S.used # {}
    BY <1>1, <1>2, <2>2
  <2>3. CASE remat = {} /\ act \ S.used = {}
    BY <1>1, <1>2, <2>3
  <2> QED
    BY <2>1, <2>2, <2>3
<1> QED
  BY <1>1, <1>3

LEMMA TempIs ==
  ASSUME NEW S, NEW n, NEW L, Good(S, n, L), NEW i
  PROVE  /\ S.kind[i] \notin S.mach.tempKinds => TempFor(S, i) = NULL
         /\ S.kind[i] \in S.mach.tempKinds => TempFor(S, i) \in S.mach.tempRegs
<1>1. IsState(S)
  BY DEF Good
<1>2. CASE S.kind[i] \notin S.mach.tempKinds
  BY <1>2 DEF TempFor
<1>3. CASE S.kind[i] \in S.mach.tempKinds
  <2>1. PICK allow : allow = S.mach.tempRegs
    OBVIOUS
  <2>2. allow \subseteq Managed(S) /\ allow # {}
    BY <1>1, <1>3, <2>1 DEF IsState, IsMachine, Managed
  <2>3. CASE allow \cap S.free # {}
    <3>1. TempFor(S, i) = FirstReg(S, allow \cap S.free)
      BY <1>3, <2>1, <2>3 DEF TempFor
    <3>2. FirstReg(S, allow \cap S.free) \in allow \cap S.free
      BY <1>1, <2>2, <2>3, FirstRegIn
    <3> QED
      BY <1>3, <2>1, <3>1, <3>2
  <2>4. CASE allow \cap S.free = {}
    <3>1. TempFor(S, i) = CHOOSE r \in FindVictim(S, allow) : TRUE
      BY <1>3, <2>1, <2>4 DEF TempFor
    <3>2. PICK r \in allow : r \notin S.free
      BY <2>2, <2>4
    <3>3. S.active[r] # NULL
      BY <2>2, <3>2 DEF Good, Agree
    <3>4. FindVictim(S, allow) # {}
      BY <3>2, <3>3, VictimsIn
    <3>5. TempFor(S, i) \in FindVictim(S, allow)
      BY <3>1, <3>4
    <3> QED
      BY <1>3, <2>1, <3>5, VictimsIn
  <2> QED
    BY <2>3, <2>4
<1> QED
  BY <1>2, <1>3

LEMMA AsmRestoreGood ==
  ASSUME NEW S, NEW n, NEW L, Good(S, n, L), NEW i \in Ins(S) \ L, NEW r \in Managed(S),
         S.reg[i] = r, NEW T, T = AsmRestore(S, i, r)
  PROVE  Good(T, n, L) /\ Empties(S, T, {r}) /\ T.reg[i] = r
<1>1. IsState(S) /\ NULL \notin Managed(S) /\ S.active[r] = i /\ i # NULL
  BY NotNull DEF Good, Agree
<1>2. PICK t : t = TempFor(S, i)
  OBVIOUS
<1>3. PICK V : V = IF t = NULL THEN S ELSE Vacate(S, t)
  OBVIOUS
<1>4. PICK U : U = Restore(V, i, r)
  OBVIOUS
<1>5. T = IF t = NULL THEN U ELSE Clobber(U, {t})
  BY <1>2, <1>3, <1>4 DEF AsmRestore
<1>6. t # NULL => t \in S.mach.tempRegs /\ S.mach.tempKinds # {} /\ r \in S.mach.fpr
  <2> SUFFICES ASSUME t # NULL
               PROVE  t \in S.mach.tempRegs /\ S.mach.tempKinds # {} /\ r \in S.mach.fpr
    OBVIOUS
  <2>1. S.kind[i] \in S.mach.tempKinds /\ t \in S.mach.tempRegs
    BY <1>2, TempIs
  <2>2. S.kind[i] \in FpKinds
    BY <1>1, <2>1 DEF IsState, IsMachine
  <2>3. r \in ClassOf(S, i)
    BY <1>1 DEF Good, Sorted
  <2> QED
    BY <2>1, <2>2, <2>3 DEF ClassOf
<1>7. t # NULL => t \in Lossy(S, {r}) /\ t \in Managed(S) /\ t # r
  BY <1>1, <1>6 DEF Lossy, IsState, IsMachine, Managed
<1>8. /\ Good(V, n, L) /\ Fixed(S, V) /\ S.free \subseteq V.free
      /\ \A j \in Ins(S) :
           /\ V.reg[j] = S.reg[j] \/ (V.reg[j] = NULL /\ S.reg[j] \in Lossy(S, {r}))
           /\ Extant(V, j) => Extant(S, j)
      /\ V.reg[i] = r
  <2>1. CASE t = NULL
    BY <1>3, <2>1 DEF Fixed
  <2>2. CASE t # NULL
    <3>1. V = Vacate(S, t)
      BY <1>3, <2>2
    <3>2. /\ Good(V, n, L) /\ Fixed(S, V) /\ V.free = S.free \cup {t}
          /\ \A j \in Ins(S) :
               /\ V.reg[j] = S.reg[j] \/ (V.reg[j] = NULL /\ S.reg[j] = t)
               /\ Extant(V, j) => Extant(S, j)
      BY <1>7, <2>2, <3>1, VacateGood
    <3> QED
      BY <1>7, <2>2, <3>2
  <2> QED
    BY <2>1, <2>2
<1>9. Ins(V) = Ins(S) /\ Extant(V, i)
  BY <1>1, <1>8 DEF Fixed, Ins, Extant
<1>10. /\ Good(U, n, L) /\ Fixed(V, U)
       /\ U.free = V.free /\ U.active = V.active /\ U.reg = V.reg
       /\ \A j \in Ins(S) : Extant(U, j) => Extant(V, j)
  BY <1>4, <1>8, <1>9, RestoreGood
<1>11. Quiet(U, T)
  <2>1. DOMAIN U = Fields /\ Quiet(U, U)
    BY <1>10 DEF Good, IsState, Quiet, Fixed
  <2> QED
    BY <1>5, <2>1, ClobberQuiet
<1>12. Good(T, n, L)
  BY <1>10, <1>11, QuietIsGood
<1>13. Fixed(S, T) /\ T.free = V.free /\ T.reg = V.reg /\ T.ar = U.ar
  BY <1>8, <1>10, <1>11 DEF Quiet, Fixed
<1>14. \A j \in Ins(S) : Extant(T, j) => Extant(S, j)
  BY <1>8, <1>10, <1>11 DEF Quiet, Extant
<1>15. \A j \in Ins(S) :
         T.reg[j] = S.reg[j] \/ (T.reg[j] = NULL /\ S.reg[j] \in Lossy(S, {r}))
  BY <1>8, <1>13
<1> QED
  BY <1>8, <1>12, <1>13, <1>14, <1>15 DEF Empties, Keeps

LEMMA EvictGood ==
  ASSUME NEW S, NEW n, NEW L, Good(S, n, L), NEW i \in Ins(S) \ L, NEW r \in Managed(S),
         S.reg[i] = r, NEW T, T = Evict(S, i)
  PROVE  Good(T, n, L) /\ Empties(S, T, {r}) /\ T.reg[i] = NULL /\ r \in T.free
<1>1. IsState(S) /\ NULL \notin Managed(S)
  BY NotNull DEF Good
<1>2. PICK U : U = AsmRestore(S, i, r)
  OBVIOUS
<1>3. Good(U, n, L) /\ Empties(S, U, {r}) /\ U.reg[i] = r
  BY <1>2, AsmRestoreGood
<1>4. T = ClearReg(Retire(U, r), i)
  BY <1>2 DEF Evict
<1>5. DOMAIN U = Fields /\ Ins(U) = Ins(S) /\ Managed(U) = Managed(S)
  BY <1>1, <1>3 DEF Empties, Keeps, Fixed, IsState, Ins, Managed
<1>6. Drops(U, T, i, r) /\ T.ar = U.ar
  BY <1>4, <1>5, DropIs
<1>7. U.active[r] = i
  BY <1>1, <1>3, <1>5 DEF Good, Agree
<1>8. /\ Good(T, n, L) /\ T.reg[i] = NULL
      /\ \A j \in Ins(S) \ {i} : T.reg[j] = U.reg[j]
      /\ \A j \in Ins(S) : Extant(T, j) => Extant(U, j)
  BY <1>3, <1>5, <1>6, <1>7, DropGood
<1>9. Fixed(S, T) /\ T.free = U.free \cup {r} /\ S.free \subseteq T.free
  BY <1>3, <1>6 DEF Drops, Fixed, Empties, Keeps
<1>10. r \in Lossy(S, {r})
  BY DEF Lossy
<1>11. Keeps(S, T, {}, {r})
  <2>1. ASSUME NEW j \in Ins(S)
        PROVE  /\ T.reg[j] = S.reg[j] \/ (T.reg[j] = NULL /\ S.reg[j] \in Lossy(S, {r}))
               /\ Extant(T, j) => Extant(S, j)
    BY <1>3, <1>8, <1>10 DEF Empties, Keeps
  <2> QED
    BY <1>9, <2>1 DEF Keeps
<1> QED
  BY <1>8, <1>9, <1>11 DEF Empties

LEMMA EvictActiveGood ==
  ASSUME NEW S, NEW n, NEW L, Good(S, n, L), NEW r \in Managed(S),
         NEW T, T = EvictIfActive(S, r)
  PROVE  Good(T, n, L) /\ Empties(S, T, {r}) /\ r \in T.free
<1>1. IsState(S) /\ S.active[r] \in Ins(S) \cup {NULL}
  BY DEF Good, IsState
<1>2. CASE S.active[r] = NULL
  <2>1. T = S /\ r \in S.free
    BY <1>2 DEF EvictIfActive, Good, Agree
  <2>2. Quiet(S, S)
    BY DEF Quiet, Fixed
  <2> QED
    BY <2>1, <2>2, QuietKeeps
<1>3. CASE S.active[r] # NULL
  <2>1. PICK i \in Ins(S) : i = S.active[r]
    BY <1>1, <1>3
  <2>2. S.reg[i] = r /\ i \notin L
    BY <1>3, <2>1 DEF Good, Agree
  <2>3. T = Evict(S, i)
    BY <1>3, <2>1 DEF EvictIfActive
  <2> QED
    BY <2>2, <2>3, EvictGood
<1> QED
  BY <1>2, <1>3

-----------------------------------------------------------------------------
(* Finding registers.                                                      *)

\* Value i has no register of its own, and no other value is detached.
Loose(S, L, i) == L \subseteq {i} /\ (S.reg[i] # NULL => i \in L)

LEMMA AllocSpecificGood ==
  ASSUME NEW S, NEW n, NEW L, Good(S, n, L), NEW i \in Ins(S), i <= n, Loose(S, L, i),
         NEW r \in Managed(S), r \in S.free, r \in ClassOf(S, i),
         NEW T, T = AllocSpecificReg(S, i, r)
  PROVE  /\ Good(T, n, {}) /\ Finds(S, T, i, {r}) /\ T.ar = S.ar
         /\ \A j \in Ins(S) \ {i} : T.reg[j] = S.reg[j]
<1>1. /\ IsState(S) /\ Agree(S, L) /\ NULL \notin Managed(S) /\ NULL \notin Ins(S)
      /\ S.active \in [Managed(S) -> Ins(S) \cup {NULL}]
      /\ S.reg \in [Ins(S) -> Managed(S) \cup {NULL}]
  BY NotNull DEF Good, IsState
<1>2. S.active[r] = NULL
  BY <1>1 DEF Agree
<1>3. /\ Fixed(S, T) /\ T.free = S.free \ {r} /\ T.active = [S.active EXCEPT ![r] = i]
      /\ T.reg = [S.reg EXCEPT ![i] = r] /\ T.ar = S.ar
  BY <1>1 DEF AllocSpecificReg, IsState, Fields, Fixed
<1>4. Ins(T) = Ins(S) /\ Managed(T) = Managed(S)
  BY <1>3 DEF Fixed, Ins, Managed
<1>5. IsState(T)
  <2>1. /\ T.free \subseteq Managed(S) /\ T.active \in [Managed(S) -> Ins(S) \cup {NULL}]
        /\ T.reg \in [Ins(S) -> Managed(S) \cup {NULL}]
    BY <1>1, <1>3 DEF IsState
  <2> QED
    BY <1>1, <1>3, <1>4, <2>1 DEF IsState, Fixed, Ins, Managed
<1>6. Agree(T, {})
  <2>1. \A q \in Managed(S) : q \in T.free <=> T.active[q] = NULL
    BY <1>1, <1>3 DEF Agree
  <2>2. \A q \in Managed(S) : S.active[q] # i
    <3> SUFFICES ASSUME NEW q \in Managed(S), S.active[q] = i PROVE FALSE
      OBVIOUS
    <3>1. S.reg[i] = q
      BY <1>1 DEF Agree
    <3>2. i \in L
      BY <1>1, <3>1 DEF Loose
    <3> QED
      BY <1>1, <3>2 DEF Agree
  <2>3. \A q \in Managed(S) : T.active[q] # NULL => T.reg[T.active[q]] = q
    BY <1>1, <1>3, <2>2 DEF Agree
  <2>4. \A j \in Ins(S) \ {i} : S.reg[j] # NULL => S.active[S.reg[j]] = j
    BY <1>1 DEF Agree, Loose
  <2>5. \A j \in Ins(S) : T.reg[j] # NULL => T.active[T.reg[j]] = j
    BY <1>1, <1>2, <1>3, <2>4
  <2> QED
    BY <1>4, <2>1, <2>3, <2>5 DEF Agree
<1>7. Disjoint(T)
  BY <1>3 DEF Good, Disjoint
<1>8. Sorted(T)
  <2>1. \A j : ClassOf(T, j) = ClassOf(S, j)
    BY <1>3, <1>4 DEF ClassOf, Fixed
  <2>2. \A q \in Managed(S) : T.active[q] = IF q = r THEN i ELSE S.active[q]
    BY <1>1, <1>3
  <2> QED
    BY <1>4, <2>1, <2>2 DEF Good, Sorted
<1>9. Below(T, n)
  <2>1. \A j \in Ins(S) \ {i} : Extant(T, j) => Extant(S, j)
    BY <1>1, <1>3 DEF Extant
  <2> QED
    BY <1>4, <2>1 DEF Good, Below
<1>10. Finds(S, T, i, {r})
  BY <1>1, <1>3 DEF Finds, Keeps, Extant
<1>11. \A j \in Ins(S) \ {i} : T.reg[j] = S.reg[j]
  BY <1>1, <1>3
<1> QED
  BY <1>3, <1>5, <1>6, <1>7, <1>8, <1>9, <1>10, <1>11 DEF Good

LEMMA HoldAllocGood ==
  ASSUME NEW S, NEW n, NEW L, Good(S, n, L), NEW i \in Ins(S), i <= n,
         NEW T, T = HoldAlloc(S, i)
  PROVE  /\ Good(T, n, L) /\ Fixed(S, T)
         /\ T.free = S.free /\ T.active = S.active /\ T.reg = S.reg
         /\ \A j \in Ins(S) \ {i} : T.ar[j] = S.ar[j]
<1>1. CASE IsAlloc(S, i)
  BY <1>1, FindMemForGood DEF HoldAlloc
<1>2. CASE ~IsAlloc(S, i)
  BY <1>2 DEF HoldAlloc, Fixed
<1> QED
  BY <1>1, <1>2

\* After findMemFor, or holding stack space, of the same value.
LEMMA FindsAfter ==
  ASSUME NEW S, NEW T, NEW U, NEW i, NEW regs, Finds(T, U, i, regs), Fixed(S, T),
         T.free = S.free, T.reg = S.reg, \A j \in Ins(S) \ {i} : T.ar[j] = S.ar[j]
  PROVE  Finds(S, U, i, regs)
<1>1. Ins(T) = Ins(S) /\ Lossy(T, regs) = Lossy(S, regs)
  BY DEF Fixed, Ins, Lossy
<1>2. \A j \in Ins(S) \ {i} : Extant(T, j) => Extant(S, j)
  BY DEF Extant
<1>3. Fixed(S, U)
  BY DEF Finds, Keeps, Fixed
<1> QED
  BY <1>1, <1>2, <1>3 DEF Finds, Keeps

LEMMA TakeRegGood ==
  ASSUME NEW S, NEW n, Good(S, n, {}), NEW i \in Ins(S), i <= n, S.reg[i] = NULL,
         NEW r \in Managed(S), r \in S.free, r \in ClassOf(S, i),
         NEW T, T = TakeReg(S, i, r)
  PROVE  /\ Good(T, n, {}) /\ Finds(S, T, i, {r})
         /\ \A j \in Ins(S) \ {i} : T.reg[j] = S.reg[j]
<1>1. PICK U : U = HoldAlloc(S, i)
  OBVIOUS
<1>2. /\ Good(U, n, {}) /\ Fixed(S, U)
      /\ U.free = S.free /\ U.active = S.active /\ U.reg = S.reg
      /\ \A j \in Ins(S) \ {i} : U.ar[j] = S.ar[j]
  BY <1>1, HoldAllocGood
<1>3. Ins(U) = Ins(S) /\ Managed(U) = Managed(S) /\ ClassOf(U, i) = ClassOf(S, i)
  BY <1>2 DEF Fixed, Ins, Managed, ClassOf
<1>4. Loose(U, {}, i)
  BY <1>2 DEF Loose
<1>5. T = AllocSpecificReg(U, i, r)
  BY <1>1 DEF TakeReg
<1>6. /\ Good(T, n, {}) /\ Finds(U, T, i, {r})
      /\ \A j \in Ins(S) \ {i} : T.reg[j] = U.reg[j]
  BY <1>2, <1>3, <1>4, <1>5, AllocSpecificGood
<1> QED
  BY <1>2, <1>6, FindsAfter

LEMMA AllocRegGood ==
  ASSUME NEW S, NEW n, NEW L, Good(S, n, L), NEW i \in Ins(S), i <= n, Loose(S, L, i),
         NEW allow, allow \subseteq ClassOf(S, i), NEW T \in AllocReg(S, i, allow)
  PROVE  Good(T, n, {}) /\ Finds(S, T, i, allow)
<1>1. IsState(S) /\ NULL \notin Ins(S) /\ allow \subseteq Managed(S)
      /\ S.active \in [Managed(S) -> Ins(S) \cup {NULL}]
  BY NotNull DEF Good, ClassOf, IsState
<1>2. CASE allow \cap S.free # {}
  <2>1. PICK r \in allow \cap S.free : T = AllocSpecificReg(S, i, r)
    BY <1>2 DEF AllocReg
  <2>2. Good(T, n, {}) /\ Finds(S, T, i, {r})
    BY <1>1, <2>1, AllocSpecificGood
  <2> QED
    BY <2>1, <2>2, KeepsMore DEF Finds
<1>3. CASE allow \cap S.free = {}
  <2>1. PICK r \in FindVictim(S, allow) : T = AllocSpecificReg(Evict(S, S.active[r]), i, r)
    BY <1>3 DEF AllocReg
  <2>2. r \in allow /\ r \in Managed(S) /\ S.active[r] # NULL
    BY <1>1, <2>1, VictimsIn
  <2>3. PICK j \in Ins(S) : j = S.active[r]
    BY <1>1, <2>2
  <2>4. S.reg[j] = r /\ j \notin L
    BY <2>2, <2>3 DEF Good, Agree
  <2>5. PICK U : U = Evict(S, j)
    OBVIOUS
  <2>6. Good(U, n, L) /\ Empties(S, U, {r}) /\ U.reg[j] = NULL /\ r \in U.free
    BY <2>2, <2>4, <2>5, EvictGood
  <2>7. Ins(U) = Ins(S) /\ Managed(U) = Managed(S) /\ ClassOf(U, i) = ClassOf(S, i)
    BY <2>6 DEF Empties, Keeps, Fixed, Ins, Managed, ClassOf
  <2>8. Loose(U, L, i)
    BY <2>6 DEF Loose, Empties, Keeps
  <2>9. T = AllocSpecificReg(U, i, r)
    BY <2>1, <2>3, <2>5
  <2>10. Good(T, n, {}) /\ Finds(U, T, i, {r})
    BY <2>2, <2>6, <2>7, <2>8, <2>9, AllocSpecificGood
  <2>11. Keeps(S, U, {i}, allow) /\ Keeps(U, T, {i}, allow)
    BY <2>2, <2>6, <2>10, KeepsMore DEF Empties, Finds
  <2> QED
    BY <2>2, <2>10, <2>11, KeepsKeeps DEF Finds
<1> QED
  BY <1>2, <1>3

LEMMA RetireGood ==
  ASSUME NEW S, NEW n, Good(S, n, {}), NEW i \in Ins(S), NEW r \in Managed(S),
         S.reg[i] = r, NEW T, T = Retire(S, r)
  PROVE  /\ Good(T, n, {i}) /\ Fixed(S, T) /\ T.free = S.free \cup {r}
         /\ T.reg = S.reg /\ T.ar = S.ar
<1>1. /\ IsState(S) /\ Agree(S, {}) /\ NULL \notin Managed(S) /\ NULL \notin Ins(S)
      /\ S.active \in [Managed(S) -> Ins(S) \cup {NULL}]
      /\ S.reg \in [Ins(S) -> Managed(S) \cup {NULL}]
  BY NotNull DEF Good, IsState
<1>2. S.active[r] = i
  BY <1>1 DEF Agree
<1>3. /\ Fixed(S, T) /\ T.free = S.free \cup {r} /\ T.active = [S.active EXCEPT ![r] = NULL]
      /\ T.reg = S.reg /\ T.ar = S.ar
  BY <1>1 DEF Retire, IsState, Fields, Fixed
<1>4. Ins(T) = Ins(S) /\ Managed(T) = Managed(S)
  BY <1>3 DEF Fixed, Ins, Managed
<1>5. IsState(T)
  <2>1. T.free \subseteq Managed(S) /\ T.active \in [Managed(S) -> Ins(S) \cup {NULL}]
    BY <1>1, <1>3 DEF IsState
  <2> QED
    BY <1>1, <1>3, <1>4, <2>1 DEF IsState, Fixed, Ins, Managed
<1>6. Agree(T, {i})
  <2>1. \A q \in Managed(S) : q \in T.free <=> T.active[q] = NULL
    BY <1>1, <1>3 DEF Agree
  <2>2. \A q \in Managed(S) : T.active[q] # NULL => T.reg[T.active[q]] = q
    BY <1>1, <1>3 DEF Agree
  <2>3. \A j \in Ins(S) \ {i} : T.reg[j] # NULL => T.active[T.reg[j]] = j
    BY <1>1, <1>2, <1>3 DEF Agree
  <2>4. \A q \in Managed(S) : T.active[q] # i
    BY <1>1, <1>2, <1>3 DEF Agree
  <2> QED
    BY <1>4, <2>1, <2>2, <2>3, <2>4 DEF Agree
<1>7. Disjoint(T)
  BY <1>3 DEF Good, Disjoint
<1>8. Sorted(T)
  <2>1. \A j : ClassOf(T, j) = ClassOf(S, j)
    BY <1>3, <1>4 DEF ClassOf, Fixed
  <2>2. \A q \in Managed(S) : T.active[q] # NULL => T.active[q] = S.active[q]
    BY <1>1, <1>3
  <2> QED
    BY <1>4, <2>1, <2>2 DEF Good, Sorted
<1>9. Below(T, n)
  BY <1>3, <1>4 DEF Good, Below, Extant
<1> QED
  BY <1>3, <1>5, <1>6, <1>7, <1>8, <1>9 DEF Good

\* What is lost when value i is evicted to be found in allow may be lost as well when
\* it is found there.
LEMMA EvictedForItself ==
  ASSUME NEW S, NEW n, Good(S, n, {}), NEW i \in Ins(S), NEW r \in Managed(S),
         S.reg[i] = r, NEW allow, allow \subseteq ClassOf(S, i), allow # {},
         NEW T, Empties(S, T, {r})
  PROVE  Keeps(S, T, {i}, allow)
<1>1. r \in ClassOf(S, i) /\ IsState(S)
  BY NotNull DEF Good, Agree, Sorted
<1>2. ASSUME NEW j \in Ins(S) \ {i}, S.reg[j] \in Lossy(S, {r})
      PROVE  S.reg[j] \in Lossy(S, allow)
  <2>1. S.reg[j] # r
    BY <1>1, <1>2, NotNull DEF Good, Agree
  <2>2. S.reg[j] \in S.mach.tempRegs /\ S.mach.tempKinds # {} /\ r \in S.mach.fpr
    BY <1>2, <2>1 DEF Lossy
  <2>3. allow \cap S.mach.fpr # {}
    BY <1>1, <2>2 DEF ClassOf
  <2> QED
    BY <2>2, <2>3 DEF Lossy
<1> QED
  BY <1>2 DEF Empties, Keeps

LEMMA FindRegGood ==
  ASSUME NEW SS, NEW n, Good(SS, n, {}), NEW i \in Ins(SS), i <= n,
         NEW allow, allow \subseteq ClassOf(SS, i), NEW T \in FindRegFor(SS, i, allow)
  PROVE  Good(T, n, {}) /\ Finds(SS, T, i, allow)
<1>1. PICK S : S = HoldAlloc(SS, i)
  OBVIOUS
<1>2. /\ Good(S, n, {}) /\ Fixed(SS, S)
      /\ S.free = SS.free /\ S.active = SS.active /\ S.reg = SS.reg
      /\ \A j \in Ins(SS) \ {i} : S.ar[j] = SS.ar[j]
  BY <1>1, HoldAllocGood
<1>3. Ins(S) = Ins(SS) /\ Managed(S) = Managed(SS) /\ ClassOf(S, i) = ClassOf(SS, i)
  BY <1>2 DEF Fixed, Ins, Managed, ClassOf
<1>4. IsState(S) /\ S.reg[i] \in Managed(S) \cup {NULL} /\ NULL \notin Managed(S)
  BY <1>2, <1>3, NotNull DEF Good, IsState
<1>5. PICK candidates : candidates = CopyCandidates(S, S.reg[i], allow)
  OBVIOUS
<1>6. candidates \subseteq allow
  BY <1>5 DEF CopyCandidates
<1>7. T \in CASE S.reg[i] = NULL -> AllocReg(S, i, allow)
              [] S.reg[i] # NULL /\ S.reg[i] \in allow -> {S}
              [] S.reg[i] # NULL /\ S.reg[i] \notin allow /\ candidates # {} ->
                   {Move(V, S.reg[i], V.reg[i], i) :
                      V \in AllocReg(Retire(S, S.reg[i]), i, candidates)}
              [] OTHER -> AllocReg(Evict(S, i), i, allow)
  BY <1>1, <1>5 DEF FindRegFor
<1>8. Good(T, n, {}) /\ Finds(S, T, i, allow)
  <2>1. CASE S.reg[i] = NULL
    <3>1. T \in AllocReg(S, i, allow)
      BY <1>7, <2>1
    <3>2. Loose(S, {}, i)
      BY <2>1 DEF Loose
    <3> QED
      BY <1>2, <1>3, <3>1, <3>2, AllocRegGood
  <2>2. CASE S.reg[i] # NULL /\ S.reg[i] \in allow
    <3>1. T = S
      BY <1>7, <2>2
    <3>2. Keeps(S, S, {i}, allow)
      BY DEF Keeps, Fixed
    <3> QED
      BY <1>2, <2>2, <3>1, <3>2 DEF Finds
  <2>3. CASE S.reg[i] # NULL /\ S.reg[i] \notin allow /\ candidates # {}
    <3>1. PICK r \in Managed(S) : r = S.reg[i]
      BY <1>4, <2>3
    <3>2. PICK U : U = Retire(S, r)
      OBVIOUS
    <3>3. PICK V \in AllocReg(U, i, candidates) : T = Move(V, r, V.reg[i], i)
      BY <1>7, <2>3, <3>1, <3>2
    <3>4. /\ Good(U, n, {i}) /\ Fixed(S, U) /\ U.free = S.free \cup {r}
          /\ U.reg = S.reg /\ U.ar = S.ar
      BY <1>2, <1>3, <3>1, <3>2, RetireGood
    <3>5. Ins(U) = Ins(S) /\ ClassOf(U, i) = ClassOf(S, i) /\ Loose(U, {i}, i)
      BY <3>4 DEF Fixed, Ins, Managed, ClassOf, Loose
    <3>6. Good(V, n, {}) /\ Finds(U, V, i, candidates)
      BY <1>3, <1>6, <3>3, <3>4, <3>5, AllocRegGood
    <3>7. Quiet(V, T)
      BY <3>3, <3>6, WriteQuiet DEF Move, Good, IsState
    <3>8. Keeps(S, U, {i}, allow)
      BY <3>4 DEF Keeps, Extant
    <3>9. Keeps(U, V, {i}, allow) /\ Keeps(V, T, {i}, allow)
      BY <1>6, <3>6, <3>7, KeepsMore, QuietKeeps DEF Finds
    <3>10. Keeps(S, T, {i}, allow)
      BY <3>8, <3>9, KeepsKeeps
    <3>11. T.reg[i] \in allow
      BY <1>6, <3>6, <3>7 DEF Finds, Quiet
    <3> QED
      BY <3>6, <3>7, <3>10, <3>11, QuietIsGood DEF Finds
  <2>4. CASE S.reg[i] # NULL /\ S.reg[i] \notin allow /\ candidates = {}
    <3>1. PICK r \in Managed(S) : r = S.reg[i]
      BY <1>4, <2>4
    <3>2. PICK E : E = Evict(S, i)
      OBVIOUS
    <3>3. T \in AllocReg(E, i, allow)
      BY <1>7, <2>4, <3>2
    <3>4. Good(E, n, {}) /\ Empties(S, E, {r}) /\ E.reg[i] = NULL
      BY <1>2, <1>3, <3>1, <3>2, EvictGood
    <3>5. allow # {}
      <4> SUFFICES ASSUME allow = {} PROVE FALSE
        OBVIOUS
      <4>1. PICK q \in FindVictim(E, allow) : T = AllocSpecificReg(Evict(E, E.active[q]), i, q)
        BY <3>3 DEF AllocReg
      <4> QED
        BY <4>1, VictimsIn
    <3>6. Keeps(S, E, {i}, allow)
      BY <1>2, <1>3, <3>1, <3>4, <3>5, EvictedForItself
    <3>7. Ins(E) = Ins(S) /\ ClassOf(E, i) = ClassOf(S, i) /\ Loose(E, {}, i)
      BY <3>4 DEF Empties, Keeps, Fixed, Ins, Managed, ClassOf, Loose
    <3>8. Good(T, n, {}) /\ Finds(E, T, i, allow)
      BY <1>3, <3>3, <3>4, <3>7, AllocRegGood
    <3> QED
      BY <3>6, <3>8, KeepsKeeps DEF Finds
  <2> QED
    BY <2>1, <2>2, <2>3, <2>4
<1> QED
  BY <1>2, <1>8, FindsAfter

\* findRegFor2 finds one value after the other, or the second one is there already.
LEMMA FindReg2Good ==
  ASSUME NEW S, NEW n, Good(S, n, {}), NEW a \in Ins(S), NEW b \in Ins(S), a <= n, b <= n,
         NEW alla, alla \subseteq ClassOf(S, a), NEW allb, allb \subseteq ClassOf(S, b),
         NEW T \in FindRegFor2(S, a, alla, b, allb)
  PROVE  \E U : /\ Good(U, n, {}) /\ Keeps(S, U, {a}, alla)
                /\ Good(T, n, {}) /\ Keeps(U, T, {b}, allb)
<1>1. Keeps(T, T, {b}, allb)
  BY DEF Keeps, Fixed
<1>2. CASE a = b
  <2>1. T \in FindRegFor(S, a, alla \cap allb)
    BY <1>2 DEF FindRegFor2
  <2>2. Good(T, n, {}) /\ Keeps(S, T, {a}, alla \cap allb)
    BY <2>1, FindRegGood DEF Finds
  <2> QED
    BY <1>1, <2>2, KeepsMore
<1>3. CASE a # b /\ S.reg[b] \in allb
  <2>1. T \in FindRegFor(S, a, alla \ {S.reg[b]})
    BY <1>3 DEF FindRegFor2
  <2>2. Good(T, n, {}) /\ Keeps(S, T, {a}, alla \ {S.reg[b]})
    BY <2>1, FindRegGood DEF Finds
  <2> QED
    BY <1>1, <2>2, KeepsMore
<1>4. CASE a # b /\ S.reg[b] \notin allb
  <2>1. PICK U \in FindRegFor(S, a, alla) : T \in FindRegFor(U, b, allb \ {U.reg[a]})
    BY <1>4 DEF FindRegFor2
  <2>2. Good(U, n, {}) /\ Keeps(S, U, {a}, alla)
    BY FindRegGood DEF Finds
  <2>3. Ins(U) = Ins(S) /\ ClassOf(U, b) = ClassOf(S, b)
    BY <2>2 DEF Keeps, Fixed, Ins, Managed, ClassOf
  <2>4. Good(T, n, {}) /\ Keeps(U, T, {b}, allb \ {U.reg[a]})
    BY <2>1, <2>2, <2>3, FindRegGood DEF Finds
  <2> QED
    BY <2>2, <2>4, KeepsMore
<1> QED
  BY <1>2, <1>3, <1>4

LEMMA TempRegGood ==
  ASSUME NEW S, NEW n, Good(S, n, {}), NEW allow, allow \subseteq Managed(S), NEW r,
         NEW T \in AllocTempReg(S, r, allow)
  PROVE  \E U : \E x \in allow :
           Good(U, n, {}) /\ Empties(S, U, allow) /\ T = Name(U, r, x)
<1>1. IsState(S) /\ NULL \notin Ins(S) /\ S.active \in [Managed(S) -> Ins(S) \cup {NULL}]
  BY NotNull DEF Good, IsState
<1>2. CASE allow \cap S.free # {}
  <2>1. T = Name(S, r, FirstReg(S, allow \cap S.free))
    BY <1>2 DEF AllocTempReg
  <2>2. FirstReg(S, allow \cap S.free) \in allow \cap S.free
    BY <1>1, <1>2, FirstRegIn
  <2>3. Empties(S, S, allow)
    BY DEF Empties, Keeps, Fixed
  <2> QED
    BY <2>1, <2>2, <2>3
<1>3. CASE allow \cap S.free = {}
  <2>1. PICK x \in FindVictim(S, allow) : T = Name(Evict(S, S.active[x]), r, x)
    BY <1>3 DEF AllocTempReg
  <2>2. x \in allow /\ x \in Managed(S) /\ S.active[x] # NULL
    BY <2>1, VictimsIn
  <2>3. PICK j \in Ins(S) : j = S.active[x]
    BY <1>1, <2>2
  <2>4. S.reg[j] = x
    BY <2>2, <2>3 DEF Good, Agree
  <2>5. PICK U : U = Evict(S, j)
    OBVIOUS
  <2>6. Good(U, n, {}) /\ Empties(S, U, {x})
    BY <2>2, <2>4, <2>5, EvictGood
  <2>7. Empties(S, U, allow)
    BY <2>2, <2>6, KeepsMore DEF Empties
  <2> QED
    BY <2>1, <2>2, <2>3, <2>5, <2>6, <2>7
<1> QED
  BY <1>2, <1>3

-----------------------------------------------------------------------------
(* Giving registers up.                                                    *)

\* freeResourcesOf: neither a register nor a slot is left.
LEMMA FreeGood ==
  ASSUME NEW S, NEW n, Good(S, n, {}), NEW i \in Ins(S), NEW T, T = FreeResourcesOf(S, i)
  PROVE  /\ Good(T, n, {}) /\ Fixed(S, T) /\ ~Extant(T, i) /\ S.free \subseteq T.free
         /\ \A j \in Ins(S) \ {i} : T.reg[j] = S.reg[j] /\ T.ar[j] = S.ar[j]
         /\ S.reg[i] # NULL => S.reg[i] \in T.free
<1>1. /\ IsState(S) /\ Agree(S, {}) /\ NULL \notin Managed(S) /\ 0 \in 0..Len(S.kind)
      /\ S.reg \in [Ins(S) -> Managed(S) \cup {NULL}]
  BY NotNull DEF Good, IsState
<1>2. PICK U : U = IF S.reg[i] = NULL THEN S ELSE ClearReg(Retire(S, S.reg[i]), i)
  OBVIOUS
<1>3. /\ Good(U, n, {}) /\ Fixed(S, U) /\ U.reg[i] = NULL /\ U.ar = S.ar
      /\ S.free \subseteq U.free
      /\ \A j \in Ins(S) \ {i} : U.reg[j] = S.reg[j]
      /\ S.reg[i] # NULL => S.reg[i] \in U.free
  <2>1. CASE S.reg[i] = NULL
    BY <1>2, <2>1 DEF Fixed
  <2>2. CASE S.reg[i] # NULL
    <3>1. PICK r \in Managed(S) : r = S.reg[i]
      BY <1>1, <2>2
    <3>2. S.active[r] = i
      BY <1>1, <2>2, <3>1 DEF Agree
    <3>3. Drops(S, U, i, r) /\ U.ar = S.ar
      BY <1>1, <1>2, <2>2, <3>1, DropIs DEF IsState
    <3>4. /\ Good(U, n, {}) /\ U.reg[i] = NULL
          /\ \A j \in Ins(S) \ {i} : U.reg[j] = S.reg[j]
      BY <3>2, <3>3, DropGood
    <3> QED
      BY <3>1, <3>3, <3>4 DEF Drops
  <2> QED
    BY <2>1, <2>2
<1>4. IsState(U) /\ Ins(U) = Ins(S) /\ Managed(U) = Managed(S)
  BY <1>3 DEF Good, Fixed, Ins, Managed
<1>5. /\ Fixed(U, T) /\ T.free = U.free /\ T.active = U.active /\ T.reg = U.reg
      /\ T.ar = [U.ar EXCEPT ![i] = 0]
  BY <1>2, <1>4 DEF FreeResourcesOf, Fixed, IsState, Fields
<1>6. U.ar \in [Ins(S) -> 0..Len(S.kind)] /\ U.kind = S.kind
  BY <1>3, <1>4 DEF IsState, Fixed
<1>7. /\ T.ar \in [Ins(S) -> 0..Len(S.kind)] /\ T.ar[i] = 0
      /\ \A j \in Ins(S) \ {i} : T.ar[j] = S.ar[j]
  BY <1>1, <1>3, <1>5, <1>6
<1>8. Ins(T) = Ins(S) /\ Managed(T) = Managed(S)
  BY <1>4, <1>5 DEF Fixed, Ins, Managed
<1>9. IsState(T)
  BY <1>4, <1>5, <1>6, <1>7, <1>8 DEF IsState, Fixed
<1>10. Agree(T, {})
  BY <1>3, <1>4, <1>5, <1>8 DEF Good, Agree
<1>11. Disjoint(T)
  <2>1. DOMAIN T.ar = Ins(S) /\ DOMAIN U.ar = Ins(S)
    BY <1>6, <1>7
  <2>2. \A j \in Ins(S) : T.ar[j] # 0 => T.ar[j] = U.ar[j]
    BY <1>3, <1>7
  <2> QED
    BY <1>3, <2>1, <2>2 DEF Good, Disjoint
<1>12. Sorted(T)
  <2>1. \A j : ClassOf(T, j) = ClassOf(U, j)
    BY <1>4, <1>5, <1>8 DEF ClassOf, Fixed
  <2> QED
    BY <1>3, <1>4, <1>5, <1>8, <2>1 DEF Good, Sorted
<1>13. Below(T, n)
  <2>1. \A j \in Ins(S) : Extant(T, j) => Extant(U, j)
    BY <1>3, <1>5, <1>7 DEF Extant
  <2> QED
    BY <1>3, <1>4, <1>8, <2>1 DEF Good, Below
<1>14. ~Extant(T, i)
  BY <1>3, <1>5, <1>7 DEF Extant
<1>15. Fixed(S, T)
  BY <1>3, <1>5 DEF Fixed
<1> QED
  BY <1>3, <1>5, <1>7, <1>9, <1>10, <1>11, <1>12, <1>13, <1>14, <1>15 DEF Good

\* releaseRegisters: every register is free.
LEMMA VacatedGood ==
  ASSUME NEW S, NEW n, Good(S, n, {}), NEW X,
         NEW T, T = [ReleaseRegisters(S) EXCEPT !.needs = X]
  PROVE  Good(T, n, {}) /\ Fixed(S, T) /\ T.free = Managed(S)
<1>1. /\ IsState(S) /\ Agree(S, {}) /\ NULL \notin Managed(S) /\ NULL \notin Ins(S)
      /\ DOMAIN S.active = Managed(S) /\ DOMAIN S.reg = Ins(S)
      /\ S.active \in [Managed(S) -> Ins(S) \cup {NULL}]
      /\ S.reg \in [Ins(S) -> Managed(S) \cup {NULL}]
      /\ S.free \subseteq Managed(S)
  BY NotNull DEF Good, IsState
<1>2. PICK held : held = {S.active[r] : r \in InUse(S.active)}
  OBVIOUS
<1>3. PICK cleared : cleared = [i \in DOMAIN S.reg |-> IF i \in held THEN NULL ELSE S.reg[i]]
  OBVIOUS
<1>4. PICK none : none = [r \in DOMAIN S.active |-> NULL]
  OBVIOUS
<1>5. PICK U : U = ReleaseRegisters(S)
  OBVIOUS
<1>6. U = [S EXCEPT !.free = @ \cup InUse(S.active), !.active = none,
                    !.reg = cleared, !.needs = {}]
  BY <1>2, <1>3, <1>4, <1>5 DEF ReleaseRegisters
<1>7. /\ DOMAIN U = Fields /\ Fixed(S, U) /\ U.ar = S.ar /\ U.active = none
      /\ U.reg = cleared /\ U.free = S.free \cup InUse(S.active)
  BY <1>1, <1>6 DEF IsState, Fields, Fixed
<1>8. Quiet(U, T)
  BY <1>5, <1>7, NeedsQuiet
<1>9. /\ Fixed(S, T) /\ T.ar = S.ar /\ T.active = none /\ T.reg = cleared
      /\ T.free = S.free \cup InUse(S.active)
  BY <1>7, <1>8 DEF Quiet, Fixed
<1>10. \A r \in Managed(S) : T.active[r] = NULL
  BY <1>1, <1>4, <1>9
<1>11. \A i \in Ins(S) : T.reg[i] = NULL
  <2> SUFFICES ASSUME NEW i \in Ins(S), S.reg[i] # NULL PROVE T.reg[i] = NULL
    BY <1>1, <1>3, <1>9
  <2>1. PICK r \in Managed(S) : r = S.reg[i]
    BY <1>1
  <2>2. S.active[r] = i
    BY <1>1, <2>1 DEF Agree
  <2>3. r \in InUse(S.active)
    BY <1>1, <2>2 DEF InUse
  <2>4. i \in held
    BY <1>2, <2>2, <2>3
  <2> QED
    BY <1>1, <1>3, <1>9, <2>4
<1>12. T.free = Managed(S)
  BY <1>1, <1>9 DEF InUse, Agree
<1>13. Ins(T) = Ins(S) /\ Managed(T) = Managed(S)
  BY <1>9 DEF Fixed, Ins, Managed
<1>14. IsState(T)
  <2>1. /\ T.active \in [Managed(S) -> Ins(S) \cup {NULL}]
        /\ T.reg \in [Ins(S) -> Managed(S) \cup {NULL}]
    BY <1>1, <1>3, <1>4, <1>9, <1>10, <1>11
  <2> QED
    BY <1>1, <1>9, <1>12, <1>13, <2>1 DEF IsState, Fixed
<1>15. Agree(T, {})
  BY <1>10, <1>11, <1>12, <1>13 DEF Agree
<1>16. Disjoint(T)
  BY <1>9 DEF Good, Disjoint
<1>17. Sorted(T)
  BY <1>10, <1>13 DEF Sorted
<1>18. Below(T, n)
  BY <1>9, <1>11, <1>13 DEF Good, Below, Extant
<1> QED
  BY <1>9, <1>12, <1>14, <1>15, <1>16, <1>17, <1>18 DEF Good

\* assignSavedRegs, where every register is free.
LEMMA AssignSavedGood ==
  ASSUME NEW S, NEW n, Good(S, n, {}), Managed(S) \subseteq S.free,
         \A i \in Ins(S) : S.kind[i] = "saved" => i <= n,
         NEW T, T = AssignSavedRegs(S)
  PROVE  Good(T, n, {}) /\ Fixed(S, T)
<1>1. /\ IsState(S) /\ Agree(S, {}) /\ IsMachine(S.mach) /\ DOMAIN S.kind = Ins(S)
      /\ NULL \notin Managed(S)
      /\ S.reg \in [Ins(S) -> Managed(S) \cup {NULL}]
  BY NotNull DEF Good, IsState
<1>2. PICK Saved : Saved = {i \in DOMAIN S.kind : S.kind[i] = "saved"}
  OBVIOUS
<1>3. CASE Saved = {}
  BY <1>2, <1>3 DEF AssignSavedRegs, Fixed
<1>4. CASE Saved # {}
  <2>1. PICK i : i = CHOOSE x \in Saved : TRUE
    OBVIOUS
  <2>2. i \in Saved
    BY <1>4, <2>1
  <2>3. i \in Ins(S) /\ i <= n /\ S.kind[i] = "saved"
    BY <1>1, <1>2, <2>2
  <2>4. PICK r : r = S.mach.savedParam
    OBVIOUS
  <2>5. r \in Managed(S) /\ r \in S.free /\ r \in ClassOf(S, i)
    BY <1>1, <2>3, <2>4 DEF IsMachine, Managed, ClassOf, FpKinds
  <2>6. S.reg[i] = NULL
    <3> SUFFICES ASSUME S.reg[i] # NULL PROVE FALSE
      OBVIOUS
    <3>1. PICK q \in Managed(S) : q = S.reg[i]
      BY <1>1, <2>3
    <3>2. S.active[q] = NULL /\ S.active[q] = i
      BY <1>1, <2>3, <3>1 DEF Agree
    <3> QED
      BY <1>1, <2>3, <3>2, NotNull
  <2>7. PICK U : U = TakeReg(S, i, r)
    OBVIOUS
  <2>8. Good(U, n, {}) /\ Fixed(S, U)
    BY <2>3, <2>5, <2>6, <2>7, TakeRegGood DEF Finds, Keeps
  <2>9. T = Read(U, {<<r, i>>})
    <3>1. T = Read(TakeReg(S, CHOOSE x \in Saved : TRUE, S.mach.savedParam),
                   {<<S.mach.savedParam, CHOOSE x \in Saved : TRUE>>})
      BY <1>2, <1>4 DEF AssignSavedRegs
    <3> QED
      BY <2>1, <2>4, <2>7, <3>1
  <2>10. Quiet(U, T)
    BY <1>1, <2>8, <2>9, ReadQuiet DEF IsState, Fixed
  <2> QED
    BY <2>8, <2>10, QuietIsGood DEF Quiet, Fixed
<1> QED
  BY <1>3, <1>4

\* evictSomeActiveRegs, one register after the other.
EvictStep(S, regs, prev, n) ==
  {EvictOne(T, regs, S.mach.order[n]) : T \in prev}

EvictDef(S, regs, N, f) ==
  f = [n \in 0..N |-> IF n = 0 THEN {S} ELSE EvictStep(S, regs, f[n - 1], n)]

LEMMA EvictExists ==
  ASSUME NEW S, NEW regs, NEW N, N \in Nat
  PROVE  \E f : EvictDef(S, regs, N, f)
<1> DEFINE T == {k \in Nat : ~\E f : EvictDef(S, regs, k, f)}
<1> SUFFICES ASSUME T # {} PROVE FALSE
  OBVIOUS
<1>1. PICK k \in T : \A l \in T : k <= l
  BY LeastNat
<1>2. k # 0
  <2> SUFFICES ASSUME k = 0 PROVE FALSE
    OBVIOUS
  <2> DEFINE g == [n \in 0..0 |-> {S}]
  <2>1. EvictDef(S, regs, 0, g)
    BY DEF EvictDef
  <2> QED
    BY <1>1, <2>1
<1>3. k - 1 \in Nat /\ ~(k <= k - 1)
  BY <1>1, <1>2
<1>4. PICK g : EvictDef(S, regs, k - 1, g)
  BY <1>1, <1>3
<1> DEFINE h == [n \in 0..k |-> IF n < k THEN g[n] ELSE EvictStep(S, regs, g[k - 1], k)]
<1>5. \A n \in 0..(k - 1) :
        g[n] = IF n = 0 THEN {S} ELSE EvictStep(S, regs, g[n - 1], n)
  BY <1>4 DEF EvictDef
<1>6. ASSUME NEW n \in 0..k
      PROVE  h[n] = IF n = 0 THEN {S} ELSE EvictStep(S, regs, h[n - 1], n)
  <2>1. CASE n = 0
    <3>1. h[n] = g[n] /\ n \in 0..(k - 1)
      BY <1>3, <2>1
    <3> QED
      BY <1>5, <2>1, <3>1
  <2>2. CASE n # 0 /\ n < k
    <3>1. h[n] = g[n] /\ h[n - 1] = g[n - 1] /\ n \in 0..(k - 1)
      BY <1>3, <2>2
    <3> QED
      BY <1>5, <2>2, <3>1
  <2>3. CASE n = k
    <3>1. h[n] = EvictStep(S, regs, g[k - 1], k) /\ h[n - 1] = g[k - 1]
      BY <1>3, <2>3
    <3> QED
      BY <1>2, <2>3, <3>1
  <2> QED
    BY <2>1, <2>2, <2>3
<1>7. EvictDef(S, regs, k, h)
  BY <1>6 DEF EvictDef
<1> QED
  BY <1>1, <1>7

LEMMA EvictIs ==
  ASSUME NEW S, NEW regs, Len(S.mach.order) \in Nat
  PROVE  \E f : EvictDef(S, regs, Len(S.mach.order), f) /\ EvictAll(S, regs) = f[Len(S.mach.order)]
<1> DEFINE after == CHOOSE f : f = [n \in 0..Len(S.mach.order) |-> IF n = 0 THEN {S} ELSE {EvictOne(T, regs, S.mach.order[n]) : T \in f[n - 1]}]
<1>1. EvictAll(S, regs) = after[Len(S.mach.order)]
  BY DEF EvictAll
<1>2. after = CHOOSE f : EvictDef(S, regs, Len(S.mach.order), f)
  BY DEF EvictDef, EvictStep
<1>3. EvictDef(S, regs, Len(S.mach.order), after)
  BY <1>2, EvictExists
<1> QED
  BY <1>1, <1>3

\* The registers in regs among the first k are free.
Emptied(S, n, regs, k, T) ==
  /\ Good(T, n, {}) /\ Empties(S, T, regs)
  /\ \A l \in 1..k : S.mach.order[l] \in regs => S.mach.order[l] \in T.free

LEMMA EmptiedNext ==
  ASSUME NEW S, NEW n, NEW regs, regs \subseteq Managed(S), NEW k \in Nat, k # 0,
         NEW T, Emptied(S, n, regs, k - 1, T), NEW U, U = EvictOne(T, regs, S.mach.order[k])
  PROVE  Emptied(S, n, regs, k, U)
<1>1. PICK r : r = S.mach.order[k]
  OBVIOUS
<1>2. Good(U, n, {}) /\ Empties(T, U, regs) /\ (r \in regs => r \in U.free)
  <2>1. CASE r \in regs
    <3>1. r \in Managed(T) /\ U = EvictIfActive(T, r)
      BY <1>1, <2>1 DEF EvictOne, Emptied, Empties, Keeps, Fixed, Managed
    <3>2. Good(U, n, {}) /\ Empties(T, U, {r}) /\ r \in U.free
      BY <3>1, EvictActiveGood DEF Emptied
    <3> QED
      BY <2>1, <3>2, KeepsMore DEF Empties
  <2>2. CASE r \notin regs
    <3>1. U = T
      BY <1>1, <2>2 DEF EvictOne
    <3> QED
      BY <2>2, <3>1 DEF Emptied, Empties, Keeps, Fixed
  <2> QED
    BY <2>1, <2>2
<1>3. Empties(S, U, regs)
  BY <1>2, KeepsKeeps DEF Emptied, Empties
<1>4. ASSUME NEW l \in 1..k, S.mach.order[l] \in regs
      PROVE  S.mach.order[l] \in U.free
  <2>1. CASE l = k
    BY <1>1, <1>2, <1>4, <2>1
  <2>2. CASE l # k
    <3>1. l \in 1..(k - 1)
      BY <2>2
    <3>2. S.mach.order[l] \in T.free
      BY <1>4, <3>1 DEF Emptied
    <3> QED
      BY <1>2, <3>2 DEF Empties
  <2> QED
    BY <2>1, <2>2
<1> QED
  BY <1>2, <1>3, <1>4 DEF Emptied

LEMMA EvictAllGood ==
  ASSUME NEW S, NEW n, Good(S, n, {}), NEW regs, regs \subseteq Managed(S),
         NEW T \in EvictAll(S, regs)
  PROVE  Good(T, n, {}) /\ Empties(S, T, regs) /\ regs \subseteq T.free
<1>1. PICK N : N \in Nat /\ N = Len(S.mach.order)
  <2>1. S.mach.order \in Seq(STRING)
    BY DEF Good, IsState, IsMachine
  <2> QED
    BY <2>1
<1>2. PICK after : EvictDef(S, regs, N, after) /\ EvictAll(S, regs) = after[N]
  BY <1>1, EvictIs
<1>3. after = [k \in 0..N |-> IF k = 0 THEN {S} ELSE EvictStep(S, regs, after[k - 1], k)]
  BY <1>2 DEF EvictDef
<1> DEFINE All(k) == \A U \in after[k] : Emptied(S, n, regs, k, U)
           B == {k \in Nat : k <= N /\ ~All(k)}
<1>4. B = {}
  <2> SUFFICES ASSUME B # {} PROVE FALSE
    OBVIOUS
  <2>1. PICK k \in B : \A l \in B : k <= l
    BY LeastNat
  <2>2. k \in Nat /\ k <= N /\ ~All(k) /\ k \in 0..N
    BY <1>1, <2>1
  <2>3. k # 0
    <3> SUFFICES ASSUME k = 0 PROVE FALSE
      OBVIOUS
    <3>1. after[0] = {S}
      BY <1>1, <1>3
    <3>2. Empties(S, S, regs)
      BY DEF Empties, Keeps, Fixed
    <3>3. Emptied(S, n, regs, 0, S)
      BY <3>2 DEF Emptied
    <3> QED
      BY <2>2, <3>1, <3>3
  <2>4. k - 1 \in Nat /\ k - 1 <= N /\ ~(k <= k - 1)
    BY <1>1, <2>2, <2>3
  <2>5. All(k - 1)
    BY <2>1, <2>4
  <2>6. after[k] = {EvictOne(U, regs, S.mach.order[k]) : U \in after[k - 1]}
    BY <1>3, <2>2, <2>3 DEF EvictStep
  <2>7. All(k)
    BY <2>2, <2>3, <2>5, <2>6, EmptiedNext
  <2> QED
    BY <2>2, <2>7
<1>5. All(N)
  BY <1>1, <1>4
<1>6. Emptied(S, n, regs, N, T)
  BY <1>2, <1>5
<1>7. ASSUME NEW r \in regs PROVE r \in T.free
  <2>1. PICK l \in 1..N : S.mach.order[l] = r
    BY <1>1 DEF Good, IsState, IsMachine, Managed
  <2> QED
    BY <1>6, <2>1 DEF Emptied
<1> QED
  BY <1>6, <1>7 DEF Emptied

\* evictScratchRegsExcept: the registers no call saves are free.
LEMMA EvictScratchGood ==
  ASSUME NEW S, NEW n, Good(S, n, {}), NEW locs, NEW T \in EvictScratch(S, locs)
  PROVE  /\ Good(T, n, {}) /\ Empties(S, T, Managed(S) \ locs)
         /\ (Managed(S) \ S.mach.saved) \ locs \subseteq T.free
<1>1. PICK computed : computed = {r \in S.mach.saved : /\ S.active[r] # NULL
                                                      /\ CanRemat(S, S.active[r])}
  OBVIOUS
<1>2. PICK U \in EvictAll(S, computed \ locs) :
        T \in EvictAll(U, (S.mach.managed \ S.mach.saved) \ locs)
  BY <1>1 DEF EvictScratch
<1>3. computed \ locs \subseteq Managed(S) \ locs
  BY <1>1 DEF Good, IsState, IsMachine, Managed
<1>4. Good(U, n, {}) /\ Empties(S, U, computed \ locs)
  BY <1>2, <1>3, EvictAllGood
<1>5. Managed(U) = Managed(S)
  BY <1>4 DEF Empties, Keeps, Fixed, Managed
<1>6. /\ Good(T, n, {}) /\ Empties(U, T, (Managed(S) \ S.mach.saved) \ locs)
      /\ (Managed(S) \ S.mach.saved) \ locs \subseteq T.free
  BY <1>2, <1>4, <1>5, EvictAllGood DEF Managed
<1>7. Empties(S, U, Managed(S) \ locs) /\ Empties(U, T, Managed(S) \ locs)
  BY <1>3, <1>4, <1>6, KeepsMore DEF Empties
<1> QED
  BY <1>6, <1>7, KeepsKeeps DEF Empties

\* intersectRegisterState, one register after the other.
BackStep(S, saved, prev, n) ==
  {Back(T, saved, Differing(S, saved), S.mach.order[n]) : T \in prev}

BackDef(S, saved, N, f) ==
  f = [n \in 0..N |-> IF n = 0 THEN EvictAll(S, Differing(S, saved)) ELSE BackStep(S, saved, f[n - 1], n)]

LEMMA BackExists ==
  ASSUME NEW S, NEW saved, NEW N, N \in Nat
  PROVE  \E f : BackDef(S, saved, N, f)
<1> DEFINE T == {k \in Nat : ~\E f : BackDef(S, saved, k, f)}
<1> SUFFICES ASSUME T # {} PROVE FALSE
  OBVIOUS
<1>1. PICK k \in T : \A l \in T : k <= l
  BY LeastNat
<1>2. k # 0
  <2> SUFFICES ASSUME k = 0 PROVE FALSE
    OBVIOUS
  <2> DEFINE g == [n \in 0..0 |-> EvictAll(S, Differing(S, saved))]
  <2>1. BackDef(S, saved, 0, g)
    BY DEF BackDef
  <2> QED
    BY <1>1, <2>1
<1>3. k - 1 \in Nat /\ ~(k <= k - 1)
  BY <1>1, <1>2
<1>4. PICK g : BackDef(S, saved, k - 1, g)
  BY <1>1, <1>3
<1> DEFINE h == [n \in 0..k |-> IF n < k THEN g[n] ELSE BackStep(S, saved, g[k - 1], k)]
<1>5. \A n \in 0..(k - 1) :
        g[n] = IF n = 0 THEN EvictAll(S, Differing(S, saved)) ELSE BackStep(S, saved, g[n - 1], n)
  BY <1>4 DEF BackDef
<1>6. ASSUME NEW n \in 0..k
      PROVE  h[n] = IF n = 0 THEN EvictAll(S, Differing(S, saved)) ELSE BackStep(S, saved, h[n - 1], n)
  <2>1. CASE n = 0
    <3>1. h[n] = g[n] /\ n \in 0..(k - 1)
      BY <1>3, <2>1
    <3> QED
      BY <1>5, <2>1, <3>1
  <2>2. CASE n # 0 /\ n < k
    <3>1. h[n] = g[n] /\ h[n - 1] = g[n - 1] /\ n \in 0..(k - 1)
      BY <1>3, <2>2
    <3> QED
      BY <1>5, <2>2, <3>1
  <2>3. CASE n = k
    <3>1. h[n] = BackStep(S, saved, g[k - 1], k) /\ h[n - 1] = g[k - 1]
      BY <1>3, <2>3
    <3> QED
      BY <1>2, <2>3, <3>1
  <2> QED
    BY <2>1, <2>2, <2>3
<1>7. BackDef(S, saved, k, h)
  BY <1>6 DEF BackDef
<1> QED
  BY <1>1, <1>7

LEMMA BackIs ==
  ASSUME NEW S, NEW saved, Len(S.mach.order) \in Nat
  PROVE  \E f : BackDef(S, saved, Len(S.mach.order), f) /\ Intersect(S, saved) = f[Len(S.mach.order)]
<1> DEFINE after == CHOOSE f : f = [n \in 0..Len(S.mach.order) |-> IF n = 0 THEN EvictAll(S, Differing(S, saved)) ELSE {Back(T, saved, Differing(S, saved), S.mach.order[n]) : T \in f[n - 1]}]
<1>1. Intersect(S, saved) = after[Len(S.mach.order)]
  BY DEF Intersect
<1>2. after = CHOOSE f : BackDef(S, saved, Len(S.mach.order), f)
  BY DEF BackDef, BackStep
<1>3. BackDef(S, saved, Len(S.mach.order), after)
  BY <1>2, BackExists
<1> QED
  BY <1>1, <1>3

\* The registers among the first k have what they had in E, or nothing.
Backed(S, E, n, k, T) ==
  /\ Good(T, n, {}) /\ Fixed(S, T)
  /\ \A r \in Managed(S) : T.active[r] # NULL => T.active[r] = E.active[r]
  /\ \A l \in 1..Len(S.mach.order) :
       l > k /\ S.mach.order[l] \in Differing(S, E) => S.mach.order[l] \in T.free

LEMMA BackedFirst ==
  ASSUME NEW S, NEW n, Good(S, n, {}), NEW E, E.mach = S.mach,
         NEW T \in EvictAll(S, Differing(S, E))
  PROVE  Backed(S, E, n, 0, T)
<1>1. PICK differ : differ = Differing(S, E)
  OBVIOUS
<1>2. differ \subseteq Managed(S)
  BY <1>1 DEF Differing, Managed
<1>3. Good(T, n, {}) /\ Empties(S, T, differ) /\ differ \subseteq T.free
  BY <1>1, <1>2, EvictAllGood
<1>4. Fixed(S, T) /\ Ins(T) = Ins(S) /\ Managed(T) = Managed(S)
  BY <1>3 DEF Empties, Keeps, Fixed, Ins, Managed
<1>5. ASSUME NEW r \in Managed(S), T.active[r] # NULL
      PROVE  T.active[r] = E.active[r]
  <2>1. PICK j \in Ins(S) : j = T.active[r]
    BY <1>3, <1>4, <1>5 DEF Good, IsState
  <2>2. T.reg[j] = r /\ r # NULL
    BY <1>3, <1>4, <1>5, <2>1, NotNull DEF Good, Agree
  <2>3. S.reg[j] = r
    BY <1>3, <2>2 DEF Empties, Keeps
  <2>4. S.active[r] = j
    BY <2>2, <2>3 DEF Good, Agree
  <2>5. r \notin differ
    BY <1>3, <1>4, <1>5 DEF Good, Agree
  <2> QED
    BY <1>1, <1>5, <2>1, <2>4, <2>5 DEF Differing, Managed
<1> QED
  BY <1>1, <1>3, <1>4, <1>5 DEF Backed

LEMMA BackedNext ==
  ASSUME NEW S, NEW n, n \in Nat, IsState(S), NEW E, Good(E, n, {}), E.mach = S.mach, E.kind = S.kind,
         NEW k \in 1..Len(S.mach.order), NEW T, Backed(S, E, n, k - 1, T),
         NEW U, U = Back(T, E, Differing(S, E), S.mach.order[k])
  PROVE  Backed(S, E, n, k, U)
<1>1. PICK r : r = S.mach.order[k]
  OBVIOUS
<1>2. PICK i : i = E.active[r]
  OBVIOUS
<1>3. PICK N : N \in Nat /\ N = Len(S.mach.order)
  BY DEF IsState, IsMachine
<1>4. /\ Ins(T) = Ins(S) /\ Managed(T) = Managed(S) /\ IsState(T) /\ T.mach = S.mach
      /\ Ins(E) = Ins(S) /\ Managed(E) = Managed(S) /\ IsState(E) /\ T.kind = S.kind
  BY DEF Backed, Fixed, Ins, Managed, Good
<1>5. CASE r \in Differing(S, E) /\ i # NULL
  <2>1. r \in Managed(S) /\ r \in T.free /\ i \in Ins(S)
    <3>1. r \in Managed(S)
      BY <1>5 DEF Differing, Managed
    <3>2. k > k - 1
      BY <1>3
    <3>3. r \in T.free
      BY <1>1, <1>5, <3>2 DEF Backed
    <3>4. i \in Ins(S)
      BY <1>2, <1>4, <1>5, <3>1 DEF IsState
    <3> QED
      BY <3>1, <3>3, <3>4
  <2>2. E.reg[i] = r /\ r \in ClassOf(E, i)
    BY <1>2, <1>4, <1>5, <2>1 DEF Good, Agree, Sorted
  <2>3. i <= n
    BY <1>4, <2>1, <2>2, NotNull DEF Good, Below, Extant
  <2>4. PICK P : P = Popped(T, r, i)
    OBVIOUS
  <2>5. Quiet(T, P)
    <3>1. Quiet(T, T)
      BY DEF Quiet, Fixed
    <3> QED
      BY <1>4, <2>4, <3>1, WriteQuiet DEF Popped, IsState
  <2>6. Good(P, n, {}) /\ P.active = T.active /\ P.reg = T.reg /\ r \in P.free
    BY <2>1, <2>5, QuietIsGood DEF Backed, Quiet
  <2>7. Ins(P) = Ins(S) /\ Managed(P) = Managed(S) /\ r \in ClassOf(P, i)
    BY <1>4, <2>2, <2>5 DEF Quiet, Fixed, Ins, Managed, ClassOf
  <2>8. P.reg[i] = NULL
    <3> SUFFICES ASSUME P.reg[i] # NULL PROVE FALSE
      OBVIOUS
    <3>1. PICK q \in Managed(S) : q = P.reg[i]
      BY <2>1, <2>6, <2>7 DEF Good, IsState
    <3>2. P.active[q] = i
      BY <2>1, <2>6, <2>7, <3>1 DEF Good, Agree
    <3>3. E.active[q] = i
      BY <1>5, <2>6, <3>2 DEF Backed
    <3>4. E.reg[i] = q
      BY <1>4, <1>5, <3>3 DEF Good, Agree
    <3>5. P.active[r] = NULL
      BY <2>1, <2>6, <2>7 DEF Good, Agree
    <3> QED
      BY <1>5, <2>2, <3>2, <3>4, <3>5
  <2>9. U = TakeReg(P, i, r)
    BY <1>1, <1>2, <1>5, <2>4 DEF Back
  <2>10. Good(U, n, {}) /\ Finds(P, U, i, {r})
    BY <2>1, <2>3, <2>6, <2>7, <2>8, <2>9, TakeRegGood
  <2>11. Fixed(S, U)
    BY <2>5, <2>10 DEF Finds, Keeps, Quiet, Fixed, Backed
  <2>12. Ins(U) = Ins(S) /\ Managed(U) = Managed(S)
    BY <2>11 DEF Fixed, Ins, Managed
  <2>13. ASSUME NEW q \in Managed(S), U.active[q] # NULL
         PROVE  U.active[q] = E.active[q]
    <3>1. PICK j \in Ins(S) : j = U.active[q]
      BY <2>10, <2>12, <2>13 DEF Good, IsState
    <3>2. U.reg[j] = q /\ q # NULL
      BY <2>10, <2>12, <2>13, <3>1, NotNull DEF Good, Agree
    <3>3. CASE j = i
      <4>1. q = r
        BY <2>10, <3>2, <3>3 DEF Finds
      <4> QED
        BY <1>2, <3>1, <3>3, <4>1
    <3>4. CASE j # i
      <4>1. P.reg[j] = q
        BY <2>7, <2>10, <3>2, <3>4 DEF Finds, Keeps
      <4>2. P.active[q] = j
        BY <2>6, <2>7, <3>2, <4>1 DEF Good, Agree
      <4> QED
        BY <2>6, <2>13, <3>1, <4>2 DEF Backed
    <3> QED
      BY <3>3, <3>4
  <2>14. ASSUME NEW l \in 1..Len(S.mach.order), l > k, S.mach.order[l] \in Differing(S, E)
         PROVE  S.mach.order[l] \in U.free
    <3>1. l > k - 1 /\ l # k
      BY <1>3, <2>14
    <3>2. S.mach.order[l] # r
      BY <1>1, <3>1 DEF IsState, IsMachine
    <3>3. S.mach.order[l] \in P.free
      BY <2>5, <2>14, <3>1 DEF Backed, Quiet
    <3> QED
      BY <2>10, <3>2, <3>3 DEF Finds, Keeps
  <2> QED
    BY <2>10, <2>11, <2>13, <2>14 DEF Backed
<1>6. CASE ~(r \in Differing(S, E) /\ i # NULL)
  <2>1. U = T
    BY <1>1, <1>2, <1>6 DEF Back
  <2>2. \A l \in 1..Len(S.mach.order) : l > k => l > k - 1
    BY <1>3
  <2> QED
    BY <2>1, <2>2 DEF Backed
<1> QED
  BY <1>5, <1>6

\* Whatever the exit's own code leaves, the registers come to agree again.
LEMMA IntersectGood ==
  ASSUME NEW S, NEW n, n \in Nat, Good(S, n, {}), NEW E, Good(E, n, {}),
         E.mach = S.mach, E.kind = S.kind, NEW T \in Intersect(S, E)
  PROVE  Good(T, n, {}) /\ Fixed(S, T)
<1>1. PICK N : N \in Nat /\ N = Len(S.mach.order)
  BY DEF Good, IsState, IsMachine
<1>2. PICK after : BackDef(S, E, N, after) /\ Intersect(S, E) = after[N]
  BY <1>1, BackIs
<1>3. after = [k \in 0..N |-> IF k = 0 THEN EvictAll(S, Differing(S, E))
                                       ELSE BackStep(S, E, after[k - 1], k)]
  BY <1>2 DEF BackDef
<1> DEFINE All(k) == \A U \in after[k] : Backed(S, E, n, k, U)
           B == {k \in Nat : k <= N /\ ~All(k)}
<1>4. B = {}
  <2> SUFFICES ASSUME B # {} PROVE FALSE
    OBVIOUS
  <2>1. PICK k \in B : \A l \in B : k <= l
    BY LeastNat
  <2>2. k \in Nat /\ k <= N /\ ~All(k) /\ k \in 0..N
    BY <1>1, <2>1
  <2>3. k # 0
    <3> SUFFICES ASSUME k = 0 PROVE FALSE
      OBVIOUS
    <3>1. after[0] = EvictAll(S, Differing(S, E))
      BY <1>1, <1>3
    <3> QED
      BY <2>2, <3>1, BackedFirst
  <2>4. k - 1 \in Nat /\ k - 1 <= N /\ ~(k <= k - 1) /\ k \in 1..N
    BY <1>1, <2>2, <2>3
  <2>5. All(k - 1)
    BY <2>1, <2>4
  <2>6. after[k] = {Back(U, E, Differing(S, E), S.mach.order[k]) : U \in after[k - 1]}
    BY <1>3, <2>2, <2>3 DEF BackStep
  <2>7. All(k)
    BY <1>1, <2>4, <2>5, <2>6, BackedNext DEF Good
  <2> QED
    BY <2>2, <2>7
<1>5. All(N)
  BY <1>1, <1>4
<1> QED
  BY <1>2, <1>5 DEF Backed

-----------------------------------------------------------------------------
(* What Upkeep knows is true of a state.                                   *)

Facts == {"mach", "kind", "last", "of", "held", "open", "in", "dead", "exit", "to", "ok"}

\* Of which processor, program and step.
Suits(S, F) ==
  /\ DOMAIN F = Facts
  /\ F.mach = S.mach /\ F.kind = S.kind /\ F.to = S.to
  /\ F.last \in Nat /\ F.last <= Len(S.kind)

\* What the variables may hold.
Holding(S, F) ==
  /\ \A x \in DOMAIN S.env \ DOMAIN F.in : S.env[x] = x
  /\ DOMAIN F.in \cap Managed(S) = {}
  /\ \A x \in DOMAIN F.in : At(S, x) \in Managed(S) => At(S, x) \in F.in[x]

\* Which values are in a register, and in which variable's.
IsOf(S, F) ==
  \A p \in F.of : /\ p = <<p[1], p[2]>> /\ p[2] \in Values(F)
                  /\ S.reg[p[2]] # NULL /\ S.reg[p[2]] = At(S, p[1])

IsHeld(S, F) == \A i \in F.held : i \in Values(F) /\ S.reg[i] # NULL

IsOpen(S, F) == \A x \in F.open : At(S, x) \in S.free

IsDead(S, F) == \A i \in F.dead : i \in Ins(S) => ~Extant(S, i)

\* Within an exit: the state it was entered in.
Exits(S, F) ==
  F.exit => /\ S.saved[1].mach = S.mach /\ S.saved[1].kind = S.kind
            /\ Good(S.saved[1], F.last, {})

Models(S, F) ==
  /\ Suits(S, F) /\ Good(S, F.last, {}) /\ Holding(S, F) /\ IsOf(S, F)
  /\ IsHeld(S, F) /\ IsOpen(S, F) /\ IsDead(S, F) /\ Exits(S, F)

LEMMA ValuesAre ==
  ASSUME NEW S, NEW F, Models(S, F)
  PROVE  /\ F.last \in Nat /\ \A i \in Values(F) : i \in Ins(S) /\ i <= F.last
         /\ F.mach.managed = Managed(S)
         /\ \A i : Class(F, i) = ClassOf(S, i)
<1>1. Len(S.kind) \in Nat /\ F.last \in Nat /\ F.last <= Len(S.kind)
  BY NotNull DEF Models, Suits, Good
<1> QED
  BY <1>1 DEF Models, Suits, Values, Ins, Class, ClassOf, Managed

LEMMA HeldIs ==
  ASSUME NEW S, NEW F, Models(S, F), NEW i \in Held(F)
  PROVE  i \in Values(F) /\ S.reg[i] # NULL
BY DEF Models, IsHeld, IsOf, Held

\* A variable with a register, and what it may be.
LEMMA AtIs ==
  ASSUME NEW S, NEW F, Models(S, F), NEW x
  PROVE  /\ x \in Managed(S) => At(S, x) = x /\ Among(F, x) = {x}
         /\ At(S, x) \in Managed(S) => At(S, x) \in Among(F, x)
         /\ IsRegister(F, x) => At(S, x) \in Managed(S)
<1>1. Holding(S, F) /\ IsState(S) /\ Managed(S) = F.mach.managed
  BY ValuesAre DEF Models, Good
<1>2. x \in Managed(S) => At(S, x) = x /\ Among(F, x) = {x}
  BY <1>1 DEF Holding, At, Among
<1>3. At(S, x) \in Managed(S) => At(S, x) \in Among(F, x)
  BY <1>1 DEF Holding, At, Among
<1>4. ASSUME x \in F.open PROVE At(S, x) \in Managed(S)
  BY <1>1, <1>4 DEF Models, IsOpen, IsState
<1>5. ASSUME NEW p \in F.of PROVE At(S, p[1]) \in Managed(S)
  <2>1. p[2] \in Ins(S)
    BY ValuesAre DEF Models, IsOf
  <2> QED
    BY <1>1, <2>1 DEF Models, IsOf, IsState
<1>6. IsRegister(F, x) => At(S, x) \in Managed(S)
  BY <1>1, <1>2, <1>4, <1>5 DEF IsRegister
<1> QED
  BY <1>2, <1>3, <1>6

\* Emitting code changes nothing that is known.
LEMMA ModelsQuiet ==
  ASSUME NEW S, NEW F, Models(S, F), NEW T, Quiet(S, T)
  PROVE  Models(T, F)
<1>1. Ins(T) = Ins(S) /\ Managed(T) = Managed(S) /\ \A x : At(T, x) = At(S, x)
  BY DEF Quiet, Fixed, Ins, Managed, At
<1>2. Good(T, F.last, {})
  BY QuietIsGood DEF Models
<1>3. Suits(T, F) /\ Exits(T, F)
  BY DEF Models, Suits, Exits, Quiet, Fixed
<1>4. Holding(T, F)
  BY <1>1 DEF Models, Holding, Quiet, Fixed
<1>5. IsOf(T, F) /\ IsHeld(T, F) /\ IsOpen(T, F) /\ IsDead(T, F)
  BY <1>1 DEF Models, IsOf, IsHeld, IsOpen, IsDead, Quiet, Extant
<1> QED
  BY <1>2, <1>3, <1>4, <1>5 DEF Models

\* Some of regs, but not those of the variables `but'; values Evicted does not forget.
Some(S, some, regs, but) == some \subseteq regs \ {At(S, y) : y \in but}

Kept(F, p, regs, but) ==
  /\ \/ Outside(F, p[1], regs, but)
     \/ \E x \in but : <<x, p[2]>> \in F.of
  /\ Safe(F, regs, p[2])

\* Registers that are not lost.
LEMMA OutsideIs ==
  ASSUME NEW S, NEW F, Models(S, F), NEW regs, NEW but, NEW some,
         Some(S, some, regs, but), NEW x,
         Outside(F, x, regs, but), At(S, x) \in Managed(S)
  PROVE  At(S, x) \notin some
<1>1. At(S, x) \in Among(F, x)
  BY AtIs
<1> QED
  BY <1>1 DEF Outside, Some

LEMMA SafeIs ==
  ASSUME NEW S, NEW F, Models(S, F), NEW i \in Values(F), S.reg[i] # NULL,
         NEW regs, NEW some, some \subseteq regs, Safe(F, regs, i), S.reg[i] \notin some
  PROVE  S.reg[i] \notin Lossy(S, some)
<1>1. i \in Ins(S) /\ F.mach = S.mach /\ F.kind = S.kind
  BY ValuesAre DEF Models, Suits
<1>2. S.reg[i] \in ClassOf(S, i)
  <2>1. PICK r \in Managed(S) : r = S.reg[i]
    BY <1>1 DEF Models, Good, IsState
  <2>2. S.active[r] = i /\ i # NULL
    BY <1>1, <2>1, NotNull DEF Models, Good, Agree
  <2> QED
    BY <2>1, <2>2 DEF Models, Good, Sorted
<1>3. S.mach.tempRegs \subseteq Managed(S) \ S.mach.fpr
  BY DEF Models, Good, IsState, IsMachine, Managed
<1> QED
  BY <1>1, <1>2, <1>3 DEF Safe, Lossy, ClassOf

\* A value in a variable's register is still there after some of regs were emptied.
LEMMA StillThere ==
  ASSUME NEW S, NEW F, Models(S, F), NEW T, NEW D, NEW regs, NEW but, NEW some,
         Some(S, some, regs, but), Keeps(S, T, D, some),
         NEW p \in F.of, p[2] \notin D, Kept(F, p, regs, but)
  PROVE  /\ p = <<p[1], p[2]>> /\ p[2] \in Values(F)
         /\ T.reg[p[2]] # NULL /\ T.reg[p[2]] = At(T, p[1])
<1>1. /\ p = <<p[1], p[2]>> /\ p[2] \in Values(F)
      /\ S.reg[p[2]] # NULL /\ S.reg[p[2]] = At(S, p[1])
  BY DEF Models, IsOf
<1>2. p[2] \in Ins(S) /\ S.reg[p[2]] \in Managed(S)
  BY <1>1, ValuesAre DEF Models, Good, IsState
<1>3. S.reg[p[2]] \notin some
  <2>1. CASE Outside(F, p[1], regs, but)
    BY <1>1, <1>2, <2>1, OutsideIs
  <2>2. CASE \E x \in but : <<x, p[2]>> \in F.of
    <3>1. PICK x \in but : <<x, p[2]>> \in F.of
      BY <2>2
    <3>2. PICK q : q = <<x, p[2]>> /\ q \in F.of
      BY <3>1
    <3>3. S.reg[p[2]] = At(S, x)
      BY <3>2 DEF Models, IsOf
    <3> QED
      BY <3>1, <3>3 DEF Some
  <2> QED
    BY <2>1, <2>2 DEF Kept
<1>4. S.reg[p[2]] \notin Lossy(S, some)
  BY <1>1, <1>3, SafeIs DEF Some, Kept
<1>5. T.reg[p[2]] = S.reg[p[2]]
  BY <1>2, <1>4 DEF Keeps
<1>6. At(T, p[1]) = At(S, p[1])
  BY DEF Keeps, Fixed, At
<1> QED
  BY <1>1, <1>5, <1>6

\* After some of regs have been emptied.
LEMMA ModelsEvicted ==
  ASSUME NEW S, NEW F, Models(S, F), NEW T, Good(T, F.last, {}),
         NEW regs, NEW but, NEW some, Some(S, some, regs, but),
         Empties(S, T, some)
  PROVE  Models(T, Evicted(F, regs, but))
<1>1. PICK of : of = {p \in F.of : Kept(F, p, regs, but)}
  OBVIOUS
<1>2. PICK G : G = Evicted(F, regs, but)
  OBVIOUS
<1>3. G = [F EXCEPT !.held = {}, !.of = of]
  BY <1>1, <1>2 DEF Evicted, Kept
<1>4. /\ DOMAIN G = Facts /\ G.mach = F.mach /\ G.kind = F.kind /\ G.to = F.to
      /\ G.last = F.last /\ G.in = F.in /\ G.open = F.open /\ G.dead = F.dead
      /\ G.exit = F.exit /\ G.held = {} /\ G.of = of
  BY <1>3 DEF Models, Suits, Facts
<1>5. Fixed(S, T) /\ Ins(T) = Ins(S) /\ Managed(T) = Managed(S) /\ \A x : At(T, x) = At(S, x)
  BY DEF Empties, Keeps, Fixed, Ins, Managed, At
<1>6. Suits(T, G) /\ Exits(T, G)
  BY <1>4, <1>5 DEF Models, Suits, Exits, Fixed
<1>7. Holding(T, G)
  BY <1>4, <1>5 DEF Models, Holding, Fixed
<1>8. IsOpen(T, G)
  BY <1>4, <1>5 DEF Models, IsOpen, Empties
<1>9. IsDead(T, G)
  BY <1>4, <1>5 DEF Models, IsDead, Empties, Keeps
<1>10. IsOf(T, G)
  BY <1>1, <1>4, StillThere DEF IsOf, Values, Empties
<1>11. IsHeld(T, G)
  BY <1>4 DEF IsHeld
<1> QED
  BY <1>2, <1>4, <1>6, <1>7, <1>8, <1>9, <1>10, <1>11 DEF Models

\* After value i has been found in some of regs.
LEMMA ModelsFound ==
  ASSUME NEW S, NEW F, Models(S, F), NEW i, NEW T, Good(T, F.last, {}),
         NEW regs, NEW but, NEW some, Some(S, some, regs, but),
         Keeps(S, T, {i}, some)
  PROVE  Models(T, Found(F, i, regs, but))
<1>1. PICK of : of = {p \in F.of : Kept(F, p, regs, but)}
  OBVIOUS
<1>2. PICK G : G = Found(F, i, regs, but)
  OBVIOUS
<1>3. PICK E : E = [F EXCEPT !.held = {}, !.of = of]
  OBVIOUS
<1>4. G = [E EXCEPT !.of = {p \in @ : p[2] # i}, !.dead = @ \ {i},
                    !.open = {x \in @ : Outside(F, x, regs, but)}]
  BY <1>1, <1>2, <1>3 DEF Evicted, Kept, Found
<1>5. /\ DOMAIN E = Facts /\ E.mach = F.mach /\ E.kind = F.kind /\ E.to = F.to
      /\ E.last = F.last /\ E.in = F.in /\ E.open = F.open /\ E.dead = F.dead
      /\ E.exit = F.exit /\ E.held = {} /\ E.of = of
  BY <1>3 DEF Models, Suits, Facts
<1>6. /\ DOMAIN G = Facts /\ G.mach = F.mach /\ G.kind = F.kind /\ G.to = F.to
      /\ G.last = F.last /\ G.in = F.in /\ G.open = {x \in F.open : Outside(F, x, regs, but)}
      /\ G.dead = F.dead \ {i} /\ G.exit = F.exit /\ G.held = {}
      /\ G.of = {p \in of : p[2] # i}
  BY <1>4, <1>5 DEF Facts
<1>7. Fixed(S, T) /\ Ins(T) = Ins(S) /\ Managed(T) = Managed(S) /\ \A x : At(T, x) = At(S, x)
  BY DEF Keeps, Fixed, Ins, Managed, At
<1>8. Suits(T, G) /\ Exits(T, G)
  BY <1>6, <1>7 DEF Models, Suits, Exits, Fixed
<1>9. Holding(T, G)
  BY <1>6, <1>7 DEF Models, Holding, Fixed
<1>10. IsOpen(T, G)
  <2> SUFFICES ASSUME NEW x \in F.open, Outside(F, x, regs, but)
               PROVE  At(S, x) \in T.free
    BY <1>6, <1>7 DEF IsOpen
  <2>1. At(S, x) \in S.free /\ At(S, x) \in Managed(S)
    BY DEF Models, IsOpen, Good, IsState
  <2>2. At(S, x) \notin some
    BY <2>1, OutsideIs
  <2> QED
    BY <2>1, <2>2 DEF Keeps
<1>11. IsDead(T, G)
  BY <1>6, <1>7 DEF Models, IsDead, Keeps
<1>12. IsOf(T, G)
  <2>1. \A p \in G.of : p \in of /\ p[2] \notin {i}
    BY <1>6
  <2> QED
    BY <1>1, <1>6, <2>1, StillThere DEF IsOf, Values
<1>13. IsHeld(T, G)
  BY <1>6 DEF IsHeld
<1> QED
  BY <1>2, <1>6, <1>8, <1>9, <1>10, <1>11, <1>12, <1>13 DEF Models

-----------------------------------------------------------------------------
(* Variables.                                                              *)

\* Only variable r is given anything.
Gives(S, T, r, loc) ==
  /\ Alike(S, T) /\ T.to = S.to /\ T.saved = S.saved
  /\ DOMAIN T.env = DOMAIN S.env \cup {r}
  /\ At(T, r) = loc
  /\ \A x : x # r => At(T, x) = At(S, x)

LEMMA NameGives ==
  ASSUME NEW S, DOMAIN S = Fields, NEW r, NEW loc, NEW T, T = Name(S, r, loc)
  PROVE  Gives(S, T, r, loc)
<1>1. PICK e : e = [x \in DOMAIN S.env \cup {r} |-> IF x = r THEN loc ELSE S.env[x]]
  OBVIOUS
<1>2. T = [S EXCEPT !.env = e]
  BY <1>1 DEF Name
<1>3. Alike(S, T) /\ T.to = S.to /\ T.saved = S.saved /\ T.env = e
  BY <1>2 DEF Alike, Fields
<1>4. DOMAIN e = DOMAIN S.env \cup {r}
  BY <1>1
<1> QED
  BY <1>1, <1>3, <1>4 DEF Gives, At

LEMMA UseGives ==
  ASSUME NEW S, DOMAIN S = Fields, NEW r, NEW i, NEW T, T = UseAs(S, r, i)
  PROVE  Gives(S, T, r, S.reg[i])
<1>1. PICK U : U = Name(S, r, S.reg[i])
  OBVIOUS
<1>2. Gives(S, U, r, S.reg[i]) /\ DOMAIN U = Fields
  BY <1>1, NameGives DEF Gives, Alike
<1>3. T = [U EXCEPT !.used = @ \cup {S.reg[i]}]
  BY <1>1 DEF UseAs
<1>4. Alike(U, T) /\ T.to = U.to /\ T.saved = U.saved /\ T.env = U.env
  BY <1>2, <1>3 DEF Alike, Fields
<1>5. \A x : At(T, x) = At(U, x)
  BY <1>4 DEF At
<1> QED
  BY <1>2, <1>4, <1>5 DEF Gives, Alike

LEMMA GivenIs ==
  ASSUME NEW F, DOMAIN F = Facts, NEW r, NEW regs, NEW G, G = Given(F, r, regs)
  PROVE  /\ DOMAIN G = Facts /\ G.mach = F.mach /\ G.kind = F.kind /\ G.to = F.to
         /\ G.last = F.last /\ G.held = F.held /\ G.dead = F.dead /\ G.exit = F.exit
         /\ G.of = {p \in F.of : p[1] # r} /\ G.open = F.open \ {r}
         /\ DOMAIN G.in = DOMAIN F.in \cup {r} /\ G.in[r] = regs
         /\ \A x \in DOMAIN F.in : x # r => G.in[x] = F.in[x]
<1>1. PICK f : f = [x \in DOMAIN F.in \cup {r} |-> IF x = r THEN regs ELSE F.in[x]]
  OBVIOUS
<1>2. G = [F EXCEPT !.of = {p \in @ : p[1] # r}, !.open = @ \ {r}, !.in = f]
  BY <1>1 DEF Given
<1>3. /\ DOMAIN G = Facts /\ G.mach = F.mach /\ G.kind = F.kind /\ G.to = F.to
      /\ G.last = F.last /\ G.held = F.held /\ G.dead = F.dead /\ G.exit = F.exit
      /\ G.of = {p \in F.of : p[1] # r} /\ G.open = F.open \ {r} /\ G.in = f
  BY <1>2 DEF Facts
<1> QED
  BY <1>1, <1>3

LEMMA ModelsGiven ==
  ASSUME NEW S, NEW F, Models(S, F), NEW r, r \notin Managed(S), NEW loc, NEW regs,
         loc \in Managed(S) => loc \in regs, NEW T, Gives(S, T, r, loc)
  PROVE  Models(T, Given(F, r, regs))
<1>1. PICK G : G = Given(F, r, regs)
  OBVIOUS
<1>2. /\ DOMAIN G = Facts /\ G.mach = F.mach /\ G.kind = F.kind /\ G.to = F.to
      /\ G.last = F.last /\ G.held = F.held /\ G.dead = F.dead /\ G.exit = F.exit
      /\ G.of = {p \in F.of : p[1] # r} /\ G.open = F.open \ {r}
      /\ DOMAIN G.in = DOMAIN F.in \cup {r} /\ G.in[r] = regs
      /\ \A x \in DOMAIN F.in : x # r => G.in[x] = F.in[x]
  BY <1>1, GivenIs DEF Models, Suits
<1>3. /\ Ins(T) = Ins(S) /\ Managed(T) = Managed(S)
      /\ \A x : x # r => At(T, x) = At(S, x)
  BY DEF Gives, Alike, Ins, Managed
<1>4. Good(T, G.last, {})
  BY <1>2, AlikeGood DEF Models, Gives
<1>5. Suits(T, G) /\ Exits(T, G)
  BY <1>2 DEF Models, Suits, Exits, Gives, Alike
<1>6. Holding(T, G)
  BY <1>2, <1>3 DEF Models, Holding, Gives, At
<1>7. IsOf(T, G)
  BY <1>2, <1>3 DEF Models, IsOf, Gives, Alike, Values
<1>8. IsHeld(T, G) /\ IsDead(T, G)
  BY <1>2, <1>3 DEF Models, IsHeld, IsDead, Gives, Alike, Values, Extant
<1>9. IsOpen(T, G)
  BY <1>2, <1>3 DEF Models, IsOpen, Gives, Alike
<1> QED
  BY <1>1, <1>4, <1>5, <1>6, <1>7, <1>8, <1>9 DEF Models

LEMMA ModelsAnything ==
  ASSUME NEW S, NEW F, Models(S, F), NEW r, r \notin Managed(S), NEW loc,
         NEW T, Gives(S, T, r, loc)
  PROVE  Models(T, Anything(F, r))
BY ModelsGiven, ValuesAre DEF Anything

\* The same is known but for which values are in a register and which are free.
Like(F, G) ==
  /\ DOMAIN G = Facts /\ G.mach = F.mach /\ G.kind = F.kind /\ G.to = F.to
  /\ G.last = F.last /\ G.exit = F.exit /\ G.in = F.in

LEMMA ModelsLike ==
  ASSUME NEW S, NEW F, Models(S, F), NEW G, Like(F, G),
         IsOf(S, G), IsHeld(S, G), IsOpen(S, G), IsDead(S, G)
  PROVE  Models(S, G)
<1>1. Suits(S, G) /\ Exits(S, G) /\ Holding(S, G) /\ Good(S, G.last, {})
  BY DEF Models, Like, Suits, Exits, Holding
<1> QED
  BY <1>1 DEF Models

LEMMA ModelsNamed ==
  ASSUME NEW S, NEW F, Models(S, F), NEW r, r \notin Managed(S), NEW i \in Values(F),
         S.reg[i] # NULL, NEW regs, S.reg[i] \in regs,
         NEW T, Gives(S, T, r, S.reg[i])
  PROVE  Models(T, Named(F, r, i, regs))
<1>1. PICK G : G = Given(F, r, regs)
  OBVIOUS
<1>2. Models(T, G) /\ Values(G) = Values(F)
  <2>1. G.last = F.last
    BY <1>1, GivenIs DEF Models, Suits
  <2> QED
    BY <1>1, <2>1, ModelsGiven DEF Values
<1>3. PICK of : of = {<<x, i>> : x \in {r} \cup {x \in regs : regs = {x}}}
  OBVIOUS
<1>4. Named(F, r, i, regs) = [G EXCEPT !.of = @ \cup of]
  BY <1>1, <1>3 DEF Named
<1>5. S.reg[i] \in Managed(S)
  BY ValuesAre DEF Models, Good, IsState
<1>6. ASSUME NEW p \in of
      PROVE  /\ p = <<p[1], p[2]>> /\ p[2] \in Values(G)
             /\ T.reg[p[2]] # NULL /\ T.reg[p[2]] = At(T, p[1])
  <2>1. PICK x \in {r} \cup {x \in regs : regs = {x}} : p = <<x, i>>
    BY <1>3
  <2>2. x = r \/ regs = {x}
    BY <2>1
  <2>3. At(T, x) = S.reg[i]
    <3>1. CASE x = r
      BY <3>1 DEF Gives
    <3>2. CASE x # r /\ regs = {x}
      <4>1. x = S.reg[i] /\ At(S, x) = x
        BY <1>5, <3>2, AtIs
      <4> QED
        BY <3>2, <4>1 DEF Gives
    <3> QED
      BY <2>2, <3>1, <3>2
  <2> QED
    BY <1>2, <2>1, <2>3 DEF Gives, Alike
<1>7. PICK H : H = Named(F, r, i, regs)
  OBVIOUS
<1>8. Like(G, H) /\ H.of = G.of \cup of /\ H.held = G.held /\ H.open = G.open /\ H.dead = G.dead
  BY <1>2, <1>4, <1>7 DEF Models, Suits, Like, Facts
<1>9. Values(H) = Values(G)
  BY <1>8 DEF Like, Values
<1>10. IsOf(T, H)
  BY <1>2, <1>6, <1>8, <1>9 DEF Models, IsOf
<1>11. IsHeld(T, H) /\ IsOpen(T, H) /\ IsDead(T, H)
  BY <1>2, <1>8, <1>9 DEF Models, IsHeld, IsOpen, IsDead
<1> QED
  BY <1>2, <1>7, <1>8, <1>10, <1>11, ModelsLike

LEMMA ModelsAlias ==
  ASSUME NEW S, NEW F, Models(S, F), NEW r, r \notin Managed(S), NEW x,
         NEW T, Gives(S, T, r, At(S, x))
  PROVE  Models(T, Alias(F, r, x))
<1>1. CASE r = x
  <2>1. /\ Ins(T) = Ins(S) /\ Managed(T) = Managed(S) /\ \A y : At(T, y) = At(S, y)
        /\ T.mach = S.mach /\ T.kind = S.kind /\ T.to = S.to /\ T.saved = S.saved
        /\ T.free = S.free /\ T.reg = S.reg /\ T.ar = S.ar
    BY <1>1 DEF Gives, Alike, Ins, Managed
  <2>2. Good(T, F.last, {})
    BY AlikeGood DEF Models, Gives
  <2>3. Suits(T, F) /\ Exits(T, F)
    BY <2>1 DEF Models, Suits, Exits
  <2>4. Holding(T, F)
    <3>1. ASSUME NEW y \in DOMAIN T.env \ DOMAIN F.in PROVE T.env[y] = y
      <4>1. At(S, y) = y
        BY <3>1 DEF Models, Holding, At
      <4> QED
        BY <2>1, <3>1, <4>1 DEF At
    <3> QED
      BY <2>1, <3>1 DEF Models, Holding
  <2>5. IsOf(T, F) /\ IsHeld(T, F) /\ IsOpen(T, F) /\ IsDead(T, F)
    BY <2>1 DEF Models, IsOf, IsHeld, IsOpen, IsDead, Extant
  <2>6. Alias(F, r, x) = F
    BY <1>1 DEF Alias
  <2> QED
    BY <2>2, <2>3, <2>4, <2>5, <2>6 DEF Models
<1>2. CASE r # x
  <2>1. PICK G : G = Given(F, r, Among(F, x))
    OBVIOUS
  <2>2. Models(T, G)
    BY <2>1, AtIs, ModelsGiven
  <2>3. G.of = {p \in F.of : p[1] # r} /\ G.open = F.open \ {r} /\ G.last = F.last
    BY <2>1, GivenIs DEF Models, Suits
  <2>4. PICK of : of = {<<r, p[2]>> : p \in {q \in F.of : q[1] = x}}
    OBVIOUS
  <2>5. PICK H : H = Alias(F, r, x)
    OBVIOUS
  <2>6. H = [G EXCEPT !.of = @ \cup of, !.open = IF x \in F.open THEN @ \cup {r} ELSE @]
    BY <1>2, <2>1, <2>4, <2>5 DEF Alias
  <2>7. /\ Like(G, H) /\ H.of = G.of \cup of /\ H.held = G.held /\ H.dead = G.dead
        /\ H.open = IF x \in F.open THEN G.open \cup {r} ELSE G.open
    BY <2>2, <2>6 DEF Models, Suits, Like, Facts
  <2>8. Values(H) = Values(G) /\ Values(G) = Values(F)
    BY <2>3, <2>7 DEF Like, Values
  <2>9. ASSUME NEW p \in of
        PROVE  /\ p = <<p[1], p[2]>> /\ p[2] \in Values(H)
               /\ T.reg[p[2]] # NULL /\ T.reg[p[2]] = At(T, p[1])
    <3>1. PICK q \in F.of : q[1] = x /\ p = <<r, q[2]>>
      BY <2>4
    <3> QED
      BY <2>8, <3>1 DEF Models, IsOf, Gives, Alike
  <2>10. IsOf(T, H)
    BY <2>2, <2>7, <2>8, <2>9 DEF Models, IsOf
  <2>11. IsOpen(T, H)
    BY <2>2, <2>7 DEF Models, IsOpen, Gives, Alike
  <2>12. IsHeld(T, H) /\ IsDead(T, H)
    BY <2>2, <2>7, <2>8 DEF Models, IsHeld, IsDead
  <2> QED
    BY <2>2, <2>5, <2>7, <2>10, <2>11, <2>12, ModelsLike
<1> QED
  BY <1>1, <1>2

-----------------------------------------------------------------------------
(* Registers that are taken and freed.                                     *)

LEMMA ModelsAfter ==
  ASSUME NEW S, NEW F, Models(S, F), NEW T, Fixed(S, T), Good(T, F.last, {}), NEW G, Like(F, G),
         IsOf(T, G), IsHeld(T, G), IsOpen(T, G), IsDead(T, G)
  PROVE  Models(T, G)
<1>1. \A x : At(T, x) = At(S, x)
  BY DEF Fixed, At
<1>2. Suits(T, G) /\ Exits(T, G)
  BY DEF Models, Like, Suits, Exits, Fixed
<1>3. Holding(T, G)
  BY <1>1 DEF Models, Like, Holding, Fixed, Managed
<1> QED
  BY <1>2, <1>3 DEF Models, Like

LEMMA ModelsFreed ==
  ASSUME NEW S, NEW F, Models(S, F), NEW i \in Values(F), NEW T, T = FreeResourcesOf(S, i)
  PROVE  Models(T, Freed(F, i))
<1>1. i \in Ins(S)
  BY ValuesAre
<1>2. /\ Good(T, F.last, {}) /\ Fixed(S, T) /\ ~Extant(T, i) /\ S.free \subseteq T.free
      /\ \A j \in Ins(S) \ {i} : T.reg[j] = S.reg[j] /\ T.ar[j] = S.ar[j]
      /\ S.reg[i] # NULL => S.reg[i] \in T.free
  BY <1>1, FreeGood DEF Models
<1>3. PICK G : G = Freed(F, i)
  OBVIOUS
<1>4. PICK open : open = {p[1] : p \in {q \in F.of : q[2] = i}}
  OBVIOUS
<1>5. G = [F EXCEPT !.of = {p \in @ : p[2] # i}, !.held = @ \ {i}, !.dead = @ \cup {i},
                    !.open = @ \cup open]
  BY <1>3, <1>4 DEF Freed
<1>6. /\ Like(F, G) /\ G.of = {p \in F.of : p[2] # i} /\ G.held = F.held \ {i}
      /\ G.dead = F.dead \cup {i} /\ G.open = F.open \cup open
  BY <1>5 DEF Models, Suits, Like, Facts
<1>7. Values(G) = Values(F) /\ Ins(T) = Ins(S) /\ \A x : At(T, x) = At(S, x)
  BY <1>2, <1>6 DEF Like, Values, Fixed, Ins, At
<1>8. IsOf(T, G)
  BY <1>2, <1>6, <1>7, ValuesAre DEF Models, IsOf
<1>9. IsHeld(T, G)
  BY <1>2, <1>6, <1>7, ValuesAre DEF Models, IsHeld
<1>10. IsOpen(T, G)
  <2>1. ASSUME NEW x \in open PROVE At(S, x) \in T.free
    <3>1. PICK p \in F.of : p[2] = i /\ x = p[1]
      BY <1>4, <2>1
    <3>2. S.reg[i] # NULL /\ S.reg[i] = At(S, x)
      BY <3>1 DEF Models, IsOf
    <3> QED
      BY <1>2, <3>2
  <2> QED
    BY <1>2, <1>6, <1>7, <2>1 DEF Models, IsOpen
<1>11. IsDead(T, G)
  BY <1>2, <1>6, <1>7 DEF Models, IsDead, Extant
<1> QED
  BY <1>2, <1>3, <1>6, <1>8, <1>9, <1>10, <1>11, ModelsAfter

LEMMA ModelsTaken ==
  ASSUME NEW S, NEW F, Models(S, F), NEW i \in Values(F), S.reg[i] = NULL,
         NEW x \in F.open, Among(F, x) \subseteq Class(F, i),
         NEW T, T = TakeReg(S, i, At(S, x))
  PROVE  Models(T, Taken(F, i, x))
<1>1. i \in Ins(S) /\ i <= F.last /\ Class(F, i) = ClassOf(S, i)
  BY ValuesAre
<1>2. PICK r \in Managed(S) : r = At(S, x) /\ r \in S.free
  BY DEF Models, IsOpen, Good, IsState
<1>3. r \in Among(F, x) /\ r \in ClassOf(S, i)
  BY <1>1, <1>2, AtIs
<1>4. /\ Good(T, F.last, {}) /\ Keeps(S, T, {i}, {r}) /\ T.reg[i] = r
      /\ \A j \in Ins(S) \ {i} : T.reg[j] = S.reg[j]
  BY <1>1, <1>2, <1>3, TakeRegGood DEF Models, Finds
<1>5. /\ Fixed(S, T) /\ \A q \in S.free : q # r => q \in T.free
      /\ Ins(T) = Ins(S) /\ \A y : At(T, y) = At(S, y)
  BY <1>4 DEF Keeps, Fixed, Ins, At
<1>6. PICK G : G = Taken(F, i, x)
  OBVIOUS
<1>7. /\ Like(F, G) /\ G.of = F.of \cup {<<x, i>>} /\ G.held = F.held /\ G.dead = F.dead \ {i}
      /\ G.open = {y \in F.open : Apart(F, x, y)}
  BY <1>6 DEF Taken, Models, Suits, Like, Facts
<1>8. Values(G) = Values(F)
  BY <1>7 DEF Like, Values
<1>9. r # NULL
  BY <1>2, NotNull DEF Models, Good
<1>10. IsOf(T, G)
  <2> SUFFICES ASSUME NEW p \in G.of
               PROVE  /\ p = <<p[1], p[2]>> /\ p[2] \in Values(F)
                      /\ T.reg[p[2]] # NULL /\ T.reg[p[2]] = At(S, p[1])
    BY <1>5, <1>8 DEF IsOf
  <2>1. CASE p = <<x, i>>
    BY <1>2, <1>4, <1>9, <2>1
  <2>2. CASE p \in F.of
    <3>1. /\ p = <<p[1], p[2]>> /\ p[2] \in Values(F)
          /\ S.reg[p[2]] # NULL /\ S.reg[p[2]] = At(S, p[1])
      BY <2>2 DEF Models, IsOf
    <3>2. p[2] \in Ins(S) \ {i}
      BY <3>1, ValuesAre
    <3> QED
      BY <1>4, <3>1, <3>2
  <2> QED
    BY <1>7, <2>1, <2>2
<1>11. IsHeld(T, G)
  <2> SUFFICES ASSUME NEW j \in F.held PROVE j \in Values(F) /\ T.reg[j] # NULL
    BY <1>7, <1>8 DEF IsHeld
  <2>1. j \in Values(F) /\ S.reg[j] # NULL
    BY DEF Models, IsHeld
  <2>2. j \in Ins(S) \ {i}
    BY <2>1, ValuesAre
  <2> QED
    BY <1>4, <2>1, <2>2
<1>12. IsOpen(T, G)
  <2> SUFFICES ASSUME NEW y \in F.open, Apart(F, x, y) PROVE At(S, y) \in T.free
    BY <1>5, <1>7 DEF IsOpen
  <2>1. At(S, y) \in S.free /\ At(S, y) \in Managed(S)
    BY DEF Models, IsOpen, Good, IsState
  <2>2. At(S, y) \in Among(F, y)
    BY <2>1, AtIs
  <2>3. At(S, y) # r
    BY <1>3, <2>2 DEF Apart
  <2> QED
    BY <1>5, <2>1, <2>3
<1>13. IsDead(T, G)
  BY <1>4, <1>5, <1>7 DEF Models, IsDead, Keeps
<1> QED
  BY <1>4, <1>5, <1>6, <1>7, <1>10, <1>11, <1>12, <1>13, ModelsAfter

\* Whatever becomes of the registers.
LEMMA ModelsNothing ==
  ASSUME NEW S, NEW F, Models(S, F), NEW T, Fixed(S, T), Good(T, F.last, {})
  PROVE  Models(T, NothingKnown(F))
<1>1. PICK G : G = NothingKnown(F)
  OBVIOUS
<1>2. Like(F, G) /\ G.of = {} /\ G.held = {} /\ G.open = {} /\ G.dead = {}
  BY <1>1 DEF NothingKnown, Models, Suits, Like, Facts
<1>3. IsOf(T, G) /\ IsHeld(T, G) /\ IsOpen(T, G) /\ IsDead(T, G)
  BY <1>2 DEF IsOf, IsHeld, IsOpen, IsDead
<1> QED
  BY <1>1, <1>2, <1>3, ModelsAfter

LEMMA ModelsVacant ==
  ASSUME NEW S, NEW F, Models(S, F), NEW T, Fixed(S, T), Good(T, F.last, {}), T.free = Managed(S)
  PROVE  Models(T, Vacant(F))
<1>1. PICK G : G = NothingKnown(F)
  OBVIOUS
<1>2. Models(T, G)
  BY <1>1, ModelsNothing
<1>3. PICK H : H = Vacant(F)
  OBVIOUS
<1>4. H = [G EXCEPT !.open = F.mach.managed]
  BY <1>1, <1>3 DEF Vacant
<1>5. /\ Like(G, H) /\ H.of = G.of /\ H.held = G.held /\ H.dead = G.dead
      /\ H.open = F.mach.managed
  BY <1>2, <1>4 DEF Models, Suits, Like, Facts
<1>6. Managed(T) = Managed(S) /\ F.mach.managed = Managed(S)
  BY ValuesAre DEF Fixed, Managed
<1>7. IsOpen(T, H)
  BY <1>2, <1>5, <1>6, AtIs DEF IsOpen
<1>8. IsOf(T, H) /\ IsHeld(T, H) /\ IsDead(T, H)
  BY <1>2, <1>5 DEF Models, IsOf, IsHeld, IsDead, Values, Like
<1> QED
  BY <1>2, <1>3, <1>5, <1>7, <1>8, ModelsLike

\* Steps jumped over, and whether the step is within an exit.
Moved(F, G) ==
  /\ DOMAIN G = Facts /\ G.mach = F.mach /\ G.kind = F.kind /\ G.last = F.last
  /\ G.of = F.of /\ G.held = F.held /\ G.open = F.open /\ G.in = F.in /\ G.dead = F.dead

LEMMA ModelsMoved ==
  ASSUME NEW S, NEW F, Models(S, F), NEW T, Alike(S, T), T.env = S.env,
         NEW G, Moved(F, G), G.to = T.to, Exits(T, G)
  PROVE  Models(T, G)
<1>1. /\ Ins(T) = Ins(S) /\ Managed(T) = Managed(S) /\ \A x : At(T, x) = At(S, x)
      /\ Values(G) = Values(F)
  BY DEF Alike, Moved, Ins, Managed, At, Values
<1>2. Good(T, G.last, {})
  BY AlikeGood DEF Models, Moved
<1>3. Suits(T, G)
  BY DEF Models, Moved, Suits, Alike
<1>4. Holding(T, G)
  BY <1>1 DEF Models, Moved, Holding
<1>5. IsOf(T, G) /\ IsHeld(T, G) /\ IsOpen(T, G) /\ IsDead(T, G)
  BY <1>1 DEF Models, Moved, Alike, IsOf, IsHeld, IsOpen, IsDead, Extant
<1> QED
  BY <1>2, <1>3, <1>4, <1>5 DEF Models

LEMMA ModelsJump ==
  ASSUME NEW S, NEW F, Models(S, F), NEW m,
         NEW T, T = [S EXCEPT !.to = m], NEW G, G = [F EXCEPT !.to = m]
  PROVE  Models(T, G)
<1>1. Alike(S, T) /\ T.env = S.env /\ T.saved = S.saved /\ T.to = m
  BY DEF Models, Good, IsState, Fields, Alike
<1>2. Moved(F, G) /\ G.to = m /\ G.exit = F.exit
  BY DEF Models, Suits, Facts, Moved
<1>3. Exits(T, G)
  BY <1>1, <1>2 DEF Models, Exits, Alike, Moved
<1> QED
  BY <1>1, <1>2, <1>3, ModelsMoved

LEMMA ModelsEnter ==
  ASSUME NEW S, NEW F, Models(S, F), NEW T, T = EnterExit(S)
  PROVE  Models(T, [Vacant(F) EXCEPT !.exit = TRUE])
<1>1. PICK U : U = Vacated(S)
  OBVIOUS
<1>2. Good(U, F.last, {}) /\ Fixed(S, U) /\ U.free = Managed(S)
  BY <1>1, VacatedGood DEF Vacated, Models
<1>3. PICK H : H = Vacant(F)
  OBVIOUS
<1>4. Models(U, H)
  BY <1>2, <1>3, ModelsVacant
<1>5. H.last = F.last
  BY <1>3 DEF Vacant, NothingKnown, Models, Suits, Facts
<1>6. T = [U EXCEPT !.needs = {}, !.saved = <<S>>]
  BY <1>1 DEF EnterExit
<1>7. Alike(U, T) /\ T.env = U.env /\ T.to = U.to /\ T.saved = <<S>>
  BY <1>4, <1>6 DEF Models, Good, IsState, Fields, Alike
<1>8. PICK G : G = [H EXCEPT !.exit = TRUE]
  OBVIOUS
<1>9. Moved(H, G) /\ G.to = H.to
  BY <1>4, <1>8 DEF Models, Suits, Facts, Moved
<1>10. Exits(T, G)
  <2>1. T.saved[1] = S /\ S.mach = T.mach /\ S.kind = T.kind /\ G.last = F.last
    BY <1>2, <1>5, <1>7, <1>9 DEF Fixed, Alike, Moved
  <2> QED
    BY <2>1 DEF Models, Exits
<1>11. G.to = T.to
  BY <1>4, <1>7, <1>9 DEF Models, Suits
<1> QED
  BY <1>3, <1>4, <1>7, <1>8, <1>9, <1>10, <1>11, ModelsMoved

LEMMA ModelsLeave ==
  ASSUME NEW S, NEW F, Models(S, F), F.exit, NEW T \in LeaveExit(S)
  PROVE  Models(T, [NothingKnown(F) EXCEPT !.exit = FALSE])
<1>1. PICK E : E = S.saved[1]
  OBVIOUS
<1>2. PICK U \in Intersect(S, E) :
        T = [U EXCEPT !.needs = @ \cup E.needs, !.saved = <<>>]
  BY <1>1 DEF LeaveExit
<1>3. Good(E, F.last, {}) /\ E.mach = S.mach /\ E.kind = S.kind /\ F.last \in Nat
  BY <1>1 DEF Models, Exits, Suits
<1>4. Good(U, F.last, {}) /\ Fixed(S, U)
  BY <1>2, <1>3, IntersectGood DEF Models
<1>5. PICK H : H = NothingKnown(F)
  OBVIOUS
<1>6. Models(U, H)
  BY <1>4, <1>5, ModelsNothing
<1>7. Alike(U, T) /\ T.env = U.env /\ T.to = U.to
  BY <1>2, <1>6 DEF Models, Good, IsState, Fields, Alike
<1>8. PICK G : G = [H EXCEPT !.exit = FALSE]
  OBVIOUS
<1>9. Moved(H, G) /\ G.to = H.to /\ ~G.exit
  BY <1>6, <1>8 DEF Models, Suits, Facts, Moved
<1>10. G.to = T.to /\ Exits(T, G)
  BY <1>6, <1>7, <1>9 DEF Models, Suits, Exits
<1> QED
  BY <1>5, <1>6, <1>7, <1>8, <1>9, <1>10, ModelsMoved

-----------------------------------------------------------------------------
(* One step of a script: what is known after it is true.                   *)

Covers(S, F, s, n) == \A T \in Do(S, s, n) : \E G \in After(F, s, n) : Models(T, G)

LEMMA IsFields ==
  ASSUME NEW S, NEW F, Models(S, F)
  PROVE  DOMAIN S = Fields
BY DEF Models, Good, IsState

\* Steps that only emit code.
LEMMA EmitStep ==
  ASSUME NEW S, NEW F, Models(S, F), NEW s, NEW n,
         s[1] \in {"op", "trash", "protect", "unprotect", "unreached"}
  PROVE  Covers(S, F, s, n)
<1> SUFFICES ASSUME NEW T \in Do(S, s, n) PROVE Models(T, F)
  BY DEF After, Covers
<1>1. DOMAIN S = Fields
  BY IsFields
<1>2. CASE s[1] = "op"
  <2>1. T = Emit(S, s[2], s[3], s[4])
    BY <1>2 DEF Do
  <2> QED
    BY <1>1, <2>1, EmitQuiet, ModelsQuiet
<1>3. CASE s[1] = "trash"
  <2>1. PICK locs : T = Clobber(S, locs)
    BY <1>3 DEF Do
  <2> QED
    BY <1>1, <2>1, ClobberQuiet, ModelsQuiet
<1>4. CASE s[1] \in {"protect", "unprotect"}
  <2>1. PICK m : T = [S EXCEPT !.protected = m]
    BY <1>4 DEF Do
  <2>2. Quiet(S, T)
    BY <1>1, <2>1 DEF Quiet, Fixed, Fields
  <2> QED
    BY <2>2, ModelsQuiet
<1>5. CASE s[1] = "unreached"
  <2>1. T = [S EXCEPT !.needs = {}]
    BY <1>5 DEF Do
  <2> QED
    BY <1>1, <2>1, NeedsQuiet, ModelsQuiet
<1> QED
  BY <1>2, <1>3, <1>4, <1>5

LEMMA JumpStep ==
  ASSUME NEW S, NEW F, Models(S, F), NEW s, NEW n, s[1] \in {"jump", "fork"}
  PROVE  Covers(S, F, s, n)
<1> SUFFICES ASSUME NEW T \in Do(S, s, n) PROVE \E G \in After(F, s, n) : Models(T, G)
  BY DEF Covers
<1>1. CASE s[1] = "jump"
  <2>1. T = [S EXCEPT !.to = n + s[2]] /\ After(F, s, n) = {[F EXCEPT !.to = n + s[2]]}
    BY <1>1 DEF Do, After
  <2> QED
    BY <2>1, ModelsJump
<1>2. CASE s[1] = "fork"
  <2>1. PICK m \in s[2] : T = [S EXCEPT !.to = n + m]
    BY <1>2 DEF Do
  <2>2. [F EXCEPT !.to = n + m] \in After(F, s, n)
    BY <1>2 DEF After
  <2> QED
    BY <2>1, <2>2, ModelsJump
<1> QED
  BY <1>1, <1>2

LEMMA UnlessStep ==
  ASSUME NEW S, NEW F, Models(S, F), NEW s, Follows(F, s), NEW n, s[1] = "unless"
  PROVE  Covers(S, F, s, n)
<1> SUFFICES ASSUME NEW T \in Do(S, s, n) PROVE \E G \in After(F, s, n) : Models(T, G)
  BY DEF Covers
<1>1. PICK over : over = [F EXCEPT !.to = n + s[3]]
  OBVIOUS
<1>2. T = IF Holds(S, s[2]) THEN S ELSE [S EXCEPT !.to = n + s[3]]
  BY DEF Do
<1>3. After(F, s, n) =
        CASE s[2][1] # "inreg" -> {F, over}
          [] s[2][1] = "inreg" /\ s[2][2] \in Held(F) -> {F}
          [] OTHER -> {[F EXCEPT !.held = @ \cup {s[2][2]}], over}
  BY <1>1 DEF After
<1>4. CASE T = [S EXCEPT !.to = n + s[3]] /\ T # S
  <2>1. Models(T, over)
    BY <1>1, <1>4, ModelsJump
  <2>2. ~(s[2][1] = "inreg" /\ s[2][2] \in Held(F))
    <3> SUFFICES ASSUME s[2][1] = "inreg", s[2][2] \in Held(F) PROVE FALSE
      OBVIOUS
    <3>1. Holds(S, s[2])
      BY HeldIs DEF Holds
    <3> QED
      BY <1>2, <1>4, <3>1
  <2> QED
    BY <1>3, <2>1, <2>2
<1>5. CASE T = S
  <2>1. CASE s[2][1] # "inreg"
    BY <1>3, <1>5, <2>1
  <2>2. CASE s[2][1] = "inreg" /\ s[2][2] \in Held(F)
    BY <1>3, <1>5, <2>2
  <2>3. CASE s[2][1] = "inreg" /\ s[2][2] \notin Held(F)
    <3>1. PICK i : i = s[2][2]
      OBVIOUS
    <3>2. i \in Values(F)
      BY <2>3, <3>1 DEF Follows
    <3>3. CASE S.reg[i] # NULL
      <4>1. PICK G : G = [F EXCEPT !.held = @ \cup {i}]
        OBVIOUS
      <4>2. /\ Like(F, G) /\ G.of = F.of /\ G.held = F.held \cup {i}
            /\ G.open = F.open /\ G.dead = F.dead
        BY <4>1 DEF Models, Suits, Like, Facts
      <4>3. IsOf(S, G) /\ IsHeld(S, G) /\ IsOpen(S, G) /\ IsDead(S, G)
        BY <3>2, <3>3, <4>2 DEF Models, IsOf, IsHeld, IsOpen, IsDead, Values, Like
      <4> QED
        BY <1>3, <1>5, <2>3, <3>1, <4>1, <4>2, <4>3, ModelsLike
    <3>4. CASE S.reg[i] = NULL
      <4>1. ~Holds(S, s[2])
        BY <2>3, <3>1, <3>4 DEF Holds
      <4>2. T = [S EXCEPT !.to = n + s[3]]
        BY <1>2, <4>1
      <4> QED
        BY <1>1, <1>3, <2>3, <4>2, ModelsJump
    <3> QED
      BY <3>3, <3>4
  <2> QED
    BY <2>1, <2>2, <2>3
<1> QED
  BY <1>2, <1>4, <1>5

\* A value is found in some registers, and a variable is given the one it is in.
LEMMA AllowedIs ==
  ASSUME NEW S, NEW allow, NEW but
  PROVE  Some(S, Allowed(S, allow, but), allow, but) /\ Allowed(S, allow, but) \subseteq allow
BY DEF Some, Allowed

LEMMA FoundModels ==
  ASSUME NEW S, NEW F, Models(S, F), NEW i \in Values(F), NEW regs, regs \subseteq Class(F, i),
         NEW but, NEW some, Some(S, some, regs, but), NEW T \in FindRegFor(S, i, some)
  PROVE  Models(T, Found(F, i, regs, but)) /\ T.reg[i] # NULL /\ T.reg[i] \in regs
<1>1. i \in Ins(S) /\ i <= F.last /\ some \subseteq ClassOf(S, i) /\ some \subseteq regs
  BY ValuesAre DEF Some
<1>2. Good(T, F.last, {}) /\ Keeps(S, T, {i}, some) /\ T.reg[i] \in some
  BY <1>1, FindRegGood DEF Models, Finds
<1>3. NULL \notin ClassOf(S, i)
  BY NotNull DEF Models, Good, ClassOf
<1> QED
  BY <1>1, <1>2, <1>3, ModelsFound

LEMMA FoundSame ==
  ASSUME NEW F, DOMAIN F = Facts, NEW i, NEW regs, NEW but, NEW G, G = Found(F, i, regs, but)
  PROVE  /\ Like(F, G) /\ G.held = {} /\ G.dead = F.dead \ {i}
         /\ G.of = {p \in F.of : Kept(F, p, regs, but) /\ p[2] # i}
         /\ G.open = {x \in F.open : Outside(F, x, regs, but)}
<1>1. PICK of : of = {p \in F.of : Kept(F, p, regs, but)}
  OBVIOUS
<1>2. PICK E : E = [F EXCEPT !.held = {}, !.of = of]
  OBVIOUS
<1>3. G = [E EXCEPT !.of = {p \in @ : p[2] # i}, !.dead = @ \ {i},
                    !.open = {x \in @ : Outside(F, x, regs, but)}]
  BY <1>1, <1>2 DEF Evicted, Kept, Found
<1>4. /\ DOMAIN E = Facts /\ E.mach = F.mach /\ E.kind = F.kind /\ E.to = F.to
      /\ E.last = F.last /\ E.in = F.in /\ E.open = F.open /\ E.dead = F.dead
      /\ E.exit = F.exit /\ E.held = {} /\ E.of = of
  BY <1>2 DEF Facts
<1> QED
  BY <1>1, <1>3, <1>4 DEF Facts, Like

\* find, result and prep.
LEMMA NamedModels ==
  ASSUME NEW S, NEW F, Models(S, F), NEW i \in Values(F), NEW regs, regs \subseteq Class(F, i),
         NEW but, NEW some, Some(S, some, regs, but), NEW r, r \notin Managed(S),
         NEW U \in FindRegFor(S, i, some), NEW V, Quiet(U, V),
         NEW T, Gives(V, T, r, V.reg[i])
  PROVE  Models(T, Named(Found(F, i, regs, but), r, i, regs))
<1>1. PICK G : G = Found(F, i, regs, but)
  OBVIOUS
<1>2. Models(U, G) /\ U.reg[i] # NULL /\ U.reg[i] \in regs
  BY <1>1, FoundModels
<1>3. Models(V, G) /\ V.reg[i] = U.reg[i]
  BY <1>2, ModelsQuiet DEF Quiet
<1>4. Like(F, G)
  BY <1>1, FoundSame DEF Models, Suits
<1>5. Values(G) = Values(F) /\ Managed(V) = Managed(S)
  BY <1>3, <1>4 DEF Like, Values, Models, Suits, Managed
<1> QED
  BY <1>1, <1>2, <1>3, <1>5, ModelsNamed

\* A result in a stack register it was not expected in is popped; it is stored.
LEMMA ResultQuiet ==
  ASSUME NEW S, NEW r, NEW i, NEW some, NEW T \in NameResult(S, r, i, some),
         \A U \in FindRegFor(S, i, some) : DOMAIN U = Fields
  PROVE  \E U \in FindRegFor(S, i, some) : \E V : Quiet(U, V) /\ T = UseAs(V, r, i)
<1> DEFINE popped(U) == IF S.reg[i] # U.reg[i] /\ U.reg[i] \in S.mach.stack
                          THEN Write(U, U.reg[i], Empty, {<<U.reg[i], i>>}) ELSE U
<1>1. PICK U \in FindRegFor(S, i, some) : T = UseAs(AsmMaybeSpill(popped(U), i), r, i)
  BY DEF NameResult
<1>2. PICK P : P = popped(U)
  OBVIOUS
<1>3. Quiet(U, P) /\ DOMAIN P = Fields
  <2>1. Quiet(U, U)
    BY DEF Quiet, Fixed
  <2>2. DOMAIN U = Fields
    OBVIOUS
  <2>3. Quiet(U, P)
    BY <1>2, <2>1, <2>2, WriteQuiet
  <2> QED
    BY <2>2, <2>3 DEF Quiet, Fixed
<1>4. PICK V : V = AsmMaybeSpill(P, i)
  OBVIOUS
<1>5. Quiet(U, V)
  BY <1>3, <1>4, SpillQuiet, QuietQuiet
<1> QED
  BY <1>1, <1>2, <1>4, <1>5

LEMMA FindStep ==
  ASSUME NEW S, NEW F, Models(S, F), NEW s, Follows(F, s), NEW n,
         s[1] \in {"result", "find", "prep", "base"}
  PROVE  Covers(S, F, s, n)
<1> SUFFICES ASSUME NEW T \in Do(S, s, n) PROVE \E G \in After(F, s, n) : Models(T, G)
  BY DEF Covers
<1>1. PICK r, i, regs, but : r = s[2] /\ i = s[3] /\ regs = s[4] /\ but = s[5]
  OBVIOUS
<1>2. r \notin Managed(S) /\ i \in Values(F) /\ regs \subseteq Class(F, i)
  BY <1>1, ValuesAre DEF Follows
<1>3. PICK some : some = Allowed(S, regs, but)
  OBVIOUS
<1>4. Some(S, some, regs, but) /\ some \subseteq regs
  BY <1>3, AllowedIs
<1>5. \A U \in FindRegFor(S, i, some) :
        Models(U, Found(F, i, regs, but)) /\ DOMAIN U = Fields
  BY <1>2, <1>4, FoundModels, IsFields
<1>6. CASE s[1] = "result"
  <2>1. T \in NameResult(S, r, i, some)
    BY <1>1, <1>3, <1>6 DEF Do
  <2>2. PICK U \in FindRegFor(S, i, some) : \E V : Quiet(U, V) /\ T = UseAs(V, r, i)
    BY <1>5, <2>1, ResultQuiet
  <2>3. PICK V : Quiet(U, V) /\ T = UseAs(V, r, i)
    BY <2>2
  <2>4. Gives(V, T, r, V.reg[i])
    BY <1>5, <2>3, UseGives DEF Quiet, Fixed
  <2>5. Models(T, Named(Found(F, i, regs, but), r, i, regs))
    BY <1>2, <1>4, <2>3, <2>4, NamedModels
  <2> QED
    BY <1>1, <1>6, <2>5 DEF After
<1>7. CASE s[1] = "find"
  <2>1. PICK U \in FindRegFor(S, i, some) : T = UseAs(U, r, i)
    BY <1>1, <1>3, <1>7 DEF Do, NameReg
  <2>2. Gives(U, T, r, U.reg[i]) /\ Quiet(U, U)
    BY <1>5, <2>1, UseGives DEF Quiet, Fixed
  <2>3. Models(T, Named(Found(F, i, regs, but), r, i, regs))
    BY <1>2, <1>4, <2>2, NamedModels
  <2> QED
    BY <1>1, <1>7, <2>3 DEF After
<1>8. CASE s[1] = "prep"
  <2>1. PICK U \in FindRegFor(S, i, some) : T = FreeResourcesOf(AsmMaybeSpill(UseAs(U, r, i), i), i)
    BY <1>1, <1>3, <1>8 DEF Do, NamePrep
  <2>2. PICK V : V = UseAs(U, r, i)
    OBVIOUS
  <2>3. Gives(U, V, r, U.reg[i]) /\ Quiet(U, U)
    BY <1>5, <2>2, UseGives DEF Quiet, Fixed
  <2>4. PICK G : G = Named(Found(F, i, regs, but), r, i, regs)
    OBVIOUS
  <2>5. Models(V, G)
    BY <1>2, <1>4, <2>3, <2>4, NamedModels
  <2>6. PICK W : W = AsmMaybeSpill(V, i)
    OBVIOUS
  <2>7. Models(W, G)
    BY <2>5, <2>6, IsFields, SpillQuiet, ModelsQuiet
  <2>8. G.last = F.last
    <3>1. PICK H : H = Found(F, i, regs, but)
      OBVIOUS
    <3>2. Like(F, H)
      BY <3>1, FoundSame DEF Models, Suits
    <3>3. PICK K : K = Given(H, r, regs)
      OBVIOUS
    <3>4. DOMAIN K = Facts /\ K.last = H.last
      BY <3>2, <3>3, GivenIs DEF Like
    <3>5. PICK of : G = [K EXCEPT !.of = @ \cup of]
      BY <2>4, <3>1, <3>3 DEF Named
    <3> QED
      BY <3>2, <3>4, <3>5 DEF Like, Facts
  <2>9. Models(T, Freed(G, i))
    BY <1>2, <2>1, <2>2, <2>6, <2>7, <2>8, ModelsFreed DEF Values
  <2> QED
    BY <1>1, <1>8, <2>4, <2>9 DEF After
<1>9. CASE s[1] = "base"
  <2>1. T \in GetBaseReg(S, r, i, some)
    BY <1>1, <1>3, <1>9 DEF Do
  <2>2. PICK G : G = Found(F, i, regs, but)
    OBVIOUS
  <2>3. \E V, loc : Models(V, G) /\ Gives(V, T, r, loc)
    <3>1. CASE IsAlloc(S, i)
      <4>1. PICK V : V = FindMemFor(S, i)
        OBVIOUS
      <4>2. i \in Ins(S) /\ i <= F.last
        BY <1>2, ValuesAre
      <4>3. Good(V, F.last, {}) /\ Keeps(S, V, {i}, {})
        <5>1. /\ Good(V, F.last, {}) /\ Fixed(S, V) /\ V.free = S.free /\ V.reg = S.reg
              /\ \A j \in Ins(S) \ {i} : V.ar[j] = S.ar[j]
          BY <4>1, <4>2, FindMemForGood DEF Models
        <5> QED
          BY <5>1 DEF Keeps, Extant
      <4>4. Some(S, {}, regs, but)
        BY DEF Some
      <4>5. Models(V, G)
        BY <2>2, <4>3, <4>4, ModelsFound
      <4>6. T = Name(V, r, S.mach.fp)
        BY <2>1, <3>1, <4>1 DEF GetBaseReg
      <4> QED
        BY <4>5, <4>6, NameGives, IsFields
    <3>2. CASE ~IsAlloc(S, i)
      <4>1. PICK V \in FindRegFor(S, i, some) : T = UseAs(V, r, i)
        BY <2>1, <3>2 DEF GetBaseReg, NameReg
      <4> QED
        BY <1>5, <2>2, <4>1, UseGives
    <3> QED
      BY <3>1, <3>2
  <2>4. PICK V, loc : Models(V, G) /\ Gives(V, T, r, loc)
    BY <2>3
  <2>5. Managed(V) = Managed(S)
    BY <2>2, <2>4, FoundSame DEF Models, Suits, Like, Managed
  <2>6. Models(T, Anything(G, r))
    BY <1>2, <2>4, <2>5, ModelsAnything
  <2> QED
    BY <1>1, <1>9, <2>2, <2>6 DEF After
<1> QED
  BY <1>6, <1>7, <1>8, <1>9

LEMMA AnythingTwice ==
  ASSUME NEW S, NEW F, Models(S, F), NEW ra, NEW rb, ra \notin Managed(S), rb \notin Managed(S),
         NEW la, NEW T, Gives(S, T, ra, la), NEW lb, NEW U, Gives(T, U, rb, lb)
  PROVE  Models(U, Anything(Anything(F, ra), rb))
<1>1. PICK G : G = Anything(F, ra)
  OBVIOUS
<1>2. Models(T, G) /\ Managed(T) = Managed(S)
  BY <1>1, ModelsAnything DEF Gives, Alike, Managed
<1> QED
  BY <1>1, <1>2, ModelsAnything

\* In which order two values were found makes no difference to what is known.
LEMMA FoundTwice ==
  ASSUME NEW S, NEW F, DOMAIN F = Facts, NEW a, NEW alla, NEW b, NEW allb,
         Models(S, Found(Found(F, b, allb, {}), a, alla, {}))
  PROVE  Models(S, Found(Found(F, a, alla, {}), b, allb, {}))
<1>1. PICK A : A = Found(F, a, alla, {})
  OBVIOUS
<1>2. PICK B : B = Found(F, b, allb, {})
  OBVIOUS
<1>3. PICK AB : AB = Found(A, b, allb, {})
  OBVIOUS
<1>4. PICK BA : BA = Found(B, a, alla, {})
  OBVIOUS
<1>5. /\ Like(F, A) /\ A.held = {} /\ A.dead = F.dead \ {a}
      /\ A.of = {p \in F.of : Kept(F, p, alla, {}) /\ p[2] # a}
      /\ A.open = {x \in F.open : Outside(F, x, alla, {})}
  BY <1>1, FoundSame
<1>6. /\ Like(F, B) /\ B.held = {} /\ B.dead = F.dead \ {b}
      /\ B.of = {p \in F.of : Kept(F, p, allb, {}) /\ p[2] # b}
      /\ B.open = {x \in F.open : Outside(F, x, allb, {})}
  BY <1>2, FoundSame
<1>7. /\ Like(A, AB) /\ AB.held = {} /\ AB.dead = A.dead \ {b}
      /\ AB.of = {p \in A.of : Kept(A, p, allb, {}) /\ p[2] # b}
      /\ AB.open = {x \in A.open : Outside(A, x, allb, {})}
  BY <1>3, <1>5, FoundSame DEF Like
<1>8. /\ Like(B, BA) /\ BA.held = {} /\ BA.dead = B.dead \ {a}
      /\ BA.of = {p \in B.of : Kept(B, p, alla, {}) /\ p[2] # a}
      /\ BA.open = {x \in B.open : Outside(B, x, alla, {})}
  BY <1>4, <1>6, FoundSame DEF Like
<1>9. ASSUME NEW G, Like(F, G), NEW x, NEW regs PROVE Outside(G, x, regs, {}) <=> Outside(F, x, regs, {})
  BY <1>9 DEF Like, Outside, Among
<1>10. ASSUME NEW G, Like(F, G), NEW p, NEW regs PROVE Kept(G, p, regs, {}) <=> Kept(F, p, regs, {})
  BY <1>9, <1>10 DEF Like, Kept, Safe
<1>11. Like(BA, AB)
  BY <1>5, <1>6, <1>7, <1>8 DEF Like
<1>12. AB.of \subseteq BA.of /\ AB.held = {} /\ AB.open \subseteq BA.open /\ AB.dead \subseteq BA.dead
  BY <1>5, <1>6, <1>7, <1>8, <1>9, <1>10
<1>13. Values(AB) = Values(BA)
  BY <1>11 DEF Like, Values
<1>14. IsOf(S, AB) /\ IsHeld(S, AB) /\ IsOpen(S, AB) /\ IsDead(S, AB)
  BY <1>2, <1>4, <1>12, <1>13 DEF Models, IsOf, IsHeld, IsOpen, IsDead
<1> QED
  BY <1>1, <1>2, <1>3, <1>4, <1>11, <1>14, ModelsLike

LEMMA Found2Models ==
  ASSUME NEW S, NEW F, Models(S, F), NEW a \in Values(F), NEW b \in Values(F),
         NEW alla, alla \subseteq Class(F, a), NEW allb, allb \subseteq Class(F, b), NEW but,
         NEW somea, Some(S, somea, alla, but), NEW someb, Some(S, someb, allb, but),
         NEW T \in FindRegFor2(S, a, somea, b, someb)
  PROVE  Models(T, Found(Found(F, a, alla, but), b, allb, but))
<1>1. /\ a \in Ins(S) /\ a <= F.last /\ somea \subseteq ClassOf(S, a) /\ F.last \in Nat
      /\ b \in Ins(S) /\ b <= F.last /\ someb \subseteq ClassOf(S, b)
  BY ValuesAre DEF Some
<1>2. PICK U : /\ Good(U, F.last, {}) /\ Keeps(S, U, {a}, somea)
               /\ Good(T, F.last, {}) /\ Keeps(U, T, {b}, someb)
  BY <1>1, FindReg2Good DEF Models
<1>3. PICK G : G = Found(F, a, alla, but)
  OBVIOUS
<1>4. Models(U, G)
  BY <1>2, <1>3, ModelsFound
<1>5. G.last = F.last
  BY <1>3, FoundSame DEF Like, Models, Suits
<1>6. Some(U, someb, allb, but)
  <2>1. \A x : At(U, x) = At(S, x)
    BY <1>2 DEF Keeps, Fixed, At
  <2> QED
    BY <2>1 DEF Some
<1> QED
  BY <1>2, <1>3, <1>4, <1>5, <1>6, ModelsFound

LEMMA Find2Step ==
  ASSUME NEW S, NEW F, Models(S, F), NEW s, Follows(F, s), NEW n, s[1] \in {"find2", "base2"}
  PROVE  Covers(S, F, s, n)
<1> SUFFICES ASSUME NEW T \in Do(S, s, n) PROVE \E G \in After(F, s, n) : Models(T, G)
  BY DEF Covers
<1>1. PICK ra, a, alla, rb, b, allb :
        ra = s[2] /\ a = s[3] /\ alla = s[4] /\ rb = s[5] /\ b = s[6] /\ allb = s[7]
  OBVIOUS
<1>2. /\ ra \notin Managed(S) /\ rb \notin Managed(S) /\ a \in Values(F) /\ b \in Values(F)
      /\ alla \subseteq Class(F, a) /\ allb \subseteq Class(F, b)
  BY <1>1, ValuesAre DEF Follows
<1>3. ASSUME NEW but, NEW somea, Some(S, somea, alla, but), NEW someb, Some(S, someb, allb, but),
             T \in NameReg2(ra, a, rb, b, FindRegFor2(S, a, somea, b, someb))
      PROVE  Models(T, Found2(F, ra, a, alla, rb, b, allb, but))
  <2>1. PICK U \in FindRegFor2(S, a, somea, b, someb) : T = UseAs(UseAs(U, ra, a), rb, b)
    BY <1>3 DEF NameReg2
  <2>2. PICK G : G = Found(Found(F, a, alla, but), b, allb, but)
    OBVIOUS
  <2>3. Models(U, G)
    BY <1>2, <1>3, <2>1, <2>2, Found2Models
  <2>4. PICK V : V = UseAs(U, ra, a)
    OBVIOUS
  <2>5. Gives(U, V, ra, U.reg[a]) /\ DOMAIN V = Fields
    BY <2>3, <2>4, UseGives, IsFields DEF Gives, Alike
  <2>6. Gives(V, T, rb, V.reg[b])
    BY <2>1, <2>4, <2>5, UseGives
  <2>7. Managed(U) = Managed(S)
    <3>1. PICK A : A = Found(F, a, alla, but)
      OBVIOUS
    <3>2. Like(F, A)
      BY <3>1, FoundSame DEF Models, Suits
    <3>3. Like(A, G)
      BY <2>2, <3>1, <3>2, FoundSame DEF Like
    <3> QED
      BY <2>3, <3>2, <3>3 DEF Models, Suits, Like, Managed
  <2> QED
    BY <1>2, <2>2, <2>3, <2>5, <2>6, <2>7, AnythingTwice DEF Found2
<1>4. CASE s[1] = "find2"
  <2>1. T \in NameReg2(ra, a, rb, b, FindRegFor2(S, a, Allowed(S, alla, s[8]),
                                                    b, Allowed(S, allb, s[8])))
    BY <1>1, <1>4 DEF Do
  <2>2. Models(T, Found2(F, ra, a, alla, rb, b, allb, s[8]))
    BY <1>3, <2>1, AllowedIs
  <2> QED
    BY <1>1, <1>4, <2>2 DEF After
<1>5. CASE s[1] = "base2"
  <2>1. Models(T, Found2(F, ra, a, alla, rb, b, allb, {}))
    <3>1. Some(S, alla, alla, {}) /\ Some(S, allb, allb, {})
      BY DEF Some
    <3>2. CASE ~IsAlloc(S, b)
      <4>1. T \in NameReg2(ra, a, rb, b, FindRegFor2(S, a, alla, b, allb))
        BY <1>1, <1>5, <3>2 DEF Do
      <4> QED
        BY <1>3, <3>1, <4>1
    <3>3. CASE IsAlloc(S, b)
      <4>1. PICK U : U = FindMemFor(S, b)
        OBVIOUS
      <4>2. PICK V \in FindRegFor(U, a, alla) : T = Name(UseAs(V, ra, a), rb, S.mach.fp)
        BY <1>1, <1>5, <3>3, <4>1 DEF Do
      <4>3. PICK B : B = Found(F, b, allb, {})
        OBVIOUS
      <4>4. Like(F, B) /\ Values(B) = Values(F) /\ Class(B, a) = Class(F, a)
        <5>1. Like(F, B)
          BY <4>3, FoundSame DEF Models, Suits
        <5> QED
          BY <5>1 DEF Like, Values, Class
      <4>5. Models(U, B)
        <5>1. b \in Ins(S) /\ b <= F.last
          BY <1>2, ValuesAre
        <5>2. /\ Good(U, F.last, {}) /\ Fixed(S, U) /\ U.free = S.free /\ U.reg = S.reg
              /\ \A j \in Ins(S) \ {b} : U.ar[j] = S.ar[j]
          BY <4>1, <5>1, FindMemForGood DEF Models
        <5>3. Keeps(S, U, {b}, {}) /\ Some(S, {}, allb, {})
          BY <5>2 DEF Keeps, Extant, Some
        <5> QED
          BY <4>3, <5>2, <5>3, ModelsFound
      <4>6. Some(U, alla, alla, {})
        BY DEF Some
      <4>7. Models(V, Found(B, a, alla, {}))
        BY <1>2, <4>2, <4>4, <4>5, <4>6, FoundModels
      <4>8. PICK G : G = Found(Found(F, a, alla, {}), b, allb, {})
        OBVIOUS
      <4>9. Models(V, G)
        BY <4>3, <4>7, <4>8, FoundTwice DEF Models, Suits
      <4>10. PICK W : W = UseAs(V, ra, a)
        OBVIOUS
      <4>11. Gives(V, W, ra, V.reg[a]) /\ DOMAIN W = Fields
        BY <4>9, <4>10, UseGives, IsFields DEF Gives, Alike
      <4>12. Gives(W, T, rb, S.mach.fp)
        BY <4>2, <4>10, <4>11, NameGives
      <4>13. Managed(V) = Managed(S)
        <5>1. PICK K : K = Found(B, a, alla, {})
          OBVIOUS
        <5>2. Like(B, K)
          BY <4>4, <5>1, FoundSame DEF Like
        <5> QED
          BY <4>4, <4>7, <5>1, <5>2 DEF Models, Suits, Like, Managed
      <4> QED
        BY <1>2, <4>8, <4>9, <4>11, <4>12, <4>13, AnythingTwice DEF Found2
    <3> QED
      BY <3>2, <3>3
  <2> QED
    BY <1>1, <1>5, <2>1 DEF After
<1> QED
  BY <1>4, <1>5

LEMMA SpecificStep ==
  ASSUME NEW S, NEW F, Models(S, F), NEW s, Follows(F, s), NEW n, s[1] = "specific"
  PROVE  Covers(S, F, s, n)
<1> SUFFICES ASSUME NEW T \in Do(S, s, n) PROVE \E G \in After(F, s, n) : Models(T, G)
  BY DEF Covers
<1>1. PICK i, x, regs : i = s[2] /\ x = s[3] /\ regs = Among(F, x)
  OBVIOUS
<1>2. "w" \notin Managed(S) /\ i \in Values(F) /\ IsRegister(F, x) /\ regs \subseteq Class(F, i)
  BY <1>1, ValuesAre DEF Follows
<1>3. PICK some : some = {At(S, x)}
  OBVIOUS
<1>4. Some(S, some, regs, {})
  BY <1>1, <1>2, <1>3, AtIs DEF Some
<1>5. PICK U \in FindRegFor(S, i, some) : T = UseAs(U, "w", i)
  BY <1>1, <1>3 DEF Do, NameReg
<1>6. DOMAIN U = Fields
  BY <1>2, <1>4, <1>5, FoundModels, IsFields
<1>7. Gives(U, T, "w", U.reg[i]) /\ Quiet(U, U)
  BY <1>5, <1>6, UseGives DEF Quiet, Fixed
<1>8. Models(T, Named(Found(F, i, regs, {}), "w", i, regs))
  BY <1>2, <1>4, <1>5, <1>7, NamedModels
<1> QED
  BY <1>1, <1>8 DEF After

LEMMA SlotStep ==
  ASSUME NEW S, NEW F, Models(S, F), NEW s, Follows(F, s), NEW n, s[1] \in {"mem", "inregor"}
  PROVE  Covers(S, F, s, n)
<1> SUFFICES ASSUME NEW T \in Do(S, s, n) PROVE \E G \in After(F, s, n) : Models(T, G)
  BY DEF Covers
<1>1. PICK r, i : r = s[2] /\ i = s[3]
  OBVIOUS
<1>2. r \notin Managed(S) /\ i \in Values(F) /\ i \in Ins(S) /\ i <= F.last
  BY <1>1, ValuesAre DEF Follows
<1>3. CASE s[1] = "mem"
  <2>1. PICK U : U = FindMemFor(S, i)
    OBVIOUS
  <2>2. T = Name(U, r, Slot(U, i))
    BY <1>1, <1>3, <2>1 DEF Do
  <2>3. /\ Good(U, F.last, {}) /\ Fixed(S, U) /\ U.free = S.free /\ U.reg = S.reg
        /\ \A j \in Ins(S) \ {i} : U.ar[j] = S.ar[j]
    BY <1>2, <2>1, FindMemForGood DEF Models
  <2>4. PICK G : G = [F EXCEPT !.dead = @ \ {i}]
    OBVIOUS
  <2>5. /\ Like(F, G) /\ G.of = F.of /\ G.held = F.held /\ G.open = F.open
        /\ G.dead = F.dead \ {i}
    BY <2>4 DEF Models, Suits, Like, Facts
  <2>6. Values(G) = Values(F) /\ Ins(U) = Ins(S) /\ \A x : At(U, x) = At(S, x)
    BY <2>3, <2>5 DEF Like, Values, Fixed, Ins, At
  <2>7. IsOf(U, G) /\ IsHeld(U, G) /\ IsOpen(U, G)
    BY <2>3, <2>5, <2>6 DEF Models, IsOf, IsHeld, IsOpen
  <2>8. IsDead(U, G)
    BY <2>3, <2>5, <2>6 DEF Models, IsDead, Extant
  <2>9. Models(U, G) /\ Managed(U) = Managed(S)
    BY <2>3, <2>5, <2>7, <2>8, ModelsAfter DEF Fixed, Managed
  <2>10. Gives(U, T, r, Slot(U, i))
    BY <2>2, <2>9, NameGives, IsFields
  <2>11. Models(T, Anything(G, r))
    BY <1>2, <2>9, <2>10, ModelsAnything
  <2> QED
    BY <1>1, <1>3, <2>4, <2>11 DEF After
<1>4. CASE s[1] = "inregor"
  <2>1. PICK y : y = s[4]
    OBVIOUS
  <2>2. T = Name(S, r, IF S.reg[i] # NULL THEN S.reg[i] ELSE At(S, y))
    BY <1>1, <1>4, <2>1 DEF Do
  <2>3. After(F, s, n) = {Named(F, r, i, Class(F, i))} \cup
                           IF i \in Held(F) THEN {} ELSE {Alias(F, r, y)}
    BY <1>1, <1>4, <2>1 DEF After
  <2>4. CASE S.reg[i] # NULL
    <3>1. Gives(S, T, r, S.reg[i])
      BY <2>2, <2>4, NameGives, IsFields
    <3>2. S.reg[i] \in Class(F, i)
      <4>1. PICK q \in Managed(S) : q = S.reg[i]
        BY <1>2, <2>4 DEF Models, Good, IsState
      <4>2. S.active[q] = i /\ i # NULL
        BY <1>2, <4>1, NotNull DEF Models, Good, Agree
      <4>3. q \in ClassOf(S, i)
        BY <4>1, <4>2 DEF Models, Good, Sorted
      <4> QED
        BY <4>1, <4>3, ValuesAre
    <3>3. Models(T, Named(F, r, i, Class(F, i)))
      BY <1>2, <2>4, <3>1, <3>2, ModelsNamed
    <3> QED
      BY <2>3, <3>3
  <2>5. CASE S.reg[i] = NULL
    <3>1. Gives(S, T, r, At(S, y))
      BY <2>2, <2>5, NameGives, IsFields
    <3>2. Models(T, Alias(F, r, y))
      BY <1>2, <3>1, ModelsAlias
    <3>3. i \notin Held(F)
      BY <2>5, HeldIs
    <3> QED
      BY <2>3, <3>2, <3>3
  <2> QED
    BY <2>4, <2>5
<1> QED
  BY <1>3, <1>4

LEMMA TakeStep ==
  ASSUME NEW S, NEW F, Models(S, F), NEW s, Follows(F, s), NEW n, s[1] \in {"take", "free", "let"}
  PROVE  Covers(S, F, s, n)
<1> SUFFICES ASSUME NEW T \in Do(S, s, n) PROVE \E G \in After(F, s, n) : Models(T, G)
  BY DEF Covers
<1>1. CASE s[1] = "take"
  <2>1. PICK i, x : i = s[2] /\ x = s[3]
    OBVIOUS
  <2>2. T = IF S.reg[i] # NULL THEN S ELSE TakeReg(S, i, At(S, x))
    BY <1>1, <2>1 DEF Do
  <2>3. After(F, s, n) = {F} \cup IF i \in Held(F) THEN {} ELSE {Taken(F, i, x)}
    BY <1>1, <2>1 DEF After
  <2>4. CASE S.reg[i] # NULL
    BY <2>2, <2>3, <2>4
  <2>5. CASE S.reg[i] = NULL
    <3>1. i \notin Held(F)
      BY <2>5, HeldIs
    <3>2. i \in Values(F) /\ x \in F.open /\ Among(F, x) \subseteq Class(F, i)
      BY <1>1, <2>1, <3>1 DEF Follows
    <3>3. Models(T, Taken(F, i, x))
      BY <2>2, <2>5, <3>2, ModelsTaken
    <3> QED
      BY <2>3, <3>1, <3>3
  <2> QED
    BY <2>4, <2>5
<1>2. CASE s[1] = "free"
  <2>1. T = FreeResourcesOf(S, s[2]) /\ s[2] \in Values(F) /\ After(F, s, n) = {Freed(F, s[2])}
    BY <1>2 DEF Do, Follows, After
  <2> QED
    BY <2>1, ModelsFreed
<1>3. CASE s[1] = "let"
  <2>1. /\ T = Name(S, s[2], At(S, s[3])) /\ s[2] \notin Managed(S)
        /\ After(F, s, n) = {Alias(F, s[2], s[3])}
    BY <1>3, ValuesAre DEF Do, Follows, After
  <2>2. Gives(S, T, s[2], At(S, s[3]))
    BY <2>1, NameGives, IsFields
  <2> QED
    BY <2>1, <2>2, ModelsAlias
<1> QED
  BY <1>1, <1>2, <1>3

LEMMA EvictedSame ==
  ASSUME NEW F, DOMAIN F = Facts, NEW regs, NEW but, NEW G, G = Evicted(F, regs, but)
  PROVE  Like(F, G) /\ G.held = {} /\ G.dead = F.dead /\ G.open = F.open
<1>1. PICK of : G = [F EXCEPT !.held = {}, !.of = of]
  BY DEF Evicted
<1> QED
  BY <1>1 DEF Facts, Like

\* More variables whose register is free.
LEMMA ModelsOpen ==
  ASSUME NEW S, NEW F, Models(S, F), NEW open, \A x \in open : At(S, x) \in S.free,
         NEW G, G = [F EXCEPT !.open = @ \cup open]
  PROVE  Models(S, G)
<1>1. /\ Like(F, G) /\ G.of = F.of /\ G.held = F.held /\ G.dead = F.dead
      /\ G.open = F.open \cup open
  BY DEF Models, Suits, Like, Facts
<1>2. IsOf(S, G) /\ IsHeld(S, G) /\ IsOpen(S, G) /\ IsDead(S, G)
  BY <1>1 DEF Models, IsOf, IsHeld, IsOpen, IsDead, Values, Like
<1> QED
  BY <1>1, <1>2, ModelsLike

LEMMA EvictActiveStep ==
  ASSUME NEW S, NEW F, Models(S, F), NEW s, Follows(F, s), NEW n, s[1] = "evict"
  PROVE  Covers(S, F, s, n)
<1> SUFFICES ASSUME NEW T \in Do(S, s, n) PROVE \E G \in After(F, s, n) : Models(T, G)
  BY DEF Covers
<1>1. PICK x : x = s[2]
  OBVIOUS
<1>2. PICK r : r = At(S, x)
  OBVIOUS
<1>3. r \in Managed(S) /\ r \in Among(F, x)
  BY <1>1, <1>2, AtIs DEF Follows
<1>4. T = EvictIfActive(S, r)
  BY <1>1, <1>2 DEF Do
<1>5. Good(T, F.last, {}) /\ Empties(S, T, {r}) /\ r \in T.free
  BY <1>3, <1>4, EvictActiveGood DEF Models
<1>6. Some(S, {r}, Among(F, x), {})
  BY <1>3 DEF Some
<1>7. PICK G : G = Evicted(F, Among(F, x), {})
  OBVIOUS
<1>8. Models(T, G)
  BY <1>5, <1>6, <1>7, ModelsEvicted
<1>9. At(T, x) = r
  BY <1>2, <1>5 DEF Empties, Keeps, Fixed, At
<1>10. Models(T, [G EXCEPT !.open = @ \cup {x}])
  BY <1>5, <1>8, <1>9, ModelsOpen
<1> QED
  BY <1>1, <1>7, <1>10 DEF After

LEMMA ScratchStep ==
  ASSUME NEW S, NEW F, Models(S, F), NEW s, Follows(F, s), NEW n, s[1] = "scratch"
  PROVE  Covers(S, F, s, n)
<1> SUFFICES ASSUME NEW T \in Do(S, s, n) PROVE \E G \in After(F, s, n) : Models(T, G)
  BY DEF Covers
<1>1. PICK but : but = s[2]
  OBVIOUS
<1>2. PICK locs : locs = {At(S, x) : x \in but}
  OBVIOUS
<1>3. T \in EvictScratch(S, locs)
  BY <1>1, <1>2 DEF Do
<1>4. /\ Good(T, F.last, {}) /\ Empties(S, T, Managed(S) \ locs)
      /\ (Managed(S) \ S.mach.saved) \ locs \subseteq T.free
  BY <1>3, EvictScratchGood DEF Models
<1>5. F.mach = S.mach /\ F.mach.managed = Managed(S)
  BY ValuesAre DEF Models, Suits
<1>6. Some(S, Managed(S) \ locs, F.mach.managed, but)
  BY <1>2, <1>5 DEF Some
<1>7. PICK G : G = Evicted(F, F.mach.managed, but)
  OBVIOUS
<1>8. Models(T, G)
  BY <1>4, <1>6, <1>7, ModelsEvicted
<1>9. PICK open : open = {x \in F.mach.managed \ F.mach.saved : \A y \in but : Apart(F, x, y)}
  OBVIOUS
<1>10. ASSUME NEW x \in open PROVE At(T, x) \in T.free
  <2>1. x \in Managed(S) \ S.mach.saved /\ \A y \in but : Apart(F, x, y)
    BY <1>5, <1>9
  <2>2. At(S, x) = x /\ Among(F, x) = {x}
    BY <2>1, AtIs
  <2>3. x \notin locs
    <3> SUFFICES ASSUME x \in locs PROVE FALSE
      OBVIOUS
    <3>1. PICK y \in but : x = At(S, y)
      BY <1>2
    <3>2. x \in Among(F, y)
      BY <2>1, <3>1, AtIs
    <3> QED
      BY <2>1, <2>2, <3>2 DEF Apart
  <2>4. At(T, x) = At(S, x)
    BY <1>4 DEF Empties, Keeps, Fixed, At
  <2> QED
    BY <1>4, <2>1, <2>2, <2>3, <2>4
<1>11. Models(T, [G EXCEPT !.open = @ \cup open])
  BY <1>8, <1>10, ModelsOpen
<1> QED
  BY <1>1, <1>7, <1>9, <1>11 DEF After

LEMMA TempStep ==
  ASSUME NEW S, NEW F, Models(S, F), NEW s, Follows(F, s), NEW n, s[1] = "temp"
  PROVE  Covers(S, F, s, n)
<1> SUFFICES ASSUME NEW T \in Do(S, s, n) PROVE \E G \in After(F, s, n) : Models(T, G)
  BY DEF Covers
<1>1. PICK r, regs, but : r = s[2] /\ regs = s[3] /\ but = s[4]
  OBVIOUS
<1>2. r \notin Managed(S) /\ regs \subseteq Managed(S)
  BY <1>1, ValuesAre DEF Follows
<1>3. PICK some : some = Allowed(S, regs, but)
  OBVIOUS
<1>4. Some(S, some, regs, but) /\ some \subseteq Managed(S)
  BY <1>2, <1>3, AllowedIs
<1>5. T \in AllocTempReg(S, r, some)
  BY <1>1, <1>3 DEF Do
<1>6. PICK U, x : Good(U, F.last, {}) /\ Empties(S, U, some) /\ T = Name(U, r, x)
  BY <1>4, <1>5, TempRegGood DEF Models
<1>7. PICK G : G = Evicted(F, regs, but)
  OBVIOUS
<1>8. Models(U, G) /\ Managed(U) = Managed(S)
  BY <1>4, <1>6, <1>7, ModelsEvicted DEF Empties, Keeps, Fixed, Managed
<1>9. Gives(U, T, r, x)
  BY <1>6, <1>8, NameGives, IsFields
<1>10. Models(T, Anything(G, r))
  BY <1>2, <1>8, <1>9, ModelsAnything
<1> QED
  BY <1>1, <1>7, <1>10 DEF After

\* The steps of nFragExit and of calls that leave no register in use.
LEMMA ExitStep ==
  ASSUME NEW S, NEW F, Models(S, F), NEW s, Follows(F, s), NEW n,
         s[1] \in {"release", "assign", "enter", "leave"}
  PROVE  Covers(S, F, s, n)
<1> SUFFICES ASSUME NEW T \in Do(S, s, n) PROVE \E G \in After(F, s, n) : Models(T, G)
  BY DEF Covers
<1>1. CASE s[1] = "release"
  <2>1. T = Vacated(S) /\ After(F, s, n) = {Vacant(F)}
    BY <1>1 DEF Do, After
  <2>2. Good(T, F.last, {}) /\ Fixed(S, T) /\ T.free = Managed(S)
    BY <2>1, VacatedGood DEF Vacated, Models
  <2> QED
    BY <2>1, <2>2, ModelsVacant
<1>2. CASE s[1] = "assign"
  <2>1. T = AssignSavedRegs(S) /\ After(F, s, n) = {NothingKnown(F)}
    BY <1>2 DEF Do, After
  <2>2. Managed(S) \subseteq S.free
    <3> SUFFICES ASSUME NEW r \in Managed(S) PROVE r \in S.free
      OBVIOUS
    <3>1. r \in F.open
      BY <1>2, ValuesAre DEF Follows
    <3>2. At(S, r) = r
      BY AtIs
    <3> QED
      BY <3>1, <3>2 DEF Models, IsOpen
  <2>3. \A i \in Ins(S) : S.kind[i] = "saved" => i <= F.last
    <3>1. SavedFound(F) /\ F.kind = S.kind /\ DOMAIN S.kind = Ins(S)
      BY <1>2, NotNull DEF Follows, Models, Suits, Good
    <3> QED
      BY <3>1, ValuesAre DEF SavedFound
  <2>4. Good(T, F.last, {}) /\ Fixed(S, T)
    BY <2>1, <2>2, <2>3, AssignSavedGood DEF Models
  <2> QED
    BY <2>1, <2>4, ModelsNothing
<1>3. CASE s[1] = "enter"
  <2>1. T = EnterExit(S) /\ After(F, s, n) = {[Vacant(F) EXCEPT !.exit = TRUE]}
    BY <1>3 DEF Do, After
  <2> QED
    BY <2>1, ModelsEnter
<1>4. CASE s[1] = "leave"
  <2>1. /\ T \in LeaveExit(S) /\ F.exit
        /\ After(F, s, n) = {[NothingKnown(F) EXCEPT !.exit = FALSE]}
    BY <1>4 DEF Do, After, Follows
  <2> QED
    BY <2>1, ModelsLeave
<1> QED
  BY <1>1, <1>2, <1>3, <1>4

\* A step that follows the rules does what After says.
LEMMA StepCovers ==
  ASSUME NEW S, NEW F, Models(S, F), NEW s, Follows(F, s), NEW n
  PROVE  Covers(S, F, s, n)
<1>1. s[1] \in {"op", "trash", "protect", "unprotect", "unreached", "jump", "fork", "unless",
                "result", "find", "prep", "base", "find2", "base2", "specific", "mem",
                "inregor", "take", "free", "let", "evict", "scratch", "temp", "release",
                "assign", "enter", "leave"}
  BY DEF Follows
<1>2. CASE s[1] \in {"op", "trash", "protect", "unprotect", "unreached"}
  BY <1>2, EmitStep
<1>3. CASE s[1] \in {"jump", "fork"}
  BY <1>3, JumpStep
<1>4. CASE s[1] = "unless"
  BY <1>4, UnlessStep
<1>5. CASE s[1] \in {"result", "find", "prep", "base"}
  BY <1>5, FindStep
<1>6. CASE s[1] \in {"find2", "base2"}
  BY <1>6, Find2Step
<1>7. CASE s[1] = "specific"
  BY <1>7, SpecificStep
<1>8. CASE s[1] \in {"mem", "inregor"}
  BY <1>8, SlotStep
<1>9. CASE s[1] \in {"take", "free", "let"}
  BY <1>9, TakeStep
<1>10. CASE s[1] = "evict"
  BY <1>10, EvictActiveStep
<1>11. CASE s[1] = "scratch"
  BY <1>11, ScratchStep
<1>12. CASE s[1] = "temp"
  BY <1>12, TempStep
<1>13. CASE s[1] \in {"release", "assign", "enter", "leave"}
  BY <1>13, ExitStep
<1> QED
  BY <1>1, <1>2, <1>3, <1>4, <1>5, <1>6, <1>7, <1>8, <1>9, <1>10, <1>11, <1>12, <1>13

-----------------------------------------------------------------------------
(* Whole scripts.                                                          *)

\* The states after n steps.
RunStep(S, code, prev, n) ==
  UNION {Proceed(T, code[n], n) : T \in prev}

RunDef(S, code, N, f) ==
  f = [n \in 0..N |-> IF n = 0 THEN {S} ELSE RunStep(S, code, f[n - 1], n)]

LEMMA RunExists ==
  ASSUME NEW S, NEW code, NEW N, N \in Nat
  PROVE  \E f : RunDef(S, code, N, f)
<1> DEFINE T == {k \in Nat : ~\E f : RunDef(S, code, k, f)}
<1> SUFFICES ASSUME T # {} PROVE FALSE
  OBVIOUS
<1>1. PICK k \in T : \A l \in T : k <= l
  BY LeastNat
<1>2. k # 0
  <2> SUFFICES ASSUME k = 0 PROVE FALSE
    OBVIOUS
  <2> DEFINE g == [n \in 0..0 |-> {S}]
  <2>1. RunDef(S, code, 0, g)
    BY DEF RunDef
  <2> QED
    BY <1>1, <2>1
<1>3. k - 1 \in Nat /\ ~(k <= k - 1)
  BY <1>1, <1>2
<1>4. PICK g : RunDef(S, code, k - 1, g)
  BY <1>1, <1>3
<1> DEFINE h == [n \in 0..k |-> IF n < k THEN g[n] ELSE RunStep(S, code, g[k - 1], k)]
<1>5. \A n \in 0..(k - 1) :
        g[n] = IF n = 0 THEN {S} ELSE RunStep(S, code, g[n - 1], n)
  BY <1>4 DEF RunDef
<1>6. ASSUME NEW n \in 0..k
      PROVE  h[n] = IF n = 0 THEN {S} ELSE RunStep(S, code, h[n - 1], n)
  <2>1. CASE n = 0
    <3>1. h[n] = g[n] /\ n \in 0..(k - 1)
      BY <1>3, <2>1
    <3> QED
      BY <1>5, <2>1, <3>1
  <2>2. CASE n # 0 /\ n < k
    <3>1. h[n] = g[n] /\ h[n - 1] = g[n - 1] /\ n \in 0..(k - 1)
      BY <1>3, <2>2
    <3> QED
      BY <1>5, <2>2, <3>1
  <2>3. CASE n = k
    <3>1. h[n] = RunStep(S, code, g[k - 1], k) /\ h[n - 1] = g[k - 1]
      BY <1>3, <2>3
    <3> QED
      BY <1>2, <2>3, <3>1
  <2> QED
    BY <2>1, <2>2, <2>3
<1>7. RunDef(S, code, k, h)
  BY <1>6 DEF RunDef
<1> QED
  BY <1>1, <1>7

LEMMA RunIs ==
  ASSUME NEW S, NEW code, Len(code) \in Nat
  PROVE  \E f : RunDef(S, code, Len(code), f) /\ Run(S, code) = f[Len(code)]
<1> DEFINE after == CHOOSE f : f = [n \in 0..Len(code) |-> IF n = 0 THEN {S} ELSE UNION {Proceed(T, code[n], n) : T \in f[n - 1]}]
<1>1. Run(S, code) = after[Len(code)]
  BY DEF Run
<1>2. after = CHOOSE f : RunDef(S, code, Len(code), f)
  BY DEF RunDef, RunStep
<1>3. RunDef(S, code, Len(code), after)
  BY <1>2, RunExists
<1> QED
  BY <1>1, <1>3

\* What is known after n steps.
EndsStep(m, p, last, code, prev, n) ==
  UNION {Onward(F, code[n], n) : F \in prev}

EndsDef(m, p, last, code, N, f) ==
  f = [n \in 0..N |-> IF n = 0 THEN {Start(m, p, last)} ELSE EndsStep(m, p, last, code, f[n - 1], n)]

LEMMA EndsExists ==
  ASSUME NEW m, NEW p, NEW last, NEW code, NEW N, N \in Nat
  PROVE  \E f : EndsDef(m, p, last, code, N, f)
<1> DEFINE T == {k \in Nat : ~\E f : EndsDef(m, p, last, code, k, f)}
<1> SUFFICES ASSUME T # {} PROVE FALSE
  OBVIOUS
<1>1. PICK k \in T : \A l \in T : k <= l
  BY LeastNat
<1>2. k # 0
  <2> SUFFICES ASSUME k = 0 PROVE FALSE
    OBVIOUS
  <2> DEFINE g == [n \in 0..0 |-> {Start(m, p, last)}]
  <2>1. EndsDef(m, p, last, code, 0, g)
    BY DEF EndsDef
  <2> QED
    BY <1>1, <2>1
<1>3. k - 1 \in Nat /\ ~(k <= k - 1)
  BY <1>1, <1>2
<1>4. PICK g : EndsDef(m, p, last, code, k - 1, g)
  BY <1>1, <1>3
<1> DEFINE h == [n \in 0..k |-> IF n < k THEN g[n] ELSE EndsStep(m, p, last, code, g[k - 1], k)]
<1>5. \A n \in 0..(k - 1) :
        g[n] = IF n = 0 THEN {Start(m, p, last)} ELSE EndsStep(m, p, last, code, g[n - 1], n)
  BY <1>4 DEF EndsDef
<1>6. ASSUME NEW n \in 0..k
      PROVE  h[n] = IF n = 0 THEN {Start(m, p, last)} ELSE EndsStep(m, p, last, code, h[n - 1], n)
  <2>1. CASE n = 0
    <3>1. h[n] = g[n] /\ n \in 0..(k - 1)
      BY <1>3, <2>1
    <3> QED
      BY <1>5, <2>1, <3>1
  <2>2. CASE n # 0 /\ n < k
    <3>1. h[n] = g[n] /\ h[n - 1] = g[n - 1] /\ n \in 0..(k - 1)
      BY <1>3, <2>2
    <3> QED
      BY <1>5, <2>2, <3>1
  <2>3. CASE n = k
    <3>1. h[n] = EndsStep(m, p, last, code, g[k - 1], k) /\ h[n - 1] = g[k - 1]
      BY <1>3, <2>3
    <3> QED
      BY <1>2, <2>3, <3>1
  <2> QED
    BY <2>1, <2>2, <2>3
<1>7. EndsDef(m, p, last, code, k, h)
  BY <1>6 DEF EndsDef
<1> QED
  BY <1>1, <1>7

LEMMA EndsIs ==
  ASSUME NEW m, NEW p, NEW last, NEW code, Len(code) \in Nat
  PROVE  \E f : EndsDef(m, p, last, code, Len(code), f) /\ Ends(m, p, last, code) = f[Len(code)]
<1> DEFINE after == CHOOSE f : f = [n \in 0..Len(code) |-> IF n = 0 THEN {Start(m, p, last)} ELSE UNION {Onward(F, code[n], n) : F \in f[n - 1]}]
<1>1. Ends(m, p, last, code) = after[Len(code)]
  BY DEF Ends
<1>2. after = CHOOSE f : EndsDef(m, p, last, code, Len(code), f)
  BY DEF EndsDef, EndsStep
<1>3. EndsDef(m, p, last, code, Len(code), after)
  BY <1>2, EndsExists
<1> QED
  BY <1>1, <1>3

\* No step changes the processor, the program and which values may be found.
Stays(F, G) ==
  DOMAIN G = Facts /\ G.mach = F.mach /\ G.kind = F.kind /\ G.last = F.last

LEMMA GivenStays ==
  ASSUME NEW F, DOMAIN F = Facts, NEW r, NEW regs
  PROVE  Stays(F, Given(F, r, regs)) /\ Stays(F, Anything(F, r))
BY GivenIs DEF Stays, Anything

LEMMA NamedStays ==
  ASSUME NEW F, DOMAIN F = Facts, NEW r, NEW i, NEW regs
  PROVE  Stays(F, Named(F, r, i, regs))
<1>1. PICK G : G = Given(F, r, regs)
  OBVIOUS
<1>2. PICK of : Named(F, r, i, regs) = [G EXCEPT !.of = of]
  BY <1>1 DEF Named
<1> QED
  BY <1>1, <1>2, GivenStays DEF Stays, Facts

LEMMA AliasStays ==
  ASSUME NEW F, DOMAIN F = Facts, NEW r, NEW x
  PROVE  Stays(F, Alias(F, r, x))
<1>1. PICK G : G = Given(F, r, Among(F, x))
  OBVIOUS
<1>2. Stays(F, G)
  BY <1>1, GivenStays
<1>3. CASE r = x
  BY <1>3 DEF Alias, Stays
<1>4. CASE r # x
  <2>1. PICK of : of = G.of \cup {<<r, p[2]>> : p \in {q \in F.of : q[1] = x}}
    OBVIOUS
  <2>2. PICK open : open = IF x \in F.open THEN G.open \cup {r} ELSE G.open
    OBVIOUS
  <2>3. Alias(F, r, x) = [G EXCEPT !.of = of, !.open = open]
    BY <1>1, <1>4, <2>1, <2>2 DEF Alias
  <2> QED
    BY <1>2, <2>3 DEF Stays, Facts
<1> QED
  BY <1>3, <1>4

LEMMA FoundStays ==
  ASSUME NEW F, DOMAIN F = Facts, NEW i, NEW regs, NEW but
  PROVE  Stays(F, Found(F, i, regs, but)) /\ Stays(F, Evicted(F, regs, but))
BY FoundSame, EvictedSame DEF Stays, Like

LEMMA ChangedStays ==
  ASSUME NEW F, DOMAIN F = Facts, NEW i, NEW x
  PROVE  /\ Stays(F, Freed(F, i)) /\ Stays(F, Taken(F, i, x)) /\ Stays(F, NothingKnown(F))
         /\ Stays(F, Vacant(F))
BY DEF Stays, Facts, Freed, Taken, NothingKnown, Vacant

LEMMA FieldStays ==
  ASSUME NEW F, DOMAIN F = Facts, NEW v
  PROVE  /\ Stays(F, [F EXCEPT !.to = v]) /\ Stays(F, [F EXCEPT !.held = v])
         /\ Stays(F, [F EXCEPT !.dead = v]) /\ Stays(F, [F EXCEPT !.open = v])
         /\ Stays(F, [F EXCEPT !.exit = v]) /\ Stays(F, [F EXCEPT !.ok = v])
BY DEF Stays, Facts

LEMMA AfterStays ==
  ASSUME NEW F, DOMAIN F = Facts, NEW s, Follows(F, s), NEW n, NEW G \in After(F, s, n)
  PROVE  Stays(F, G)
<1>1. \A E, H : Stays(F, E) /\ Stays(E, H) => Stays(F, H)
  BY DEF Stays
<1>2. Stays(F, F)
  BY DEF Stays
<1>3. \A E : Stays(F, E) => DOMAIN E = Facts
  BY DEF Stays
<1>4. CASE s[1] \in {"op", "trash", "protect", "unprotect", "unreached"}
  BY <1>2, <1>4 DEF After
<1>5. CASE s[1] \in {"jump", "fork"}
  <2>1. PICK m : G = [F EXCEPT !.to = m]
    BY <1>5 DEF After
  <2> QED
    BY <2>1, FieldStays
<1>6. CASE s[1] = "unless"
  <2>1. PICK held : held = F.held \cup {s[2][2]}
    OBVIOUS
  <2>2. G = F \/ G = [F EXCEPT !.to = n + s[3]] \/ G = [F EXCEPT !.held = held]
    BY <1>6, <2>1 DEF After
  <2>3. Stays(F, [F EXCEPT !.to = n + s[3]]) /\ Stays(F, [F EXCEPT !.held = held])
    BY FieldStays
  <2> QED
    BY <1>2, <2>2, <2>3
<1>7. CASE s[1] \in {"result", "find", "prep"}
  <2>1. PICK E : E = Found(F, s[3], s[4], s[5])
    OBVIOUS
  <2>2. PICK H : H = Named(E, s[2], s[3], s[4])
    OBVIOUS
  <2>3. Stays(F, E)
    BY <2>1, FoundStays
  <2>4. Stays(E, H)
    BY <1>3, <2>2, <2>3, NamedStays
  <2>5. Stays(F, H)
    BY <1>1, <2>3, <2>4
  <2>6. Stays(H, Freed(H, s[3]))
    BY <1>3, <2>5, ChangedStays
  <2>7. G = H \/ G = Freed(H, s[3])
    BY <1>7, <2>1, <2>2 DEF After
  <2> QED
    BY <1>1, <2>5, <2>6, <2>7
<1>8. CASE s[1] \in {"base", "temp"}
  <2>1. \/ G = Anything(Found(F, s[3], s[4], s[5]), s[2])
        \/ G = Anything(Evicted(F, s[3], s[4]), s[2])
    BY <1>8 DEF After
  <2>2. PICK E : Stays(F, E) /\ G = Anything(E, s[2])
    BY <2>1, FoundStays
  <2> QED
    BY <1>1, <1>3, <2>2, GivenStays
<1>9. CASE s[1] \in {"find2", "base2"}
  <2>1. PICK but : G = Found2(F, s[2], s[3], s[4], s[5], s[6], s[7], but)
    BY <1>9 DEF After
  <2>2. PICK A : A = Found(F, s[3], s[4], but)
    OBVIOUS
  <2>3. PICK B : B = Found(A, s[6], s[7], but)
    OBVIOUS
  <2>4. PICK C : C = Anything(B, s[2])
    OBVIOUS
  <2>5. G = Anything(C, s[5])
    BY <2>1, <2>2, <2>3, <2>4 DEF Found2
  <2>6. Stays(F, A)
    BY <2>2, FoundStays
  <2>7. Stays(F, B)
    BY <1>1, <1>3, <2>3, <2>6, FoundStays
  <2>8. Stays(F, C)
    BY <1>1, <1>3, <2>4, <2>7, GivenStays
  <2> QED
    BY <1>1, <1>3, <2>5, <2>8, GivenStays
<1>10. CASE s[1] = "specific"
  <2>1. PICK E : E = Found(F, s[2], Among(F, s[3]), {})
    OBVIOUS
  <2>2. G = Named(E, "w", s[2], Among(F, s[3]))
    BY <1>10, <2>1 DEF After
  <2> QED
    BY <1>1, <1>3, <2>1, <2>2, FoundStays, NamedStays
<1>11. CASE s[1] = "mem"
  <2>1. PICK E : E = [F EXCEPT !.dead = @ \ {s[3]}]
    OBVIOUS
  <2>2. Stays(F, E) /\ G = Anything(E, s[2])
    BY <1>11, <2>1, FieldStays DEF After
  <2> QED
    BY <1>1, <1>3, <2>2, GivenStays
<1>12. CASE s[1] \in {"inregor", "let"}
  <2>1. G = Named(F, s[2], s[3], Class(F, s[3])) \/ \E x : G = Alias(F, s[2], x)
    BY <1>12 DEF After
  <2> QED
    BY <2>1, NamedStays, AliasStays
<1>13. CASE s[1] \in {"take", "free"}
  <2>1. G = F \/ G = Taken(F, s[2], s[3]) \/ G = Freed(F, s[2])
    BY <1>13 DEF After
  <2> QED
    BY <1>2, <2>1, ChangedStays
<1>14. CASE s[1] \in {"evict", "scratch"}
  <2>1. PICK regs, but, open : G = [Evicted(F, regs, but) EXCEPT !.open = @ \cup open]
    BY <1>14 DEF After
  <2>2. PICK E : E = Evicted(F, regs, but)
    OBVIOUS
  <2>3. PICK more : more = E.open \cup open
    OBVIOUS
  <2>4. G = [E EXCEPT !.open = more] /\ Stays(F, E)
    BY <2>1, <2>2, <2>3, FoundStays
  <2>5. Stays(E, G)
    BY <1>3, <2>4, FieldStays
  <2> QED
    BY <1>1, <2>4, <2>5
<1>15. CASE s[1] \in {"release", "assign", "enter", "leave"}
  <2>1. PICK E : /\ E = Vacant(F) \/ E = NothingKnown(F)
                 /\ G = E \/ \E b : G = [E EXCEPT !.exit = b]
    BY <1>15 DEF After
  <2>2. Stays(F, E)
    BY <2>1, ChangedStays
  <2>3. \A b : Stays(E, [E EXCEPT !.exit = b])
    BY <1>3, <2>2, FieldStays
  <2> QED
    BY <1>1, <2>1, <2>2, <2>3
<1> QED
  BY <1>4, <1>5, <1>6, <1>7, <1>8, <1>9, <1>10, <1>11, <1>12, <1>13, <1>14, <1>15 DEF Follows

\* What is known after a step is true, or a rule has been broken.
Tells(T, F, E) == ~F.ok \/ (Models(T, F) /\ Stays(E, F))

LEMMA ProceedTells ==
  ASSUME NEW S, NEW F, NEW E, Tells(S, F, E), NEW s, NEW n, NEW T \in Proceed(S, s, n)
  PROVE  \E G \in Onward(F, s, n) : Tells(T, G, E)
<1>1. CASE ~F.ok
  BY <1>1 DEF Onward, Tells
<1>2. CASE F.ok /\ n <= F.to
  <2>1. Models(S, F) /\ T = S
    BY <1>2 DEF Tells, Models, Suits, Proceed
  <2> QED
    BY <1>2, <2>1 DEF Onward, Tells
<1>3. CASE F.ok /\ ~(n <= F.to)
  <2>1. Models(S, F) /\ T \in Do(S, s, n)
    BY <1>3 DEF Tells, Models, Suits, Proceed
  <2>2. CASE Follows(F, s)
    <3>1. PICK G \in After(F, s, n) : Models(T, G)
      BY <2>1, <2>2, StepCovers DEF Covers
    <3>2. Stays(F, G) /\ Stays(E, F)
      BY <1>3, <2>1, <2>2, <3>1, AfterStays DEF Tells, Models, Suits
    <3>3. Tells(T, G, E)
      BY <3>1, <3>2 DEF Tells, Stays
    <3> QED
      BY <1>3, <2>2, <3>1, <3>3 DEF Onward
  <2>3. CASE ~Follows(F, s)
    <3>1. PICK G : G = [F EXCEPT !.ok = FALSE]
      OBVIOUS
    <3>2. ~G.ok
      BY <2>1, <3>1 DEF Models, Suits, Facts
    <3> QED
      BY <1>3, <2>3, <3>1, <3>2 DEF Onward, Tells
  <2> QED
    BY <2>2, <2>3
<1> QED
  BY <1>1, <1>2, <1>3

LEMMA StartModels ==
  ASSUME NEW S, NEW n, n \in Nat, n <= Len(S.kind), Good(S, n, {}), DOMAIN S.env = {}, S.to = 0
  PROVE  LET F == Start(S.mach, S.kind, n)
         IN Models(S, F) /\ Stays(F, F)
<1>1. PICK F : F = Start(S.mach, S.kind, n)
  OBVIOUS
<1>2. /\ DOMAIN F = Facts /\ F.mach = S.mach /\ F.kind = S.kind /\ F.last = n /\ F.of = {}
      /\ F.held = {} /\ F.open = {} /\ F.dead = {} /\ F.exit = FALSE /\ F.to = 0
      /\ DOMAIN F.in = {}
  BY <1>1 DEF Start, Facts
<1> QED
  BY <1>1, <1>2 DEF Models, Suits, Holding, IsOf, IsHeld, IsOpen, IsDead, Exits, Stays

\* A script none of whose ways breaks a rule, run from a good register state: at the
\* end of some way through it, what Upkeep knows is true (the calls of allocSpecificReg,
\* findRegFor and the like in an asm_ function, whatever registers they choose).
THEOREM RunModels ==
  ASSUME NEW S, NEW n, n \in Nat, n <= Len(S.kind), Good(S, n, {}), DOMAIN S.env = {}, S.to = 0,
         NEW code, Len(code) \in Nat, \A F \in Ends(S.mach, S.kind, n, code) : F.ok,
         NEW T \in Run(S, code)
  PROVE  \E F \in Ends(S.mach, S.kind, n, code) :
           Models(T, F) /\ F.mach = S.mach /\ F.kind = S.kind /\ F.last = n
<1>1. PICK N : N \in Nat /\ N = Len(code)
  OBVIOUS
<1>2. PICK after : RunDef(S, code, N, after) /\ Run(S, code) = after[N]
  BY <1>1, RunIs
<1>3. PICK known : /\ EndsDef(S.mach, S.kind, n, code, N, known)
                   /\ Ends(S.mach, S.kind, n, code) = known[N]
  BY <1>1, EndsIs
<1>4. after = [k \in 0..N |-> IF k = 0 THEN {S} ELSE RunStep(S, code, after[k - 1], k)]
  BY <1>2 DEF RunDef
<1>5. known = [k \in 0..N |-> IF k = 0 THEN {Start(S.mach, S.kind, n)}
                              ELSE EndsStep(S.mach, S.kind, n, code, known[k - 1], k)]
  BY <1>3 DEF EndsDef
<1> PICK E : E = Start(S.mach, S.kind, n)
  OBVIOUS
<1> DEFINE All(k) == \A U \in after[k] : \E F \in known[k] : Tells(U, F, E)
           B == {k \in Nat : k <= N /\ ~All(k)}
<1>6. B = {}
  <2> SUFFICES ASSUME B # {} PROVE FALSE
    OBVIOUS
  <2>1. PICK k \in B : \A l \in B : k <= l
    BY LeastNat
  <2>2. k \in Nat /\ k <= N /\ ~All(k) /\ k \in 0..N
    BY <1>1, <2>1
  <2>3. k # 0
    <3> SUFFICES ASSUME k = 0 PROVE FALSE
      OBVIOUS
    <3>1. after[0] = {S} /\ known[0] = {Start(S.mach, S.kind, n)}
      BY <1>1, <1>4, <1>5
    <3> QED
      BY <2>2, <3>1, StartModels DEF Tells
  <2>4. k - 1 \in Nat /\ k - 1 <= N /\ ~(k <= k - 1)
    BY <1>1, <2>2, <2>3
  <2>5. All(k - 1)
    BY <2>1, <2>4
  <2>6. after[k] = UNION {Proceed(U, code[k], k) : U \in after[k - 1]}
    BY <1>4, <2>2, <2>3 DEF RunStep
  <2>7. known[k] = UNION {Onward(F, code[k], k) : F \in known[k - 1]}
    BY <1>5, <2>2, <2>3 DEF EndsStep
  <2>8. ASSUME NEW U \in after[k] PROVE \E F \in known[k] : Tells(U, F, E)
    <3>1. PICK V \in after[k - 1] : U \in Proceed(V, code[k], k)
      BY <2>6
    <3>2. PICK G \in known[k - 1] : Tells(V, G, E)
      BY <2>5
    <3>3. PICK F \in Onward(G, code[k], k) : Tells(U, F, E)
      BY <3>1, <3>2, ProceedTells
    <3> QED
      BY <2>7, <3>3
  <2> QED
    BY <2>2, <2>8
<1>7. All(N)
  BY <1>1, <1>6
<1>8. PICK F \in Ends(S.mach, S.kind, n, code) : Models(T, F) /\ Stays(E, F)
  BY <1>2, <1>3, <1>7 DEF Tells
<1>9. E.mach = S.mach /\ E.kind = S.kind /\ E.last = n
  BY DEF Start
<1> QED
  BY <1>8, <1>9 DEF Stays

-----------------------------------------------------------------------------
(* The compilation.                                                        *)

Inv ==
  /\ target \in Targets
  /\ kind \in Programs[target]
  /\ next \in 0..Len(kind)
  /\ Good(State, next, {})

LEMMA StateIs ==
  /\ DOMAIN State = Fields /\ State.mach = MachineOf[target] /\ State.kind = kind
  /\ State.free = free /\ State.active = active /\ State.reg = reg /\ State.ar = ar
  /\ DOMAIN State.env = {} /\ State.to = 0 /\ Ins(State) = 1..Len(kind)
BY DEF State, Fields, Ins

LEMMA InvInit == Init => Inv
<1> SUFFICES ASSUME Init PROVE Inv
  OBVIOUS
<1>1. /\ target \in Targets /\ kind \in Programs[target] /\ kind \in Seq(STRING)
      /\ next = Len(kind) /\ next \in Nat /\ DOMAIN kind = 1..Len(kind)
  BY ProgramsAssumption DEF Init
<1>2. IsMachine(MachineOf[target])
  BY <1>1, MachineAssumption
<1>3. NULL \notin Nat /\ 0 \in 0..Len(kind)
  BY <1>1, ProgramsAssumption
<1>4. /\ Managed(State) = MachineOf[target].managed /\ NULL \notin Managed(State)
      /\ free = Managed(State)
      /\ active = [r \in Managed(State) |-> NULL]
      /\ reg = [i \in 1..Len(kind) |-> NULL]
      /\ ar = [i \in 1..Len(kind) |-> 0]
  BY <1>1, <1>2, StateIs DEF Init, Managed, IsMachine
<1>5. IsState(State)
  BY <1>1, <1>2, <1>3, <1>4, StateIs DEF IsState
<1>6. Agree(State, {})
  BY <1>4, StateIs DEF Agree
<1>7. Disjoint(State) /\ Sorted(State) /\ Below(State, next)
  BY <1>4, StateIs DEF Disjoint, Sorted, Below, Extant
<1> QED
  BY <1>1, <1>5, <1>6, <1>7 DEF Inv, Good

\* What a script leaves is a good state, of the values that could be found.
LEMMA ExecuteGood ==
  ASSUME Inv, next > 0, target' = target, kind' = kind, NEW script, Len(script) \in Nat,
         \A F \in Ends(MachineOf[target], kind, next, script) : F.ok,
         Execute(script)
  PROVE  /\ Good(State', next, {})
         /\ (\A F \in Ends(MachineOf[target], kind, next, script) : next \in F.dead)
              => ~Extant(State', next)
<1>1. PICK S : S = [State EXCEPT !.needs = Known(State)]
  OBVIOUS
<1>2. PICK T \in Run(S, script) : free' = T.free /\ active' = T.active /\ reg' = T.reg /\ ar' = T.ar
  BY <1>1 DEF Execute
<1>3. Quiet(State, S)
  BY <1>1, StateIs, NeedsQuiet
<1>4. /\ Good(S, next, {}) /\ S.mach = MachineOf[target] /\ S.kind = kind
      /\ DOMAIN S.env = {} /\ S.to = 0
  BY <1>3, StateIs, QuietIsGood DEF Inv, Quiet, Fixed
<1>5. next \in Nat /\ next <= Len(kind) /\ next \in 1..Len(kind)
  <2>1. kind \in Seq(STRING)
    BY ProgramsAssumption DEF Inv
  <2>2. Len(kind) \in Nat
    BY <2>1
  <2> QED
    BY <2>2 DEF Inv
<1>6. PICK F \in Ends(MachineOf[target], kind, next, script) :
        Models(T, F) /\ F.mach = MachineOf[target] /\ F.kind = kind /\ F.last = next
  BY <1>2, <1>4, <1>5, RunModels
<1>7. T.mach = MachineOf[target] /\ T.kind = kind /\ DOMAIN T = Fields /\ Good(T, next, {})
  BY <1>6, IsFields DEF Models, Suits
<1>8. Alike(T, State')
  <2>1. /\ State'.mach = MachineOf[target] /\ State'.kind = kind /\ DOMAIN State' = Fields
        /\ State'.free = free' /\ State'.active = active' /\ State'.reg = reg' /\ State'.ar = ar'
    BY DEF State, Fields
  <2> QED
    BY <1>2, <1>7, <2>1 DEF Alike
<1>9. Good(State', next, {})
  BY <1>7, <1>8, AlikeGood
<1>10. ASSUME next \in F.dead PROVE ~Extant(State', next)
  <2>1. next \in Ins(T)
    BY <1>5, <1>7 DEF Ins
  <2> QED
    BY <1>6, <1>8, <1>10, <2>1 DEF Models, IsDead, Extant, Alike
<1> QED
  BY <1>6, <1>9, <1>10

LEMMA BelowLess ==
  ASSUME NEW S, NEW n, Good(S, n, {}), n \in Nat, ~Extant(S, n)
  PROVE  Good(S, n - 1, {})
<1>1. Ins(S) \subseteq Nat
  BY NotNull DEF Good
<1>2. ASSUME NEW i \in Ins(S), Extant(S, i) PROVE i <= n - 1
  <2>1. i <= n /\ i # n /\ i \in Nat
    BY <1>1, <1>2 DEF Good, Below
  <2> QED
    BY <2>1
<1> QED
  BY <1>2 DEF Good, Below

LEMMA InvNext == Inv /\ [Next]_vars => Inv'
<1> SUFFICES ASSUME Inv, [Next]_vars PROVE Inv'
  OBVIOUS
<1>1. /\ target \in Targets /\ kind \in Programs[target] /\ next \in 0..Len(kind)
      /\ Good(State, next, {}) /\ Len(kind) \in Nat
  <2>1. kind \in Seq(STRING)
    BY ProgramsAssumption DEF Inv
  <2> QED
    BY <2>1 DEF Inv
<1>2. CASE Skip
  <2>1. /\ next > 0 /\ ~Extant(State, next) /\ next' = next - 1
        /\ target' = target /\ kind' = kind /\ State' = State
    BY <1>2 DEF Skip, Passed, regVars, State
  <2>2. Good(State, next - 1, {}) /\ next - 1 \in 0..Len(kind)
    BY <1>1, <2>1, BelowLess
  <2> QED
    BY <1>1, <2>1, <2>2 DEF Inv
<1>3. CASE DefineAlloc
  <2>1. PICK S : S = IF reg[next] = NULL THEN State ELSE Evict(State, next)
    OBVIOUS
  <2>2. PICK T : T = FreeResourcesOf(S, next)
    OBVIOUS
  <2>3. /\ next > 0 /\ next' = next - 1 /\ target' = target /\ kind' = kind
        /\ free' = T.free /\ active' = T.active /\ reg' = T.reg /\ ar' = T.ar
    BY <1>3, <2>1, <2>2 DEF DefineAlloc, Passed
  <2>4. next \in 1..Len(kind) /\ Ins(State) = 1..Len(kind) /\ State.reg = reg
    BY <1>1, <2>3, StateIs
  <2>5. Good(S, next, {}) /\ Fixed(State, S)
    <3>1. CASE reg[next] = NULL
      BY <1>1, <2>1, <3>1 DEF Fixed
    <3>2. CASE reg[next] # NULL
      <4>1. PICK r \in Managed(State) : r = State.reg[next]
        BY <1>1, <2>4, <3>2 DEF Good, IsState
      <4>2. S = Evict(State, next)
        BY <2>1, <3>2
      <4>3. Good(S, next, {}) /\ Empties(State, S, {r})
        BY <1>1, <2>4, <4>1, <4>2, EvictGood
      <4> QED
        BY <4>3 DEF Empties, Keeps
    <3> QED
      BY <3>1, <3>2
  <2>6. Ins(S) = 1..Len(kind) /\ Fixed(S, State)
    BY <2>4, <2>5 DEF Fixed, Ins
  <2>7. Good(T, next, {}) /\ Fixed(S, T) /\ ~Extant(T, next)
    BY <2>2, <2>4, <2>5, <2>6, FreeGood
  <2>8. Good(T, next - 1, {})
    BY <1>1, <2>7, BelowLess
  <2>9. Alike(T, State')
    <3>1. /\ State'.mach = MachineOf[target] /\ State'.kind = kind /\ DOMAIN State' = Fields
          /\ State'.free = free' /\ State'.active = active' /\ State'.reg = reg' /\ State'.ar = ar'
      BY <2>3 DEF State, Fields
    <3>2. T.mach = MachineOf[target] /\ T.kind = kind /\ DOMAIN T = Fields
      BY <2>5, <2>7, StateIs DEF Fixed
    <3> QED
      BY <2>3, <3>1, <3>2 DEF Alike
  <2>10. Good(State', next - 1, {}) /\ next - 1 \in 0..Len(kind)
    BY <2>4, <2>8, <2>9, AlikeGood
  <2> QED
    BY <1>1, <2>3, <2>10 DEF Inv
<1>4. CASE Define
  <2>1. /\ next > 0 /\ next' = next - 1 /\ target' = target /\ kind' = kind
        /\ next \in 1..Len(kind)
    BY <1>1, <1>4 DEF Define, Passed
  <2>2. PICK script \in DefsOf[target][kind][next] : Execute(script)
    BY <1>4 DEF Define
  <2>3. /\ Len(script) \in Nat
        /\ \A F \in Ends(MachineOf[target], kind, next, script) : F.ok /\ next \in F.dead
    BY <1>1, <2>1, UpkeepAssumption
  <2>4. Good(State', next, {}) /\ ~Extant(State', next)
    BY <2>1, <2>2, <2>3, ExecuteGood
  <2>5. Good(State', next - 1, {}) /\ next - 1 \in 0..Len(kind)
    BY <1>1, <2>1, <2>4, BelowLess
  <2> QED
    BY <1>1, <2>1, <2>5 DEF Inv
<1>5. CASE Use
  <2>1. next > 0 /\ next' = next /\ target' = target /\ kind' = kind /\ next \in 1..Len(kind)
    BY <1>1, <1>5 DEF Use
  <2>2. PICK script \in UsesOf[target][kind][next] : Execute(script)
    BY <1>5 DEF Use
  <2>3. /\ Len(script) \in Nat
        /\ \A F \in Ends(MachineOf[target], kind, next, script) : F.ok
    BY <1>1, <2>1, UpkeepAssumption
  <2>4. Good(State', next, {})
    BY <2>1, <2>2, <2>3, ExecuteGood
  <2> QED
    BY <1>1, <2>1, <2>4 DEF Inv
<1>6. CASE Finish
  <2>1. next' = next /\ target' = target /\ kind' = kind /\ State' = State
    BY <1>6 DEF Finish, State
  <2> QED
    BY <2>1 DEF Inv
<1>7. CASE UNCHANGED vars
  <2>1. next' = next /\ target' = target /\ kind' = kind /\ State' = State
    BY <1>7 DEF vars, regVars, State
  <2> QED
    BY <2>1 DEF Inv
<1> QED
  BY <1>2, <1>3, <1>4, <1>5, <1>6, <1>7 DEF Next

\* Between two instructions the register state is good, and only values still to be
\* read have registers or slots (Assembler::gen).
THEOREM BackendsInvariant == Spec => []Inv
BY InvInit, InvNext, PTL DEF Spec

-----------------------------------------------------------------------------
\* Registers and reservations agree, no slot is shared, and doubles are where
\* doubles go, whatever the code generators of a back end are, as long as they
\* follow the rules (RegAlloc.h:64-120, and the assertions of Assembler.cpp).
THEOREM RegistersAlwaysConsistent == Spec => []RegistersConsistent
<1>1. Inv => RegistersConsistent
  <2> SUFFICES ASSUME Inv PROVE RegistersConsistent
    OBVIOUS
  <2>1. /\ IsState(State) /\ Agree(State, {}) /\ Disjoint(State) /\ Sorted(State)
        /\ DOMAIN State.active = Managed(State) /\ DOMAIN State.reg = Ins(State)
        /\ NULL \notin Managed(State)
    BY NotNull DEF Inv, Good
  <2>2. Consistent(State)
    BY <2>1 DEF Consistent, Agree, InUse
  <2>3. ASSUME NEW r \in InUse(active)
        PROVE  kind[active[r]] \in FpKinds <=> r \in State.mach.fpr
    <3>1. r \in Managed(State) /\ State.active[r] # NULL
      BY <2>1, <2>3, StateIs DEF InUse
    <3>2. r \in ClassOf(State, State.active[r])
      BY <2>1, <3>1 DEF Sorted
    <3> QED
      BY <3>2, StateIs DEF ClassOf
  <2> QED
    BY <2>1, <2>2, <2>3 DEF RegistersConsistent
<1> QED
  BY <1>1, BackendsInvariant, PTL

\* Above the definition of a value neither a register nor a slot is kept for it
\* (freeResourcesOf in each asm_ function that defines one).
THEOREM NothingEverLeftBehind == Spec => []NothingLeftBehind
<1>1. Inv => NothingLeftBehind
  <2> SUFFICES ASSUME Inv PROVE NothingLeftBehind
    OBVIOUS
  <2>1. DOMAIN kind = Ins(State)
    BY StateIs, NotNull DEF Inv, Good
  <2> QED
    BY <2>1 DEF Inv, Good, Below, NothingLeftBehind
<1> QED
  BY <1>1, BackendsInvariant, PTL

=============================================================================
