------------------------------ MODULE RegState ------------------------------
(***************************************************************************)
(* The register state of the Assembler and what changes it, whatever the   *)
(* processor (nanojit/RegAlloc.{h,cpp}, nanojit/Assembler.cpp).            *)
(*                                                                         *)
(* A state S is a record with at least the fields                          *)
(*   free    RegAlloc::_free                                               *)
(*   active  RegAlloc::_active                                             *)
(*   reg     the register in each value's reservation, or NULL             *)
(*   ar      the stack slot in each value's reservation, or 0              *)
(*   needs   what the code emitted so far needs at its entry: pairs of a   *)
(*           location and the value that has to be there                   *)
(* Code is generated backwards, so an emitted instruction turns what is    *)
(* needed after it into what is needed before it.  An operator that        *)
(* chooses a register gives the set of states it may leave.                *)
(***************************************************************************)
EXTENDS Integers, FiniteSets

CONSTANTS
  NULL,
  SlotAt(_),           \* the location of a stack slot
  NeedsSlot(_, _),     \* in a state, asm_restore loads a value from its slot
  RestoreReads(_, _, _), \* what asm_restore of a value to a register reads
  RestoreTrash(_, _),  \* what asm_restore of a value overwrites besides
  TempFor(_, _),       \* the register asm_restore of a value needs besides, or NULL
  FindVictim(_, _),    \* in a state, the registers one of which would be evicted
                       \* of a set with none free
  IsAlloc(_, _),       \* the value is the address of stack space
  CopyCandidates(_, _, _) \* of a set, the registers another one's value can be
                       \* copied to

InUse(act) == {r \in DOMAIN act : act[r] # NULL}

-----------------------------------------------------------------------------
(* What an emitted instruction does to `needs'.  The location of a lost    *)
(* value is NULL: nothing provides it.                                     *)

Slot(S, i) == SlotAt(S.ar[i])

\* An instruction that reads and writes nothing the allocator knows of.
Read(S, reads) == [S EXCEPT !.needs = @ \cup reads]

\* An instruction that overwrites locs with something of no interest.
Clobber(S, locs) ==
  LET lost == {n \in S.needs : n[1] \in locs}
  IN IF lost = {} THEN S
     ELSE [S EXCEPT !.needs = (@ \ lost) \cup {<<NULL, n[2]>> : n \in lost}]

\* An instruction that puts value i in location loc.
Write(S, loc, i, reads) ==
  Read(Clobber([S EXCEPT !.needs = @ \ {<<loc, i>>}], {loc}), reads)

\* MR, and the copies between classes of registers.
Move(S, dst, src, i) == Write(S, dst, i, {<<src, i>>})

-----------------------------------------------------------------------------
(* RegAlloc.                                                               *)

Retire(S, r) == [S EXCEPT !.active[r] = NULL, !.free = @ \cup {r}]

AllocSpecificReg(S, i, r) ==
  [S EXCEPT !.reg[i] = r, !.active[r] = i, !.free = @ \ {r}]

ClearReg(S, i) == [S EXCEPT !.reg[i] = NULL]

Extant(S, i) == S.reg[i] # NULL \/ S.ar[i] # 0

\* findMemFor, arReserve: the first slot no value has.
FindMemFor(S, i) ==
  IF S.ar[i] # 0 THEN S
  ELSE LET used == {S.ar[j] : j \in DOMAIN S.ar}
       IN [S EXCEPT !.ar[i] = CHOOSE s \in 1..Cardinality(DOMAIN S.ar) :
                                s \notin used /\ 1..(s - 1) \subseteq used]

\* Compute value i again in r, or load it from its slot.
Restore(S, i, r) ==
  LET T == IF NeedsSlot(S, i) THEN FindMemFor(S, i) ELSE S
  IN Clobber(Write(T, r, i, RestoreReads(T, i, r)), RestoreTrash(T, i) \ {r})

\* What is in a register is restored there and loses it.
Vacate(S, r) ==
  LET i == S.active[r]
  IN IF i = NULL THEN S ELSE ClearReg(Retire(Restore(S, i, r), r), i)

\* asm_restore; the temporary is vacated first.
AsmRestore(S, i, r) ==
  LET t == TempFor(S, i)
  IN IF t = NULL THEN Restore(S, i, r)
                 ELSE Clobber(Restore(Vacate(S, t), i, r), {t})

Evict(S, i) ==
  ClearReg(Retire(AsmRestore(S, i, S.reg[i]), S.reg[i]), i)

\* allocReg: which of the free registers is taken depends on hints, any of them.
AllocReg(S, i, allow) ==
  IF allow \cap S.free # {}
    THEN {AllocSpecificReg(S, i, r) : r \in allow \cap S.free}
    ELSE {AllocSpecificReg(Evict(S, S.active[r]), i, r) :
            r \in FindVictim(S, allow)}

-----------------------------------------------------------------------------
(* Assembler: finding and freeing the resources of one value.              *)

\* Stack space has a slot as soon as its address is in a register.
HoldAlloc(S, i) == IF IsAlloc(S, i) THEN FindMemFor(S, i) ELSE S

\* findSpecificRegForUnallocated.
TakeReg(S, i, r) == AllocSpecificReg(HoldAlloc(S, i), i, r)

FindRegFor(SS, i, allow) ==
  LET S == HoldAlloc(SS, i)
      candidates == CopyCandidates(S, S.reg[i], allow)
  IN CASE S.reg[i] = NULL -> AllocReg(S, i, allow)
       [] S.reg[i] # NULL /\ S.reg[i] \in allow -> {S}
       [] S.reg[i] # NULL /\ S.reg[i] \notin allow /\ candidates # {} ->
            {Move(T, S.reg[i], T.reg[i], i) :
               T \in AllocReg(Retire(S, S.reg[i]), i, candidates)}
       [] OTHER -> AllocReg(Evict(S, i), i, allow)

FindRegFor2(S, a, alla, b, allb) ==
  CASE a = b -> FindRegFor(S, a, alla \cap allb)
    [] a # b /\ S.reg[b] \in allb -> FindRegFor(S, a, alla \ {S.reg[b]})
    [] OTHER -> UNION {FindRegFor(T, b, allb \ {T.reg[a]}) :
                         T \in FindRegFor(S, a, alla)}

\* asm_maybe_spill: value i, in a register, is stored in its slot if it has one.
AsmMaybeSpill(S, i) ==
  IF S.ar[i] = 0 THEN S ELSE Move(S, Slot(S, i), S.reg[i], i)

PrepareResultReg(S, i, allow) ==
  {AsmMaybeSpill(T, i) : T \in FindRegFor(S, i, allow)}

\* Faulty variants: the register is free and still has its value; the slot is
\* kept.
FreeResourcesReserved(S, i) ==
  LET T == IF S.reg[i] = NULL THEN S ELSE Retire(S, S.reg[i])
  IN [T EXCEPT !.ar[i] = 0]

FreeRegisterOnly(S, i) ==
  IF S.reg[i] = NULL THEN S ELSE ClearReg(Retire(S, S.reg[i]), i)

FreeResourcesOf(S, i) ==
  LET T == IF S.reg[i] = NULL THEN S ELSE ClearReg(Retire(S, S.reg[i]), i)
  IN [T EXCEPT !.ar[i] = 0]

\* Faulty variant: the value in the register is forgotten.
EvictIfActiveNot(S, r) == S

EvictIfActive(S, r) ==
  IF S.active[r] = NULL THEN S ELSE Evict(S, S.active[r])

\* releaseRegisters: what the code below needs is of no interest above.
ReleaseRegisters(S) ==
  LET held == {S.active[r] : r \in InUse(S.active)}
      cleared == [i \in DOMAIN S.reg |-> IF i \in held THEN NULL ELSE S.reg[i]]
  IN [S EXCEPT !.free = @ \cup InUse(S.active),
               !.active = [r \in DOMAIN S.active |-> NULL],
               !.reg = cleared, !.needs = {}]

Provided(S) ==
  {<<r, S.active[r]>> : r \in InUse(S.active)} \cup
    {<<Slot(S, i), i>> : i \in {j \in DOMAIN S.ar :
                                  S.ar[j] # 0 /\ ~IsAlloc(S, j)}}

\* Invariants 1 and 2 of RegAlloc.h.
Consistent(S) ==
  /\ \A r \in DOMAIN S.active : r \in S.free <=> S.active[r] = NULL
  /\ \A r \in InUse(S.active) : S.reg[S.active[r]] = r
  /\ \A i \in DOMAIN S.reg : S.reg[i] # NULL => S.active[S.reg[i]] = i

\* No two values share a stack slot.
Disjoint(S) ==
  \A i, j \in DOMAIN S.ar : S.ar[i] = S.ar[j] /\ S.ar[i] # 0 => i = j

=============================================================================
