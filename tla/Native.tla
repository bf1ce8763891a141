------------------------------- MODULE Native -------------------------------
(***************************************************************************)
(* The meaning of the scripts of module Script, for any back end.          *)
(*                                                                         *)
(* The state of RegState has here two more fields: mach, the description   *)
(* of the processor, and kind, the kind of each value; while a script runs *)
(* it also has env, the registers its variables hold, and free code space  *)
(* that is known to be enough (protected).                                 *)
(***************************************************************************)
EXTENDS Script, Integers

CONSTANT NULL

SlotAt(s) == <<"none", "slot1", "slot2", "slot3", "slot4", "slot5">>[s + 1]

IsAlloc(S, i) == S.kind[i] = "alloc"

\* canRemat: a sum, while what is added to is in a register for addresses.
CanRemat(S, i) ==
  /\ S.kind[i] \in S.mach.remat
  /\ S.kind[i] = "lea" => S.reg[1] # NULL /\ S.reg[1] \in S.mach.bases

\* asm_restore: from its slot, unless it can be computed again or the caller has
\* left it on the stack; what is pushed on a stack register finds it empty.
NeedsSlot(S, i) == ~CanRemat(S, i) /\ S.kind[i] # "arg"

RestoreReads(S, i, r) ==
  {<<x, Empty>> : x \in {r} \cap S.mach.stack} \cup
  CASE NeedsSlot(S, i) -> {<<SlotAt(S.ar[i]), i>>}
    [] ~NeedsSlot(S, i) /\ S.kind[i] = "arg" -> {<<"args", i>>}
    [] ~NeedsSlot(S, i) /\ S.kind[i] = "lea" -> {<<S.reg[1], 1>>}
    [] OTHER -> {}

RestoreTrash(S, i) == S.mach.restoreTrash

\* nRegCopyCandidates.
CopyCandidates(S, r, allow) ==
  allow \cap UNION {c \in S.mach.classes : r \in c}

\* findVictim: a value that can be computed again has no priority at all, a
\* register just used (S.used) has the highest.
FindVictim(S, allow) ==
  LET act == {r \in allow : S.active[r] # NULL}
      remat == {r \in act : CanRemat(S, S.active[r])}
  IN CASE remat # {} -> remat
       [] remat = {} /\ act \ S.used # {} -> act \ S.used
       [] OTHER -> act

\* allocReg for a temporary: a saved register if one is free, the first of them.
FirstReg(S, regs) ==
  LET best == IF regs \cap S.mach.saved # {} THEN regs \cap S.mach.saved ELSE regs
      ord == S.mach.order
  IN ord[CHOOSE n \in DOMAIN ord : /\ ord[n] \in best
                                   /\ \A m \in 1..(n - 1) : ord[m] \notin best]

\* Of the victims always the same one.
TempFor(S, i) ==
  LET allow == S.mach.tempRegs
  IN IF S.kind[i] \notin S.mach.tempKinds THEN NULL
     ELSE IF allow \cap S.free # {} THEN FirstReg(S, allow \cap S.free)
     ELSE CHOOSE r \in FindVictim(S, allow) : TRUE

INSTANCE RegState

-----------------------------------------------------------------------------
At(S, x) == IF x \in DOMAIN S.env THEN S.env[x] ELSE x
Where(S, reads) == {<<At(S, p[1]), p[2]>> : p \in reads}
Allowed(S, allow, but) == allow \ {At(S, x) : x \in but}
Name(S, r, loc) ==
  [S EXCEPT !.env = [x \in DOMAIN @ \cup {r} |-> IF x = r THEN loc ELSE @[x]]]

\* useActive.
UseAs(S, r, i) == [Name(S, r, S.reg[i]) EXCEPT !.used = @ \cup {S.reg[i]}]
NameReg(r, i, set) == {UseAs(T, r, i) : T \in set}

\* prepareResultReg: a stack register the result was not expected in is popped
\* after the result is stored.
NameResult(S, r, i, allow) ==
  LET popped(T) == IF S.reg[i] # T.reg[i] /\ T.reg[i] \in S.mach.stack
                     THEN Write(T, T.reg[i], Empty, {<<T.reg[i], i>>}) ELSE T
  IN {UseAs(AsmMaybeSpill(popped(T), i), r, i) : T \in FindRegFor(S, i, allow)}

\* deprecated_prepResultReg: the result is stored and given up at once.
NamePrep(S, r, i, allow) ==
  {FreeResourcesOf(AsmMaybeSpill(UseAs(T, r, i), i), i) :
     T \in FindRegFor(S, i, allow)}

GetBaseReg(S, r, i, allow) ==
  IF IsAlloc(S, i) THEN {Name(FindMemFor(S, i), r, S.mach.fp)}
                   ELSE NameReg(r, i, FindRegFor(S, i, allow))

\* findRegFor2 names both registers.
NameReg2(ra, a, rb, b, set) ==
  {UseAs(UseAs(T, ra, a), rb, b) : T \in set}

\* allocTempReg: the register is retired at once.
AllocTempReg(S, r, allow) ==
  IF allow \cap S.free # {}
    THEN {Name(S, r, FirstReg(S, allow \cap S.free))}
    ELSE {Name(Evict(S, S.active[x]), r, x) : x \in FindVictim(S, allow)}

\* evictSomeActiveRegs, one register after the other; of the saved registers
\* only those whose values can be computed again.
EvictOne(S, regs, r) == IF r \in regs THEN EvictIfActive(S, r) ELSE S

EvictAll(S, regs) ==
  LET ord == S.mach.order
      after[n \in 0..Len(ord)] ==
        IF n = 0 THEN {S} ELSE {EvictOne(T, regs, ord[n]) : T \in after[n - 1]}
  IN after[Len(ord)]

EvictScratch(S, locs) ==
  LET computed == {r \in S.mach.saved : /\ S.active[r] # NULL
                                        /\ CanRemat(S, S.active[r])}
  IN UNION {EvictAll(T, (S.mach.managed \ S.mach.saved) \ locs) :
              T \in EvictAll(S, computed \ locs)}

\* releaseRegisters: what is needed stays.
Vacated(S) == [ReleaseRegisters(S) EXCEPT !.needs = S.needs]

\* assignSavedRegs: the code after the end of the fragment reads what the saved
\* registers had at its beginning.
AssignSavedRegs(S) ==
  LET Saved == {i \in DOMAIN S.kind : S.kind[i] = "saved"}
  IN IF Saved = {} THEN S
     ELSE LET i == CHOOSE i \in Saved : TRUE
          IN Read(TakeReg(S, i, S.mach.savedParam), {<<S.mach.savedParam, i>>})

\* intersectRegisterState, where every register but one is free, so that the order of
\* evictions is of no account: what was in a stack register is popped first.
Differing(S, saved) == {r \in S.mach.managed : S.active[r] # saved.active[r]}

Popped(S, r, i) ==
  IF r \in S.mach.stack THEN Write(S, r, Empty, {<<r, i>>}) ELSE S

Back(S, saved, regs, r) ==
  LET i == saved.active[r]
  IN IF r \in regs /\ i # NULL THEN TakeReg(Popped(S, r, i), i, r) ELSE S

Intersect(S, saved) ==
  LET differ == Differing(S, saved)
      ord == S.mach.order
      after[n \in 0..Len(ord)] ==
        IF n = 0 THEN EvictAll(S, differ)
        ELSE {Back(T, saved, differ, ord[n]) : T \in after[n - 1]}
  IN after[Len(ord)]

\* asm_leave_trace: the exit leaves the state as it was, but for the slots.
EnterExit(S) == [Vacated(S) EXCEPT !.needs = {}, !.saved = <<S>>]

LeaveExit(S) ==
  LET entered == S.saved[1]
  IN {[T EXCEPT !.needs = @ \cup entered.needs, !.saved = <<>>] :
        T \in Intersect(S, entered)}

Holds(S, c) ==
  CASE c[1] = "inreg" -> S.reg[c[2]] # NULL
    [] c[1] = "inmask" -> S.reg[c[2]] \in c[3]
    [] c[1] = "extant" -> Extant(S, c[2])
    [] c[1] = "inar" -> S.ar[c[2]] # 0
    [] c[1] = "same" -> At(S, c[2]) = At(S, c[3])
    [] c[1] = "oneof" -> At(S, c[2]) \in c[3]

\* Unless the code space is protected a jump to another piece of code may come
\* between two instructions: underrunProtect.
PageBreak(S) ==
  IF S.protected > 0 \/ S.mach.breakTrash = {} THEN S ELSE Clobber(S, S.mach.breakTrash)

Emit(S, loc, i, reads) ==
  PageBreak(IF loc = "none" THEN Read(S, Where(S, reads))
                            ELSE Write(S, At(S, loc), i, Where(S, reads)))

\* The states one step of a script may leave.
Do(S, s, n) ==
  CASE s[1] = "op" -> {Emit(S, s[2], s[3], s[4])}
    [] s[1] = "result" ->
         NameResult(S, s[2], s[3], Allowed(S, s[4], s[5]))
    [] s[1] = "prep" -> NamePrep(S, s[2], s[3], Allowed(S, s[4], s[5]))
    [] s[1] = "free" -> {FreeResourcesOf(S, s[2])}
    [] s[1] = "find" ->
         NameReg(s[2], s[3], FindRegFor(S, s[3], Allowed(S, s[4], s[5])))
    [] s[1] = "specific" ->
         NameReg("w", s[2], FindRegFor(S, s[2], {At(S, s[3])}))
    [] s[1] = "find2" ->
         NameReg2(s[2], s[3], s[5], s[6],
                  FindRegFor2(S, s[3], Allowed(S, s[4], s[8]),
                              s[6], Allowed(S, s[7], s[8])))
    [] s[1] = "base" ->
         GetBaseReg(S, s[2], s[3], Allowed(S, s[4], s[5]))
    [] s[1] = "base2" ->
         IF IsAlloc(S, s[6])
           THEN {Name(UseAs(T, s[2], s[3]), s[5], S.mach.fp) :
                   T \in FindRegFor(FindMemFor(S, s[6]), s[3], s[4])}
           ELSE NameReg2(s[2], s[3], s[5], s[6],
                         FindRegFor2(S, s[3], s[4], s[6], s[7]))
    [] s[1] = "mem" ->
         LET T == FindMemFor(S, s[3]) IN {Name(T, s[2], Slot(T, s[3]))}
    [] s[1] = "inregor" ->
         {Name(S, s[2], IF S.reg[s[3]] # NULL THEN S.reg[s[3]] ELSE At(S, s[4]))}
    [] s[1] = "take" ->
         {IF S.reg[s[2]] # NULL THEN S ELSE TakeReg(S, s[2], At(S, s[3]))}
    [] s[1] = "temp" -> AllocTempReg(S, s[2], Allowed(S, s[3], s[4]))
    [] s[1] = "evict" -> {EvictIfActive(S, At(S, s[2]))}
    [] s[1] = "scratch" -> EvictScratch(S, {At(S, x) : x \in s[2]})
    [] s[1] = "unreached" -> {[S EXCEPT !.needs = {}]}
    [] s[1] = "release" -> {Vacated(S)}
    [] s[1] = "assign" -> {AssignSavedRegs(S)}
    [] s[1] = "enter" -> {EnterExit(S)}
    [] s[1] = "leave" -> LeaveExit(S)
    [] s[1] = "let" -> {Name(S, s[2], At(S, s[3]))}
    [] s[1] = "trash" -> {Clobber(S, {At(S, x) : x \in s[2]})}
    [] s[1] = "protect" -> {[S EXCEPT !.protected = @ + 1]}
    [] s[1] = "unprotect" -> {[S EXCEPT !.protected = @ - 1]}
    [] s[1] = "unless" -> {IF Holds(S, s[2]) THEN S ELSE [S EXCEPT !.to = n + s[3]]}
    [] s[1] = "jump" -> {[S EXCEPT !.to = n + s[2]]}
    [] s[1] = "fork" -> {[S EXCEPT !.to = n + m] : m \in s[2]}

Proceed(S, s, n) == IF n <= S.to THEN {S} ELSE Do(S, s, n)

Run(S, code) ==
  LET after[n \in 0..Len(code)] ==
        IF n = 0 THEN {S} ELSE UNION {Proceed(T, code[n], n) : T \in after[n - 1]}
  IN after[Len(code)]

=============================================================================
