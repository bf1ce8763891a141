------------------------------ MODULE RegAlloc ------------------------------
(***************************************************************************)
(* The register allocator, and the parts of the Assembler that drive it    *)
(* (nanojit/RegAlloc.{h,cpp}, nanojit/Assembler.cpp, the X64 back end).    *)
(*                                                                         *)
(* Code is generated backwards: Assembler::gen reads the LIR from its last *)
(* instruction to its first and emits each one in front of what it emitted *)
(* before.  While it does, it keeps where every value must be: in which    *)
(* register (active, reg) and in which stack slot (ar).                    *)
(*                                                                         *)
(* `needs' is what the emitted code reads at its entry before it writes    *)
(* it: pairs of a location and the value that has to be there.  Each       *)
(* emitted instruction rewrites it backwards, so `needs' is the meaning of *)
(* the code, independent of what the allocator believes.  That both agree  *)
(* is what makes the generated code correct.                               *)
(*                                                                         *)
(* Values, the results of LIR instructions, are numbered in program order. *)
(* The program is not fixed: at each step any instruction may be read that *)
(* a well-formed program could have there.                                 *)
(***************************************************************************)
EXTENDS Integers, FiniteSets

CONSTANTS
  Reg,        \* managed registers, numbered as in their masks
  SavedRegs,  \* those a callee preserves
  RetReg,     \* result of a call, address of an indirect call, RAX of idiv
  ArgReg,     \* argument of a call, RDX of idiv
  NumIns,     \* number of values
  Programs,   \* what kinds of values there are, see below
  Label,
  MaxInstr,   \* bound on instructions that define no value
  NULL

Ins == 1..NumIns
Scratch == Reg \ SavedRegs

ASSUME RegAssumption ==
  /\ Reg \subseteq Nat /\ IsFiniteSet(Reg)
  /\ SavedRegs \subseteq Reg
  /\ RetReg \in Scratch
  /\ ArgReg \in Scratch \ {RetReg}
  /\ NumIns \in Nat
  /\ NULL \notin Int

\* In a program p: p.imm are constants, always rematerialised; p.sum values that
\* are operand + constant (value -> operand); p.param the first values, LIR_paramp
\* of kind 1 (value -> saved register).
ASSUME ProgramAssumption ==
  \A p \in Programs :
    /\ p.imm \subseteq Ins
    /\ DOMAIN p.sum \subseteq Ins \ p.imm
    /\ \A i \in DOMAIN p.sum : p.sum[i] \in 1..(i - 1)
    /\ DOMAIN p.param \subseteq Ins \ (p.imm \cup DOMAIN p.sum)
    /\ \A i \in DOMAIN p.param : /\ p.param[i] \in SavedRegs
                                  /\ 1..i \subseteq DOMAIN p.param
    /\ \A i, j \in DOMAIN p.param : p.param[i] = p.param[j] => i = j

ASSUME MaxInstrAssumption == MaxInstr \in Nat

VARIABLES
  program,  \* the program read, which stays as it is
  free,     \* RegAlloc::_free
  active,   \* RegAlloc::_active
  reg,      \* the register in each value's reservation, or NULL
  ar,       \* the stack slot in each value's reservation, or 0
  needs,    \* what the emitted code needs at its entry
  labels,   \* LabelStateMap
  lived,    \* values handleLoopCarriedExprs has seen
  next,     \* values 1..next are still to be read
  instrs,   \* bounded: instructions read that define no value
  job       \* the instruction being assembled and how far it is

regVars == <<free, active, reg, ar, needs>>
vars == <<program, regVars, labels, lived, next, instrs, job>>

\* The register state, as the record the operators below work on.
State == [free |-> free, active |-> active, reg |-> reg, ar |-> ar,
          needs |-> needs]
SetState(S) ==
  /\ free' = S.free
  /\ active' = S.active
  /\ reg' = S.reg
  /\ ar' = S.ar
  /\ needs' = S.needs

Imm == program.imm
LeaOf == program.sum
Param == program.param

-----------------------------------------------------------------------------
(* The register state.  A slot is at FP - index (arDisp).                  *)

SlotAt(s) == -s

CanRemat(S, i) ==
  i \in Imm \/ (i \in DOMAIN LeaOf /\ S.reg[LeaOf[i]] # NULL)

NeedsSlot(S, i) == ~CanRemat(S, i)

RestoreReads(S, i, r) ==
  CASE NeedsSlot(S, i) -> {<<SlotAt(S.ar[i]), i>>}
    [] ~NeedsSlot(S, i) /\ i \in Imm -> {}
    [] OTHER -> {<<S.reg[LeaOf[i]], LeaOf[i]>>}

\* One class of registers; asm_restore needs no other register.
RestoreTrash(S, i) == {}
TempFor(S, i) == NULL
IsAlloc(S, i) == FALSE
CopyCandidates(S, r, allow) == allow

\* findVictim: whatever the priorities are.
FindVictim(S, allow) == {r \in allow : S.active[r] # NULL}

INSTANCE RegState

AssignSavedRegs(S) ==
  LET saved == {Param[p] : p \in DOMAIN Param}
  IN [S EXCEPT !.active = [r \in Reg |-> IF r \in saved
                             THEN CHOOSE p \in DOMAIN Param : Param[p] = r
                             ELSE @[r]],
               !.free = @ \ saved,
               !.reg = [i \in Ins |-> IF i \in DOMAIN Param THEN Param[i]
                                                           ELSE @[i]]]

\* What the code after the end of the fragment, or of an exit, reads.
ReadSavedRegs(S) == Read(S, {<<Param[p], p>> : p \in DOMAIN Param})

-----------------------------------------------------------------------------
(* The code of one instruction that defines a value, by shape.  All give   *)
(* the set of register states the instruction may leave.                   *)

\* Where operand a of a two-address instruction is: in the register of the
\* result, if the instruction is the last to use it.
OperandReg(S, i, a) == IF S.reg[a] # NULL THEN S.reg[a] ELSE S.reg[i]

\* From the code itself on: OP rr, ... with MR rr, ra before it; endOpRegs.
TwoAddress(S, i, a, reads) ==
  LET rr == S.reg[i]
      ra == OperandReg(S, i, a)
      T  == Write(S, rr, i, {<<rr, a>>} \cup reads)
      U  == FreeResourcesOf(IF ra = rr THEN T ELSE Move(T, rr, ra, a), i)
  IN IF U.reg[a] # NULL THEN U ELSE AllocSpecificReg(U, a, ra)

\* beginOp1Regs: R = op A, or R = A + constant.
Unary(S, i, a) ==
  {TwoAddress(T, i, a, {}) : T \in PrepareResultReg(S, i, Reg)}

\* beginOp2Regs: R = A op B.
Binary(S, i, a, b) ==
  IF a = b
    THEN {TwoAddress(T, i, a, {<<OperandReg(T, i, a), a>>}) :
            T \in PrepareResultReg(S, i, Reg)}
    ELSE UNION {{TwoAddress(U, i, a, {<<U.reg[b], b>>}) :
                   U \in PrepareResultReg(T, i, Reg \ {T.reg[b]})} :
                  T \in FindRegFor(S, b, Reg)}

\* asm_immi, asm_param: the code, if any, reads no value.
Nullary(S, i, allow, reads) ==
  {FreeResourcesOf(Write(T, T.reg[i], i, reads), i) :
     T \in PrepareResultReg(S, i, allow)}

\* beginLoadRegs, endLoadRegs: R = [A + constant], in two registers.
Load(S, i, a) ==
  UNION {{FreeResourcesOf(Write(U, U.reg[i], i, {<<U.reg[a], a>>}), i) :
            U \in FindRegFor(T, a, Reg \ {T.reg[i]})} :
           T \in PrepareResultReg(S, i, Reg)}

\* asm_div: RAX = A / B clobbers RDX; MR RDX, RAX and MR RAX, ra before it.
DivCode(S, i, a, b) ==
  LET ra == IF S.reg[a] # NULL THEN S.reg[a] ELSE RetReg
      T  == Write(Clobber(S, {ArgReg}), RetReg, i,
                  {<<RetReg, a>>, <<ArgReg, a>>, <<S.reg[b], b>>})
      U  == Move(T, ArgReg, RetReg, a)
      V  == FreeResourcesOf(IF ra = RetReg THEN U
                                           ELSE Move(U, RetReg, ra, a), i)
  IN IF V.reg[a] # NULL THEN V ELSE AllocSpecificReg(V, a, ra)

Div(S, i, a, b) ==
  UNION {{DivCode(U, i, a, b) :
            U \in FindRegFor(T, b, Reg \ {RetReg, ArgReg})} :
           T \in PrepareResultReg(EvictIfActive(S, ArgReg), i, {RetReg})}

\* asm_cmov: R = condition on A ? T : F.  The comparison comes before the copy
\* of T to the result's register, so A is found last.
CmovCode(S, i, t, f) ==
  LET rr == S.reg[i]
      rt == OperandReg(S, i, t)
      T  == Write(S, rr, i, {<<rr, t>>, <<S.reg[f], f>>})
      U  == FreeResourcesOf(IF rt = rr THEN T ELSE Move(T, rr, rt, t), i)
  IN IF U.reg[t] # NULL THEN U ELSE AllocSpecificReg(U, t, rr)

Compare(S, a, b) ==
  {Read(T, {<<T.reg[a], a>>, <<T.reg[b], b>>}) : T \in FindRegFor2(S, a, Reg, b, Reg)}

Cmov(S, i, a, t, f) ==
  UNION {UNION {Compare(CmovCode(U, i, t, f), a, a) :
                  U \in FindRegFor(T, f, Reg \ {T.reg[i]})} :
           T \in PrepareResultReg(S, i, Reg)}

-----------------------------------------------------------------------------
(* gen: instructions that define a value.                                  *)

Reading == job.at = "read"
Value == next > 0 /\ instrs > 0 /\ Reading
Passed == next' = next - 1 /\ UNCHANGED <<labels, lived, instrs, job>>
Becomes(set) == \E S \in set : SetState(S) /\ Passed

\* What LIR_live names below a loop is defined before the loop: the front end
\* sees to it.
Readable(i) == /\ Value
               /\ i = next
               /\ \A l \in Label, r \in Reg : labels[l].at = "awaited"
                                                => labels[l].active[r] # i
Definable(i) == Readable(i) /\ Extant(State, i)

Skip ==
  /\ Value
  /\ ~Extant(State, next)
  /\ UNCHANGED regVars
  /\ Passed

DefineImm(i) ==
  /\ Definable(i)
  /\ i \in Imm
  /\ Becomes(Nullary(State, i, Reg, {}))

DefineParam(i) ==
  /\ Definable(i)
  /\ i \in DOMAIN Param
  /\ Becomes(Nullary(State, i, {Param[i]}, {}))

DefineLea(i) ==
  /\ Definable(i)
  /\ i \in DOMAIN LeaOf
  /\ Becomes(Unary(State, i, LeaOf[i]))

\* Any other value may be defined by any of these.
Special == Imm \cup DOMAIN LeaOf \cup DOMAIN Param
Other(i) == Definable(i) /\ i \notin Special

DefineBinary(i, a, b) == Other(i) /\ Becomes(Binary(State, i, a, b))
DefineLoad(i, a) == Other(i) /\ Becomes(Load(State, i, a))
DefineDiv(i, a, b) == Other(i) /\ Becomes(Div(State, i, a, b))
DefineCmov(i, a, t, f) == Other(i) /\ Becomes(Cmov(State, i, a, t, f))

-----------------------------------------------------------------------------
(* gen: instructions that define no value.  Those that run a loop over     *)
(* registers or values are several steps; job says where they are.         *)

\* at: what comes next; op: the instruction; todo: the registers or values the
\* loop has still to visit; adds: those another loop of the same function has
\* to; saved: the registers to merge with; main: the needs of the code that an
\* exit leaves.
Job(at, op, todo) == [at |-> at, op |-> op, todo |-> todo, adds |-> {},
                      saved |-> NULL, main |-> {}]
Idle == Job("read", [k |-> "none"], {})
Become(j) == job' = j

\* unionRegisterState and intersectRegisterState, from registers act: only the
\* registers that differ need a visit.
Merge(at, op, act, saved) ==
  [Job(at, op, {r \in Reg : act[r] # saved[r]}) EXCEPT !.saved = saved]

Instr ==
  /\ Reading
  /\ instrs < MaxInstr
  /\ DOMAIN Param \subseteq 1..next
  /\ instrs' = instrs + 1
  /\ UNCHANGED next

Body == Instr /\ instrs > 0

OneStep(set) == /\ \E S \in set : SetState(S)
                /\ UNCHANGED <<labels, lived, job>>

\* LIR_reti and the like; what is below is not reached from above.
Ret(v) ==
  /\ Instr
  /\ OneStep(FindRegFor(
       ReadSavedRegs(Read(AssignSavedRegs(ReleaseRegisters(State)),
                          {<<RetReg, v>>})), v, {RetReg}))

\* LIR_sti, LIR_stq: two operands in two registers.
Store(v, base) == Body /\ OneStep(Compare(State, v, base))

Fence ==
  /\ Body
  /\ Become(Job("evict", [k |-> "fence"], InUse(active)))
  /\ UNCHANGED <<regVars, labels, lived>>

\* asm_call, up to the call itself.  v is 0 when there is no result; one that
\* is not used is still prepared.
Call(v, addr, arg) ==
  /\ IF v = 0 THEN Body
              ELSE Readable(v) /\ v \notin Special /\ UNCHANGED <<next, instrs>>
  /\ \E S \in IF v = 0 THEN {State} ELSE PrepareResultReg(State, v, {RetReg}) :
       /\ SetState(S)
       /\ Become(Job("evict",
                     [k |-> "call", v |-> v, addr |-> addr, arg |-> arg],
                     InUse(S.active) \ IF v = 0 THEN {} ELSE {RetReg}))
  /\ UNCHANGED <<labels, lived>>

\* asm_jmp, asm_jcc to a label already seen.  What is live there is defined
\* before the jump, in a well-formed program.
JumpForward(l, op, act) ==
  /\ labels[l].at = "placed"
  /\ labels[l].live \subseteq 1..next
  /\ Become(Merge("union", op, act, labels[l].active))
  /\ UNCHANGED <<labels, lived>>

JmpForward(l) ==
  /\ Instr
  /\ SetState(ReleaseRegisters(State))
  /\ JumpForward(l, [k |-> "jmp", l |-> l], [r \in Reg |-> NULL])

JccForward(l, a, b) ==
  /\ Body
  /\ UNCHANGED regVars
  /\ JumpForward(l, [k |-> "jcc", l |-> l, a |-> a, b |-> b], active)

\* The same to a label further up: handleLoopCarriedExprs comes first.
JumpBack(l, op) ==
  /\ labels[l].at # "placed"
  /\ Become([Job("lives", op, op.live) EXCEPT !.adds = DOMAIN Param])
  /\ UNCHANGED <<labels, lived>>

JmpBack(l, live) ==
  /\ Instr
  /\ SetState(ReleaseRegisters(State))
  /\ JumpBack(l, [k |-> "jmp", l |-> l, live |-> live])

JccBack(l, live, a, b) ==
  /\ Body
  /\ UNCHANGED regVars
  /\ JumpBack(l, [k |-> "jcc", l |-> l, live |-> live, a |-> a, b |-> b])

\* LIR_label.
LabelUnseen(l) ==
  /\ Body
  /\ labels[l].at = "unseen"
  /\ labels' = [labels EXCEPT ![l] =
                  [@ EXCEPT !.at = "placed", !.active = active, !.needs = needs,
                            !.live = {i \in Ins : Extant(State, i)}]]
  /\ UNCHANGED <<regVars, lived, job>>

\* The top of a loop.  In a well-formed program every value used in the loop or
\* after it and defined before it was in a LIR_live below the loop.
LabelAwaited(l) ==
  /\ Body
  /\ labels[l].at = "awaited"
  /\ \A i \in Ins : Extant(State, i) => i \in Imm \cup labels[l].lives
  /\ Become(Merge("intersect", [k |-> "label", l |-> l], active,
                  labels[l].active))
  /\ UNCHANGED <<regVars, labels, lived>>

\* LIR_xt, LIR_xf: asm_leave_trace emits the exit, which goes on from the
\* registers as they are, in a block of its own.
Exit(a, b) ==
  /\ Body
  /\ SetState(ReadSavedRegs(AssignSavedRegs(ReleaseRegisters(State))))
  /\ job' = [Merge("intersect", [k |-> "exit", a |-> a, b |-> b],
                   AssignSavedRegs(ReleaseRegisters(State)).active, active)
               EXCEPT !.main = needs]
  /\ UNCHANGED <<labels, lived>>

-----------------------------------------------------------------------------
(* The loops.                                                              *)

Lowest(set) == CHOOSE x \in set : \A y \in set : x <= y
Highest(set) == CHOOSE x \in set : \A y \in set : y <= x

Visit(x) == job' = [job EXCEPT !.todo = @ \ {x}]
Stays == UNCHANGED <<labels, next, instrs>>

\* handleLoopCarriedExprs: reserveSavedRegs, then the operands of LIR_live.
ReserveStep ==
  /\ job.at = "lives"
  /\ job.adds # {}
  /\ LET p == Lowest(job.adds) IN
       /\ SetState(FindMemFor(State, p))
       /\ job' = [job EXCEPT !.adds = @ \ {p}]
  /\ UNCHANGED lived /\ Stays

\* Faulty variant: a value that is given a register is given no slot.
HandleLiveRegOnly(S, i) == IF i \in Imm THEN {S} ELSE FindRegFor(S, i, Reg)

HandleLive(S, i) ==
  LET T == FindMemFor(S, i)
  IN IF i \in Imm THEN {T} ELSE FindRegFor(T, i, Reg)

LivesStep ==
  /\ job.at = "lives"
  /\ job.adds = {}
  /\ \E i \in job.todo :
       /\ \E S \in HandleLive(State, i) : SetState(S)
       /\ Visit(i)
       /\ lived' = lived \cup {i}
  /\ Stays

\* asm_jcc evicts everything when it is the first jump to the label.
Handled ==
  /\ job.at = "lives"
  /\ job.adds = {}
  /\ job.todo = {}
  /\ LET l == job.op.l IN
       Become(CASE labels[l].at = "awaited" ->
                     Merge("intersect", job.op, active, labels[l].active)
                [] labels[l].at = "unseen" /\ job.op.k = "jcc" ->
                     Job("evict", job.op, InUse(active))
                [] OTHER -> Job("evict", job.op, {}))
  /\ UNCHANGED <<regVars, lived>> /\ Stays

\* evictScratchRegsExcept also evicts from the saved registers what can be
\* computed again; it does so first.
Evictable(r) == job.op.k = "call" /\ r \in SavedRegs => CanRemat(State, active[r])
NextToEvict ==
  LET saved == job.todo \cap SavedRegs
  IN Lowest(IF job.op.k = "call" /\ saved # {} THEN saved ELSE job.todo)

EvictStep ==
  /\ job.at = "evict"
  /\ job.todo # {}
  /\ LET r == NextToEvict IN
       /\ SetState(IF Evictable(r) THEN Evict(State, active[r]) ELSE State)
       /\ Visit(r)
  /\ UNCHANGED lived /\ Stays

Merging == job.at \in {"union", "intersect"}
NextToMerge(set) == IF job.at = "union" THEN Lowest(set) ELSE Highest(set)

\* Faulty variant: an intersection keeps what only the current state has.
MustEvictNever(r) == active[r] # NULL /\ job.saved[r] # NULL

\* A union keeps what the other state has nothing for.
MustEvict(r) ==
  active[r] # NULL /\ (job.at = "intersect" \/ job.saved[r] # NULL)

MergeStep ==
  /\ Merging
  /\ job.todo # {}
  /\ LET r == NextToMerge(job.todo) IN
       /\ SetState(IF MustEvict(r) THEN Evict(State, active[r]) ELSE State)
       /\ job' = [job EXCEPT !.todo = @ \ {r},
                    !.adds = IF job.saved[r] # NULL THEN @ \cup {r} ELSE @]
  /\ UNCHANGED lived /\ Stays

AddStep ==
  /\ Merging
  /\ job.todo = {}
  /\ job.adds # {}
  /\ LET r == NextToMerge(job.adds) IN
       /\ \E S \in FindRegFor(State, job.saved[r], {r}) : SetState(S)
       /\ job' = [job EXCEPT !.adds = @ \ {r}]
  /\ UNCHANGED lived /\ Stays

-----------------------------------------------------------------------------
(* What is emitted once the loops are done.                                *)

Done(k) == /\ job.at \in {"evict", "union", "intersect"}
           /\ job.todo = {}
           /\ job.adds = {}
           /\ job.op.k = k
           /\ job' = Idle
           /\ UNCHANGED lived

EndFence == Done("fence") /\ UNCHANGED regVars /\ Stays

\* asm_regarg: a constant goes straight to the register.
RegArg(S, i, r) ==
  IF i \in Imm THEN {Write(S, r, i, {})} ELSE FindRegFor(S, i, {r})

\* CALL, which leaves nothing in the scratch registers but its result; then the
\* address and the argument.
CallCode(S, v, addr, arg) ==
  LET T == IF v = 0 THEN S ELSE Write(S, RetReg, v, {})
      U == Read(Clobber(T, Scratch),
                {<<ArgReg, arg>>} \cup
                  IF addr = 0 THEN {} ELSE {<<RetReg, addr>>})
      V == IF v = 0 THEN U ELSE FreeResourcesOf(U, v)
  IN UNION {RegArg(W, arg, ArgReg) :
              W \in IF addr = 0 THEN {V} ELSE FindRegFor(V, addr, {RetReg})}

EndCall ==
  /\ Done("call")
  /\ \E S \in CallCode(State, job.op.v, job.op.addr, job.op.arg) : SetState(S)
  /\ next' = IF job.op.v = 0 THEN next ELSE next - 1
  /\ UNCHANGED <<labels, instrs>>

\* What a jump to a loop's top offers: the registers as they are there, and the
\* slots of what spans the loop.
Promise ==
  {<<r, active[r]>> : r \in InUse(active)} \cup
    {<<Slot(State, i), i>> : i \in {j \in lived \ Imm : ar[j] # 0}}

\* The branch itself, and before it the comparison.
JumpNeeds(l) ==
  CASE labels[l].at = "placed" -> labels[l].needs
    [] labels[l].at = "awaited" -> {n \in labels[l].promise : n[2] <= next}
    [] OTHER -> Promise

AwaitLabel(l) ==
  labels' = IF labels[l].at # "unseen" THEN labels
            ELSE [labels EXCEPT ![l] =
                    [@ EXCEPT !.at = "awaited", !.active = active,
                              !.promise = Promise,
                              !.lives = lived \cap 1..next]]

EndJmp ==
  /\ Done("jmp")
  /\ SetState(Read(State, JumpNeeds(job.op.l)))
  /\ AwaitLabel(job.op.l)
  /\ UNCHANGED <<next, instrs>>

EndJcc ==
  /\ Done("jcc")
  /\ \E S \in Compare(Read(State, JumpNeeds(job.op.l)), job.op.a, job.op.b) :
       SetState(S)
  /\ AwaitLabel(job.op.l)
  /\ UNCHANGED <<next, instrs>>

EndLabel ==
  /\ Done("label")
  /\ labels' = [labels EXCEPT ![job.op.l] =
                  [@ EXCEPT !.at = "placed", !.needs = needs,
                            !.live = {i \in Ins : Extant(State, i)}]]
  /\ UNCHANGED <<regVars, next, instrs>>

\* The exit is emitted; the guard's comparison and branch join it to the rest.
EndExit ==
  /\ Done("exit")
  /\ \E S \in Compare(Read(State, job.main), job.op.a, job.op.b) : SetState(S)
  /\ Stays

-----------------------------------------------------------------------------
Init ==
  /\ program \in Programs
  /\ free = Reg
  /\ active = [r \in Reg |-> NULL]
  /\ reg = [i \in Ins |-> NULL]
  /\ ar = [i \in Ins |-> 0]
  /\ needs = {}
  /\ labels = [l \in Label |-> [at |-> "unseen", active |-> active, needs |-> {},
                                promise |-> {}, lives |-> {}, live |-> {}]]
  /\ lived = {}
  /\ next = NumIns
  /\ instrs = 0
  /\ job = Idle

Define ==
  \E i \in Ins :
    \/ DefineImm(i)
    \/ DefineParam(i)
    \/ DefineLea(i)
    \/ \E a \in 1..(i - 1) :
         \/ DefineLoad(i, a)
         \/ \E b \in 1..(i - 1) :
              \/ DefineBinary(i, a, b)
              \/ DefineDiv(i, a, b)
              \/ \E c \in 1..(i - 1) : DefineCmov(i, a, b, c)
         \/ \E addr \in 0..(i - 1) : Call(i, addr, a)

Use ==
  \E a \in 1..next :
    \/ Ret(a)
    \/ \E b \in 1..next : Store(a, b) \/ Exit(a, b)
    \/ \E addr \in 0..next : Call(0, addr, a)

Jump ==
  \E l \in Label :
    \/ JmpForward(l)
    \/ LabelUnseen(l)
    \/ LabelAwaited(l)
    \/ \E live \in SUBSET (1..next) : JmpBack(l, live)
    \/ \E a, b \in 1..next :
         \/ JccForward(l, a, b)
         \/ \E live \in SUBSET (1..next) : JccBack(l, live, a, b)

Loop == ReserveStep \/ LivesStep \/ Handled \/ EvictStep
          \/ MergeStep \/ AddStep

End == EndFence \/ EndCall \/ EndJmp \/ EndJcc \/ EndLabel \/ EndExit

Step == Skip \/ Define \/ Use \/ Fence \/ Jump \/ Loop \/ End

Next == Step /\ UNCHANGED program

Spec == Init /\ [][Next]_vars

-----------------------------------------------------------------------------
(* Properties.                                                             *)

\* Every managed register is either free or active, active registers and
\* reservations name each other (invariants 1 and 2 of RegAlloc.h), and no two
\* values share a stack slot.
RegistersConsistent == Consistent(State) /\ Disjoint(State)

\* Whatever the emitted code reads at its entry is where the allocator has put
\* it: no restore, move, spill or clobber has been forgotten.
ValuesWhereNeeded == needs \subseteq Provided(State)

\* A value that has been passed holds nothing, so at the top of the fragment
\* everything the code reads has been computed.
NothingOutlivesItsDefinition == Reading => \A i \in Ins : Extant(State, i) => i <= next

\* Jumping back to the top of a loop gives the code there all that it reads.
LoopsGetWhatTheyRead ==
  \A l \in Label :
    labels[l].at = "placed" /\ labels[l].lives # {}
      => labels[l].needs \subseteq labels[l].promise

\* An exit leaves the registers of the main path as it found them.
ExitsLeaveRegistersAlone ==
  job.op.k = "exit" /\ job.todo = {} /\ job.adds = {} => active = job.saved

=============================================================================
