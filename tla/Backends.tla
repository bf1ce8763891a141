------------------------------ MODULE Backends ------------------------------
(***************************************************************************)
(* Assembler::gen over the code generators of all back ends.               *)
(***************************************************************************)
EXTENDS Native, Upkeep

CONSTANTS
  Programs,   \* for each back end, the kinds of the values of its programs
  Targets,    \* the back ends
  MachineOf,  \* of each back end, the processor
  DefsOf,     \* of each back end, program and value, the code that may define it
  UsesOf,     \* ... the code of what may be read next and defines no value
  PrologueOf, \* of each back end, the code of the prologue
  MaxInstr(_, _) \* bound on the instructions read that define no value, for a
                 \* back end and a program

\* Values are numbered, kinds are names.
ASSUME ProgramsAssumption ==
  /\ NULL \notin Nat
  /\ \A t \in Targets : Programs[t] \subseteq Seq(STRING)

\* Every managed register has its place in the order.  What is restored with the
\* help of a temporary is a double, and the temporary is no register for doubles
\* (asm_restore of NativeX64.cpp).
IsMachine(m) ==
  /\ NULL \notin m.managed
  /\ m.saved \subseteq m.managed
  /\ m.order \in Seq(STRING)
  /\ \A r \in m.managed : \E n \in 1..Len(m.order) : m.order[n] = r
  /\ \A n, l \in 1..Len(m.order) : m.order[n] = m.order[l] => n = l
  /\ m.savedParam \in m.managed \ m.fpr
  /\ m.tempKinds \subseteq FpKinds
  /\ m.tempRegs \subseteq m.managed \ m.fpr
  /\ m.tempKinds # {} => m.tempRegs # {}

ASSUME MachineAssumption == \A t \in Targets : IsMachine(MachineOf[t])

\* The code generators follow the rules of Upkeep, and what defines a value gives
\* up its register and its slot.
ASSUME UpkeepAssumption ==
  \A t \in Targets : \A k \in Programs[t] : \A i \in 1..Len(k) :
    /\ \A code \in DefsOf[t][k][i] :
         /\ Len(code) \in Nat
         /\ \A F \in Ends(MachineOf[t], k, i, code) : F.ok /\ i \in F.dead
    /\ \A code \in UsesOf[t][k][i] :
         /\ Len(code) \in Nat
         /\ \A F \in Ends(MachineOf[t], k, i, code) : F.ok

VARIABLES
  target,   \* the back end
  kind,     \* the program
  free, active, reg, ar,   \* the register state, see RegState
  missing,  \* what the code of the last instruction needs and nothing provides
  next,     \* values 1..next are still to be read
  instrs    \* bounded: instructions read that define no value

regVars == <<free, active, reg, ar, missing>>
vars == <<target, kind, regVars, next, instrs>>

Bound == MaxInstr(target, kind)

State == [mach |-> MachineOf[target], kind |-> kind, free |-> free,
          active |-> active, reg |-> reg, ar |-> ar, needs |-> {},
          env |-> [x \in {} |-> 0], used |-> {}, protected |-> 0, to |-> 0,
          saved |-> <<>>]

\* What the code read so far may need: whatever is in a register or slot, the
\* frame, and the address of stack space, which is relative to it.
Known(S) ==
  Provided(S) \cup S.mach.fixed \cup
    {<<r, Empty>> : r \in S.mach.stack \cap S.free} \cup
    {<<"args", i>> : i \in {j \in DOMAIN S.kind : S.kind[j] = "arg"}} \cup
    {<<S.mach.fp, i>> : i \in {j \in DOMAIN S.ar : S.ar[j] # 0 /\ IsAlloc(S, j)}}

Execute(script) ==
  \E T \in Run([State EXCEPT !.needs = Known(State)], script) :
    /\ free' = T.free
    /\ active' = T.active
    /\ reg' = T.reg
    /\ ar' = T.ar
    /\ missing' = T.needs \ Known(T)

\* endAssembly: the prologue; what it needs the caller provides.
Finish ==
  /\ next = 0
  /\ instrs <= Bound
  /\ \E T \in Run([State EXCEPT !.needs = State.mach.fixed], PrologueOf[target]) :
       missing' = T.needs \ T.mach.entry
  /\ instrs' = Bound + 1
  /\ UNCHANGED <<target, kind, free, active, reg, ar, next>>

\* The instruction was the last one of its value.
Passed == next' = next - 1 /\ UNCHANGED <<target, kind, instrs>>

\* Nobody reads the value: the instruction is not generated.
Skip ==
  /\ next > 0
  /\ instrs > 0
  /\ ~Extant(State, next)
  /\ UNCHANGED regVars
  /\ Passed

\* LIR_allocp: the space has a slot, the instruction no code.
DefineAlloc ==
  /\ next > 0
  /\ instrs > 0
  /\ kind[next] = "alloc"
  /\ Extant(State, next)
  /\ LET S == IF reg[next] = NULL THEN State ELSE Evict(State, next)
         T == FreeResourcesOf(S, next)
     IN /\ free' = T.free
        /\ active' = T.active
        /\ reg' = T.reg
        /\ ar' = T.ar
        /\ missing' = {}
  /\ Passed

Define ==
  /\ next > 0
  /\ instrs > 0
  /\ Extant(State, next)
  /\ \E script \in DefsOf[target][kind][next] : Execute(script)
  /\ Passed

\* An instruction that defines no value.
Use ==
  /\ next > 0
  /\ instrs < Bound
  /\ \E script \in UsesOf[target][kind][next] : Execute(script)
  /\ instrs' = instrs + 1
  /\ UNCHANGED <<target, kind, next>>

Init ==
  /\ target \in Targets
  /\ kind \in Programs[target]
  /\ free = MachineOf[target].managed
  /\ active = [r \in MachineOf[target].managed |-> NULL]
  /\ reg = [i \in DOMAIN kind |-> NULL]
  /\ ar = [i \in DOMAIN kind |-> 0]
  /\ missing = {}
  /\ next = Len(kind)
  /\ instrs = 0

Next == Skip \/ DefineAlloc \/ Define \/ Use \/ Finish

Spec == Init /\ [][Next]_vars

-----------------------------------------------------------------------------
\* Whatever the code generated for an instruction reads, in a register, in the
\* flags, in a stack slot or in a scratch place the allocator knows nothing of, is
\* put there by the code executed before it: by the same instruction, or, where the
\* register state says the value is, by what will be generated above (the asm_
\* functions of each back end).
NothingMissing == missing = {}

\* Between two instructions the free registers, the active ones and the
\* reservations agree, no two values share a stack slot, and a value is only in a
\* register of its class, whatever the code generators did on the way
\* (RegAlloc.h:64-120).
RegistersConsistent ==
  /\ Consistent(State)
  /\ Disjoint(State)
  /\ \A r \in InUse(active) : kind[active[r]] \in FpKinds <=> r \in State.mach.fpr

\* Code is generated from the last instruction to the first: above the instruction
\* that defines a value no register and no slot is kept for it (each asm_ function
\* that defines a value calls freeResourcesOf).
NothingLeftBehind == \A i \in DOMAIN kind : Extant(State, i) => i <= next

=============================================================================
