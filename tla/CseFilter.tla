----------------------------- MODULE CseFilter ------------------------------
(***************************************************************************)
(* Common subexpression elimination (class CseFilter of nanojit/LIR.cpp):  *)
(* a stage of the writer pipeline that returns an instruction written      *)
(* before instead of writing the same one again.                           *)
(*                                                                         *)
(* The front end calls it in program order.  The hash tables are sets of   *)
(* instructions.  Beside the filter the module keeps what is true of the   *)
(* code so far, whatever the filter believes: the ways control can reach   *)
(* the end of it, and on each of them which instructions have run, which   *)
(* loaded values memory still holds, and how comparisons came out.         *)
(*                                                                         *)
(* Of the front end it assumes what LIR.h asks for: an instruction uses    *)
(* values that are defined on every way to it, access sets and qualifiers  *)
(* tell the truth, and a label inserted between suspend and resume is      *)
(* reached only from between them, by jumps forward.                       *)
(***************************************************************************)
EXTENDS Integers, Sequences, FiniteSets

CONSTANTS
  Region,            \* the access regions of the embedding
  Place,             \* what a load can name: opcode, base and displacement
  Home,              \* the region each place lies in
  ConstPlace,        \* places never stored to while the fragment runs
  LoadKind,          \* the loads there are: place, access set, qualifier
  CSE_ACC_CONST,     \* the table of CONST loads
  CSE_ACC_MULTIPLE,  \* the table of loads from several regions
  Label,
  MaxIns,            \* bound on the instructions that are written
  MaxSuspended,      \* bound on the nesting of suspend
  NULL

ASSUME CseAssumption ==
  /\ IsFiniteSet(Region)
  /\ Home \in [Place -> Region] /\ ConstPlace \subseteq Place
  /\ LoadKind \subseteq [place : Place, accs : SUBSET Region,
                         qual : {"const", "normal", "volatile"}]
  /\ \A d \in LoadKind : /\ Home[d.place] \in d.accs
                         /\ d.qual = "const" => d.place \in ConstPlace
  \* insLoad asserts this of every load it finds; only the table of CONST
  \* loads holds several access sets.
  /\ \A d, e \in LoadKind :
       d.place = e.place /\ d.qual = "const" /\ e.qual = "const" => d = e
  /\ CSE_ACC_CONST \notin Region /\ CSE_ACC_MULTIPLE \notin Region
  /\ CSE_ACC_CONST # CSE_ACC_MULTIPLE
  /\ MaxIns \in Nat \ {0} /\ MaxSuspended \in Nat

VARIABLES
  ins,        \* the instructions written; 1 is a parameter
  nl,         \* those in the tables of all kinds but loads
  loads,      \* for each table of loads, those in it
  stores,     \* storesSinceLastLoad
  known,      \* knownCmpValues, as pairs
  suspended,
  paths,      \* the ways to reach the end of what is written
  waiting,    \* for each label, the ways on which control has jumped to it
  result      \* what the last call returned, and what it was asked for

filterVars == <<nl, loads, stores, known, suspended>>
vars == <<ins, filterVars, paths, waiting, result>>

CseAcc == Region \cup {CSE_ACC_CONST, CSE_ACC_MULTIPLE}

-----------------------------------------------------------------------------
(* What is true of a path.                                                 *)

New == Len(ins) + 1
With(p) == [p EXCEPT !.has = @ \cup {New}]
Usable(x) == x \in DOMAIN ins /\ \A p \in paths : x \in p.has

\* Whether condition c holds on p: a comparison, or a constant that has been
\* returned for one.
Cond == {c \in DOMAIN ins : ins[c].op \in {"cmp", "imm"}}
Holds(p, c) == IF ins[c].op = "imm" THEN ins[c].x = 1 ELSE ins[c].x \in p.yes

\* xt exits when its condition is true, xf when it is false.
Passes(p, op, c) == IF op = "xt" THEN ~Holds(p, c) ELSE Holds(p, c)

\* A comparison not made before comes out one way or the other.
Decide(p, x) ==
  IF x \in p.yes \cup p.no
  THEN {p}
  ELSE {[p EXCEPT !.yes = @ \cup {x}], [p EXCEPT !.no = @ \cup {x}]}

Reads(i, S) == ins[i].op = "ld" /\ Home[ins[i].place] \in S
\* After a store to the regions S.
Stored(p, S) ==
  [p EXCEPT !.cur = {i \in @ : ins[i].qual = "const" \/ ~Reads(i, S)}]

\* Nothing is known of who jumps to a label.
Unknown == [has |-> {1}, cur |-> {}, yes |-> {}, no |-> {}]

-----------------------------------------------------------------------------
(* Everything but loads: constants, ins1, ins2, ins3, ins4, guards, calls. *)

Return(i, asked) == result' = [ins |-> i, asked |-> asked]

\* Faulty variant: instructions are added though CSE is suspended.
AddAlways(t, i) == t \cup {i}

\* addNL, addL.
Add(t, i) == IF suspended > 0 THEN t ELSE t \cup {i}

Found(key) == {i \in nl : ins[i] = key}

Write(key, ps) ==
  /\ Len(ins) < MaxIns
  /\ ins' = Append(ins, key)
  /\ paths' = ps

\* An instruction like key, asked for as the front end put it; ps are the
\* paths once a new one has run.
FindOrWrite(key, asked, ps) ==
  \/ \E i \in Found(key) :
       /\ Return(i, asked)
       /\ UNCHANGED <<ins, nl, paths>>
  \/ /\ Found(key) = {}
     /\ Write(key, ps)
     /\ nl' = Add(nl, New)
     /\ Return(New, asked)

InsImmI(v, asked) ==
  FindOrWrite([op |-> "imm", x |-> v], asked, {With(p) : p \in paths})

Imm(v) ==
  /\ InsImmI(v, [op |-> "imm", x |-> v])
  /\ UNCHANGED <<loads, stores, known, suspended, waiting>>

\* Arithmetic, and calls of pure functions.
Ins1(x) ==
  LET key == [op |-> "pure", x |-> x] IN
  /\ Usable(x)
  /\ FindOrWrite(key, key, {With(p) : p \in paths})
  /\ UNCHANGED <<loads, stores, known, suspended, waiting>>

KnownValues(key) == {v \in BOOLEAN : \E i \in Found(key) : <<i, v>> \in known}

\* A comparison whose outcome a guard has settled is a constant.
Ins2(x) ==
  LET key == [op |-> "cmp", x |-> x] IN
  /\ Usable(x)
  /\ \/ \E v \in KnownValues(key) : InsImmI(IF v THEN 1 ELSE 0, key)
     \/ /\ KnownValues(key) = {}
        /\ FindOrWrite(key, key,
                       UNION {Decide(With(p), x) : p \in paths})
  /\ UNCHANGED <<loads, stores, known, suspended, waiting>>

InsGuard(op, c) ==
  LET key == [op |-> op, x |-> c] IN
  /\ c \in Cond /\ Usable(c)
  /\ FindOrWrite(key, key, {With(p) : p \in {q \in paths : Passes(q, op, c)}})
  /\ known' = IF suspended > 0 THEN known
              ELSE {k \in known : k[1] # c} \cup {<<c, op # "xt">>}
  /\ UNCHANGED <<loads, stores, suspended, waiting>>

-----------------------------------------------------------------------------
(* Loads, stores, and calls of functions that are not pure.                *)

\* miniAccSetToCseAcc.
CseAccOf(accs, qual) ==
  CASE qual = "const" -> CSE_ACC_CONST
    [] qual # "const" /\ Cardinality(accs) > 1 -> CSE_ACC_MULTIPLE
    [] OTHER -> CHOOSE r \in accs : TRUE

\* The tables without what the stores since the last load may have changed.
Unaliased ==
  [t \in CseAcc |->
     IF t \in stores \/ (t = CSE_ACC_MULTIPLE /\ stores # {}) THEN {}
                                                              ELSE loads[t]]

FoundLoad(place, t) == {i \in Unaliased[t] : ins[i].place = place}

InsLoad(place, accs, qual) ==
  LET key == [op |-> "ld", place |-> place, accs |-> accs, qual |-> qual]
      t == CseAccOf(accs, qual)
      ran == {[With(p) EXCEPT !.cur = @ \cup {New}] : p \in paths} IN
  /\ stores' = {}
  /\ \/ /\ qual = "volatile"
        /\ Write(key, ran)
        /\ loads' = Unaliased
        /\ Return(New, key)
     \/ /\ qual # "volatile"
        /\ \E i \in FoundLoad(place, t) : Return(i, key)
        /\ loads' = Unaliased
        /\ UNCHANGED <<ins, paths>>
     \/ /\ qual # "volatile"
        /\ FoundLoad(place, t) = {}
        /\ Write(key, ran)
        /\ loads' = [Unaliased EXCEPT ![t] = Add(@, New)]
        /\ Return(New, key)
  /\ UNCHANGED <<nl, known, suspended, waiting>>

\* Faulty variant: only stores to one region are remembered.
InsStoreSingle(accs) ==
  /\ accs # {}
  /\ stores' = IF Cardinality(accs) = 1 THEN stores \cup accs ELSE stores
  /\ paths' = {Stored(p, accs) : p \in paths}
  /\ result' = NULL
  /\ UNCHANGED <<ins, nl, loads, known, suspended, waiting>>

InsStore(accs) ==
  /\ accs # {}
  /\ stores' = stores \cup accs
  /\ paths' = {Stored(p, accs) : p \in paths}
  /\ result' = NULL
  /\ UNCHANGED <<ins, nl, loads, known, suspended, waiting>>

\* The same, and a value.
InsCall(accs) ==
  LET key == [op |-> "call", accs |-> accs] IN
  /\ stores' = stores \cup accs
  /\ Write(key, {Stored(With(p), accs) : p \in paths})
  /\ Return(New, key)
  /\ UNCHANGED <<nl, loads, known, suspended, waiting>>

\* Someone else writes to a place; only VOLATILE loads may read it.
External(place) ==
  /\ place \notin ConstPlace
  /\ paths' = {[p EXCEPT !.cur =
                  {i \in @ : ins[i].qual # "volatile" \/ ins[i].place # place}] :
                 p \in paths}
  /\ result' = NULL
  /\ UNCHANGED <<ins, filterVars, waiting>>

-----------------------------------------------------------------------------
(* Control flow.                                                           *)

\* A label anyone may jump to.
LabelOpen ==
  /\ suspended = 0
  /\ nl' = {}
  /\ loads' = [t \in CseAcc |-> {}]
  /\ known' = {}
  /\ paths' = {Unknown}
  /\ result' = NULL
  /\ UNCHANGED <<ins, stores, suspended, waiting>>

\* A label between suspend and resume.
LabelSuspended(l) ==
  /\ suspended > 0
  /\ paths' = paths \cup waiting[l]
  /\ waiting' = [waiting EXCEPT ![l] = {}]
  /\ result' = NULL
  /\ UNCHANGED <<ins, filterVars>>

\* A jump to l on the paths T, which the filter passes on.
Jump(T, l) ==
  /\ paths' = paths \ T
  /\ waiting' = IF suspended > 0 THEN [waiting EXCEPT ![l] = @ \cup T]
                                 ELSE waiting
  /\ result' = NULL
  /\ UNCHANGED <<ins, filterVars>>

InsBranch(l) ==
  \/ Jump(paths, l)
  \/ \E c \in Cond, op \in {"xt", "xf"} :
       Usable(c) /\ Jump({p \in paths : ~Passes(p, op, c)}, l)

Suspend ==
  /\ suspended < MaxSuspended
  /\ suspended' = suspended + 1
  /\ result' = NULL
  /\ UNCHANGED <<ins, nl, loads, stores, known, paths, waiting>>

Resume ==
  /\ suspended > 0
  /\ suspended = 1 => \A l \in Label : waiting[l] = {}
  /\ suspended' = suspended - 1
  /\ result' = NULL
  /\ UNCHANGED <<ins, nl, loads, stores, known, paths, waiting>>

Init ==
  /\ ins = <<[op |-> "param"]>>
  /\ nl = {}
  /\ loads = [t \in CseAcc |-> {}]
  /\ stores = {}
  /\ known = {}
  /\ suspended = 0
  /\ paths = {Unknown}
  /\ waiting = [l \in Label |-> {}]
  /\ result = NULL

Next ==
  \/ \E v \in {0, 1} : Imm(v)
  \/ \E x \in DOMAIN ins : Ins1(x) \/ Ins2(x)
  \/ \E op \in {"xt", "xf"}, c \in DOMAIN ins : InsGuard(op, c)
  \/ \E d \in LoadKind : InsLoad(d.place, d.accs, d.qual)
  \/ \E accs \in SUBSET Region : InsStore(accs) \/ InsCall(accs)
  \/ \E place \in Place : External(place)
  \/ LabelOpen
  \/ \E l \in Label : LabelSuspended(l) \/ InsBranch(l)
  \/ Suspend \/ Resume

CseSpec == Init /\ [][Next]_vars

-----------------------------------------------------------------------------
(* Properties.                                                             *)

AllPaths == paths \cup UNION {waiting[l] : l \in Label}

\* What stores since the last load may have changed is to be cleared still.
Pending(t) == t \in stores \/ (t = CSE_ACC_MULTIPLE /\ stores # {})

\* What the tables hold is true whichever way control comes: the instructions
\* have run, guards have been passed, memory still holds what was loaded, and
\* comparisons came out as recorded.
TablesTrue ==
  \A p \in AllPaths :
    /\ \A i \in nl : /\ i \in p.has
                     /\ ins[i].op \in {"xt", "xf"}
                          => Passes(p, ins[i].op, ins[i].x)
    /\ \A t \in CseAcc : \A i \in loads[t] :
         i \in p.has /\ (~Pending(t) => i \in p.cur)
    /\ \A k \in known : Holds(p, k[1]) = k[2]

\* What instruction i stands for on p.
Means(p, i, asked) ==
  CASE asked.op = "cmp" /\ ins[i].op = "imm" ->
         ins[i].x = (IF asked.x \in p.yes THEN 1 ELSE 0)
    [] asked.op = "ld" ->
         /\ ins[i].place = asked.place /\ ins[i].qual = asked.qual
         /\ i \in p.cur
    [] asked.op \in {"xt", "xf"} ->
         ins[i] = asked /\ Passes(p, asked.op, asked.x)
    [] OTHER -> ins[i] = asked

\* The promise of the filter: what it returns has run, whichever way control
\* has come here, and has the value the instruction that was asked for would
\* have; a guard it leaves out would not have exited.
ResultExact ==
  result # NULL =>
    \A p \in paths : result.ins \in p.has /\ Means(p, result.ins, result.asked)

=============================================================================
