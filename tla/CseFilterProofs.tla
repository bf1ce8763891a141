-------------------------- MODULE CseFilterProofs ---------------------------
(***************************************************************************)
(* Proofs about module CseFilter: for any regions, places and loads, and   *)
(* programs of any length, the tables hold nothing that is untrue on a way *)
(* control can take, and what the filter answers with is exact.            *)
(***************************************************************************)
EXTENDS CseFilter, FiniteSetTheorems, TLAPS

\* The instructions there are.
Tests == {"xt", "xf"}
Loads == [op : {"ld"}, place : Place, accs : SUBSET Region,
          qual : {"const", "normal", "volatile"}]
Instr ==
  [op : {"param"}] \cup [op : {"imm"}, x : {0, 1}] \cup
    [op : {"pure", "cmp"} \cup Tests, x : Nat] \cup
    Loads \cup [op : {"call"}, accs : SUBSET Region]

Ways(n) == [has : SUBSET (1 .. n), cur : SUBSET (1 .. n),
            yes : SUBSET Nat, no : SUBSET Nat]

\* Every variable has its type, result apart, which is set anew by every call.
Types ==
  /\ ins \in Seq(Instr) /\ 1 \in DOMAIN ins /\ ins[1].op = "param"
  /\ nl \subseteq DOMAIN ins
  /\ loads \in [CseAcc -> SUBSET DOMAIN ins]
  /\ stores \subseteq Region
  /\ known \subseteq Cond \X BOOLEAN
  /\ suspended \in Nat
  /\ paths \subseteq Ways(Len(ins))
  /\ waiting \in [Label -> SUBSET Ways(Len(ins))]

\* Only suspended code is jumped to from code the filter has seen.
Closed == suspended = 0 => \A l \in Label : waiting[l] = {}

\* A load is in the table of its access set, and not a volatile one.
Filed(x, t) ==
  /\ x \in Loads /\ x.qual # "volatile" /\ Home[x.place] \in x.accs
  /\ t = CseAccOf(x.accs, x.qual)
LoadsFiled == \A t \in CseAcc : \A i \in loads[t] : Filed(ins[i], t)

\* Guards that are remembered ask for conditions.
GuardsAsk == \A i \in nl : ins[i].op \in Tests => ins[i].x \in Cond

\* On p every comparison that has run came out one way.
Settled(p) ==
  /\ p.yes \cap p.no = {}
  /\ \A i \in p.has : ins[i].op = "cmp" => ins[i].x \in p.yes \cup p.no

\* What the tables of everything but loads say of p, and that it stays so: the
\* conditions have been computed.
StandsOn(p, i) ==
  /\ i \in p.has
  /\ ins[i].op \in Tests => /\ ins[i].x \in p.has
                            /\ Passes(p, ins[i].op, ins[i].x)
ListedTrue(p) == \A i \in nl : StandsOn(p, i)
KnownTrue(p) ==
  \A e \in known : e[1] \in p.has /\ Holds(p, e[1]) = e[2]

\* What the tables of loads say of p.
LoadsTrue(p) ==
  \A t \in CseAcc : \A i \in loads[t] : i \in p.has /\ (~Pending(t) => i \in p.cur)

\* The inductive invariant.
Remembered == Types /\ Closed /\ LoadsFiled /\ GuardsAsk
TrueOn(p) == Settled(p) /\ ListedTrue(p) /\ KnownTrue(p) /\ LoadsTrue(p)
IInv == Remembered /\ \A p \in AllPaths : TrueOn(p)

-----------------------------------------------------------------------------
(* What is written stays, and what is true of a path stays true of those   *)
(* that go on from it.                                                     *)

Longer == ins' = ins \/ \E key \in Instr : ins' = Append(ins, key)

LEMMA Written ==
  ASSUME Types, NEW key \in Instr, ins' = Append(ins, key)
  PROVE  /\ Len(ins') = New /\ New \in Nat /\ New \notin DOMAIN ins
         /\ DOMAIN ins' = DOMAIN ins \cup {New} /\ ins'[New] = key
         /\ New \in 1 .. Len(ins') /\ DOMAIN ins \subseteq 1 .. Len(ins')
BY DEF Types, New

LEMMA Prefix ==
  ASSUME Types, Longer
  PROVE  /\ ins' \in Seq(Instr) /\ 1 \in DOMAIN ins' /\ ins'[1].op = "param"
         /\ DOMAIN ins = 1 .. Len(ins) /\ DOMAIN ins' = 1 .. Len(ins')
         /\ DOMAIN ins \subseteq DOMAIN ins'
         /\ \A i \in DOMAIN ins : ins'[i] = ins[i]
         /\ Ways(Len(ins)) \subseteq Ways(Len(ins'))
<1>1. CASE ins' = ins
  BY <1>1 DEF Types
<1>2. ASSUME NEW key \in Instr, ins' = Append(ins, key)
      PROVE  /\ ins' \in Seq(Instr) /\ 1 \in DOMAIN ins' /\ Len(ins') = Len(ins) + 1
             /\ DOMAIN ins = 1 .. Len(ins) /\ DOMAIN ins' = 1 .. Len(ins')
             /\ \A i \in DOMAIN ins : ins'[i] = ins[i]
  BY <1>2 DEF Types
<1>3. ASSUME NEW n \in Nat PROVE Ways(n) \subseteq Ways(n + 1)
  BY DEF Ways
<1> QED
  BY <1>1, <1>2, <1>3 DEF Types, Longer

Follows(q, p) ==
  /\ p.has \subseteq q.has /\ p.yes \subseteq q.yes /\ p.no \subseteq q.no
  /\ q.yes \cap q.no = {}

LEMMA CondStays ==
  ASSUME Types, Longer
  PROVE  Cond \subseteq Cond'
BY Prefix DEF Cond

LEMMA HoldsStays ==
  ASSUME Types, Longer, NEW p, Settled(p), NEW q, Follows(q, p),
         NEW c \in Cond, c \in p.has
  PROVE  /\ Holds(q, c)' = Holds(p, c)
         /\ \A op : Passes(q, op, c)' = Passes(p, op, c)
<1>1. ins'[c] = ins[c] /\ ins[c].op \in {"cmp", "imm"}
  BY Prefix DEF Cond
<1>2. ins[c].op = "cmp" => (ins[c].x \in q.yes <=> ins[c].x \in p.yes)
  BY DEF Settled, Follows
<1> QED
  BY <1>1, <1>2 DEF Holds, Passes

\* A guard that has been passed on p has been on q.
LEMMA StandsStay ==
  ASSUME Remembered, Longer, NEW p, TrueOn(p), NEW q, Follows(q, p), NEW i \in nl
  PROVE  StandsOn(q, i)'
<1>1. Types /\ Settled(p) /\ StandsOn(p, i)
  BY DEF Remembered, TrueOn, ListedTrue
<1>2. i \in DOMAIN ins /\ ins'[i] = ins[i]
  BY <1>1, Prefix DEF Types
<1>3. PICK op, c : op = ins[i].op /\ c = ins[i].x
  OBVIOUS
<1>4. ASSUME op \in Tests
      PROVE  c \in q.has /\ Passes(q, op, c)'
  <2>1. c \in p.has /\ c \in Cond /\ Passes(p, op, c)
    BY <1>1, <1>3, <1>4 DEF StandsOn, Remembered, GuardsAsk
  <2> QED
    BY <1>1, <2>1, HoldsStays DEF Follows
<1> QED
  BY <1>1, <1>2, <1>3, <1>4 DEF StandsOn, Follows, Passes, Holds

\* The outcome of a comparison stays known.
LEMMA KnownStays ==
  ASSUME Remembered, Longer, NEW p, TrueOn(p), NEW q, Follows(q, p), NEW e \in known
  PROVE  e[1] \in q.has /\ Holds(q, e[1])' = e[2]
<1>1. /\ Types /\ Settled(p)
      /\ e[1] \in p.has /\ e[1] \in Cond /\ Holds(p, e[1]) = e[2]
  BY DEF Remembered, TrueOn, KnownTrue, Types
<1> QED
  BY <1>1, HoldsStays DEF Follows

-----------------------------------------------------------------------------
(* What a call leaves of the invariant, when it touches no table of loads. *)

\* Everything but what is known of comparisons.
TypesButKnown ==
  /\ ins \in Seq(Instr) /\ 1 \in DOMAIN ins /\ ins[1].op = "param"
  /\ nl \subseteq DOMAIN ins
  /\ loads \in [CseAcc -> SUBSET DOMAIN ins]
  /\ stores \subseteq Region /\ suspended \in Nat
  /\ paths \subseteq Ways(Len(ins))
  /\ waiting \in [Label -> SUBSET Ways(Len(ins))]

\* p goes on as q over a new instruction like key.
Grown(q, p, key) ==
  /\ Follows(q, p) /\ q \in Ways(New)
  /\ q.has = p.has \cup {New} /\ q.cur = p.cur
  /\ key.op = "cmp" => key.x \in q.yes \cup q.no
  /\ key.op \in Tests => Passes(p, key.op, key.x)

\* Where control is was a way of the code before, with less of it run.
Onward == \A q \in AllPaths' : \E p \in AllPaths : Follows(q, p)

LEMMA Stands ==
  ASSUME IInv
  PROVE  /\ Remembered /\ Types /\ \A p \in AllPaths : TrueOn(p) /\ Follows(p, p)
         /\ paths \subseteq AllPaths /\ \A l \in Label : waiting[l] \subseteq AllPaths
         /\ suspended = 0 => AllPaths = paths
<1>1. \A p \in AllPaths : TrueOn(p) => Follows(p, p)
  BY DEF TrueOn, Settled, Follows
<1> QED
  BY <1>1 DEF IInv, Remembered, AllPaths, Closed

\* Tables and code as they were, paths as they were.
LEMMA SettledStays ==
  ASSUME Types, Longer, NEW p \in Ways(Len(ins)), Settled(p)
  PROVE  Settled(p)'
BY Prefix DEF Settled, Ways

LEMMA FiledStays ==
  ASSUME Types, Longer, LoadsFiled, UNCHANGED loads
  PROVE  LoadsFiled'
BY Prefix DEF LoadsFiled, Filed, CseAccOf, CseAcc, Types

LEMMA LoadsStay ==
  ASSUME Types, UNCHANGED <<loads, stores>>, NEW p, NEW q,
         p.has \subseteq q.has, p.cur \subseteq q.cur, LoadsTrue(p)
  PROVE  LoadsTrue(q)'
BY DEF LoadsTrue, Pending, CseAcc, Types

LEMMA ListStays ==
  ASSUME IInv, Longer, UNCHANGED nl, NEW p \in AllPaths, NEW q, Follows(q, p)
  PROVE  ListedTrue(q)'
BY Stands, StandsStay DEF ListedTrue

LEMMA KnownListStays ==
  ASSUME IInv, Longer, UNCHANGED known, NEW p \in AllPaths, NEW q, Follows(q, p)
  PROVE  KnownTrue(q)'
<1>1. \A e \in known : e[1] \in q.has /\ Holds(q, e[1])' = e[2]
  BY Stands, KnownStays
<1> QED
  BY <1>1 DEF KnownTrue, Holds

\* What has become of the invariant, what is known apart.
KeptBut ==
  /\ TypesButKnown /\ Closed /\ LoadsFiled /\ GuardsAsk
  /\ \A q \in AllPaths : Settled(q) /\ ListedTrue(q) /\ LoadsTrue(q)

LEMMA Kept ==
  ASSUME Types', KeptBut', \A q \in AllPaths' : KnownTrue(q)'
  PROVE  IInv'
BY DEF KeptBut, IInv, Remembered, TrueOn

\* The instruction is i, and a guard is one that all paths have passed.
Answers(i, key) ==
  /\ ins[i] = key
  /\ \A q \in paths : /\ i \in q.has
                      /\ key.op \in Tests => /\ key.x \in q.has
                                             /\ Passes(q, key.op, key.x)

LEMMA FoundKeeps ==
  ASSUME IInv, NEW key \in Instr, NEW i \in Found(key),
         UNCHANGED <<ins, nl, paths, loads, stores, suspended, waiting>>
  PROVE  Longer /\ KeptBut' /\ Onward /\ Answers(i, key)' /\ i \in DOMAIN ins
<1>1. Longer /\ AllPaths' = AllPaths
  BY DEF Longer, AllPaths
<1>2. TypesButKnown' /\ Closed' /\ LoadsFiled' /\ GuardsAsk'
  <2>1. GuardsAsk'
    BY Stands, <1>1 DEF Remembered, GuardsAsk, Cond
  <2> QED
    BY <1>1, <2>1, Stands, FiledStays
       DEF TypesButKnown, Types, Remembered, Closed, Ways, CseAcc
<1>3. ASSUME NEW q \in AllPaths
      PROVE  Settled(q)' /\ ListedTrue(q)' /\ LoadsTrue(q)'
  <2>1. TrueOn(q) /\ Follows(q, q) /\ Types
    BY Stands
  <2>2. Settled(q)'
    BY <2>1 DEF TrueOn, Settled
  <2> QED
    BY <1>1, <2>1, <2>2, ListStays, LoadsStay DEF TrueOn
<1>4. i \in DOMAIN ins /\ i \in nl /\ ins[i] = key
  BY Stands DEF Found, Types
<1>5. \A q \in paths : StandsOn(q, i)
  BY <1>4, Stands DEF TrueOn, ListedTrue
<1>6. Answers(i, key)'
  BY <1>4, <1>5 DEF Answers, StandsOn, Passes, Holds
<1> QED
  BY <1>1, <1>2, <1>3, <1>4, <1>6, Stands DEF KeptBut, Onward

LEMMA WrittenKeeps ==
  ASSUME IInv, NEW n, n = New, NEW key \in Instr, NEW ps,
         key.op \in Tests => key.x \in Cond /\ \A p \in paths : key.x \in p.has,
         \A q \in ps : \E p \in paths : Grown(q, p, key),
         Write(key, ps), nl' = Add(nl, New),
         UNCHANGED <<loads, stores, suspended, waiting>>
  PROVE  Longer /\ KeptBut' /\ Onward /\ Answers(n, key)' /\ n \in DOMAIN ins'
<1>1. /\ Longer /\ Types /\ Remembered /\ paths' = ps
      /\ ins' = Append(ins, key) /\ Len(ins') = New
  BY Stands, Written DEF Write, Longer
<1>2. ins'[n] = key /\ n \in DOMAIN ins'
  BY <1>1, Written
<1>3. \A q \in AllPaths' : \/ \E p \in paths : Grown(q, p, key)
                           \/ q \in AllPaths /\ suspended # 0
  BY <1>1, Stands DEF AllPaths, Remembered, Closed
<1>4. TypesButKnown'
  <2>1. paths' \subseteq Ways(Len(ins'))
    BY <1>1 DEF Grown
  <2>2. nl' \subseteq DOMAIN ins'
    BY <1>1, <1>2, Prefix DEF Add, Types
  <2>3. waiting' \in [Label -> SUBSET Ways(Len(ins'))]
    BY <1>1, Prefix DEF Types
  <2>4. loads' \in [CseAcc -> SUBSET DOMAIN ins']
    BY <1>1, Prefix DEF Types
  <2> QED
    BY <1>1, <2>1, <2>2, <2>3, <2>4, Prefix DEF TypesButKnown, Types, CseAcc, Ways
<1>5. Closed' /\ LoadsFiled' /\ GuardsAsk'
  <2>1. GuardsAsk'
    <3>1. Cond \subseteq Cond' /\ GuardsAsk
      BY <1>1, CondStays DEF Remembered
    <3>2. \A i \in nl : ins'[i] = ins[i]
      BY <1>1, Prefix DEF Types
    <3> QED
      BY <1>2, <3>1, <3>2 DEF GuardsAsk, Add
  <2> QED
    BY <1>1, <2>1, FiledStays DEF Remembered, Closed
<1>6. ASSUME NEW q, NEW p \in paths, Grown(q, p, key)
      PROVE  /\ Follows(q, p) /\ Settled(q)' /\ ListedTrue(q)' /\ LoadsTrue(q)'
             /\ StandsOn(q, n)'
  <2>1. TrueOn(p) /\ p \in AllPaths /\ p \in Ways(Len(ins)) /\ Follows(q, p)
    BY <1>1, <1>6, Stands DEF Types, Grown
  <2>2. \A i \in p.has : ins'[i] = ins[i]
    BY <1>1, <2>1, Prefix DEF Ways
  <2>3. Settled(q)'
    BY <1>2, <1>6, <2>1, <2>2 DEF Settled, Grown, Follows, TrueOn
  <2>4. StandsOn(q, n)'
    <3>1. ASSUME key.op \in Tests
          PROVE  key.x \in p.has /\ Passes(q, key.op, key.x)'
      BY <1>1, <1>6, <2>1, <3>1, HoldsStays DEF Grown, TrueOn
    <3> QED
      BY <1>2, <1>6, <3>1 DEF StandsOn, Grown, Passes, Holds
  <2>5. ListedTrue(q)'
    <3>1. \A i \in nl : StandsOn(q, i)'
      BY <1>1, <2>1, StandsStay
    <3> QED
      BY <2>4, <3>1 DEF ListedTrue, Add, StandsOn, Passes, Holds
  <2>6. LoadsTrue(q)'
    BY <1>1, <1>6, <2>1, LoadsStay DEF Grown, TrueOn
  <2> QED
    BY <2>1, <2>3, <2>4, <2>5, <2>6
<1>7. ASSUME NEW q \in AllPaths, suspended # 0
      PROVE  Follows(q, q) /\ Settled(q)' /\ ListedTrue(q)' /\ LoadsTrue(q)'
  <2>1. TrueOn(q) /\ Follows(q, q) /\ q \in Ways(Len(ins))
    BY <1>1, Stands DEF AllPaths, Types
  <2>2. nl' = nl
    BY <1>1, <1>7 DEF Add, Types
  <2> QED
    BY <1>1, <2>1, <2>2, ListStays, LoadsStay, SettledStays DEF TrueOn
<1>8. Answers(n, key)'
  BY <1>1, <1>2, <1>6 DEF Answers, Grown, StandsOn, Passes, Holds
<1> QED
  BY <1>1, <1>2, <1>3, <1>4, <1>5, <1>6, <1>7, <1>8, Stands DEF KeptBut, Onward

LEMMA FindOrWriteKeeps ==
  ASSUME IInv, NEW key \in Instr, NEW asked, NEW ps,
         key.op \in Tests => key.x \in Cond /\ \A p \in paths : key.x \in p.has,
         \A q \in ps : \E p \in paths : Grown(q, p, key),
         FindOrWrite(key, asked, ps),
         UNCHANGED <<loads, stores, suspended, waiting>>
  PROVE  /\ Longer /\ KeptBut' /\ Onward
         /\ \E i \in DOMAIN ins' : /\ result' = [ins |-> i, asked |-> asked]
                                   /\ Answers(i, key)'
<1>1. ASSUME NEW i \in Found(key), Return(i, asked), UNCHANGED <<ins, nl, paths>>
      PROVE  /\ Longer /\ KeptBut' /\ Onward
             /\ i \in DOMAIN ins' /\ Answers(i, key)'
  BY <1>1, FoundKeeps
<1>2. CASE Write(key, ps) /\ nl' = Add(nl, New) /\ Return(New, asked)
  BY <1>2, WrittenKeeps DEF Return
<1> QED
  BY <1>1, <1>2 DEF FindOrWrite, Return

\* An instruction like the one that was asked for is an exact answer.
LEMMA FoundExact ==
  ASSUME NEW asked, asked.op # "ld",
         \E i \in DOMAIN ins' : /\ result' = [ins |-> i, asked |-> asked]
                                /\ Answers(i, asked)'
  PROVE  ResultExact'
<1>1. PICK i \in DOMAIN ins' : /\ result' = [ins |-> i, asked |-> asked]
                               /\ Answers(i, asked)'
  OBVIOUS
<1>2. ASSUME NEW p \in paths'
      PROVE  i \in p.has /\ Means(p, i, asked)'
  <2>1. ins'[i] = asked
    BY <1>1 DEF Answers
  <2>2. i \in p.has /\ (asked.op \in Tests => Passes(p, asked.op, asked.x)')
    BY <1>1, <1>2 DEF Answers
  <2>3. CASE asked.op \in Tests
    BY <2>1, <2>2, <2>3 DEF Means, Tests, Passes, Holds
  <2>4. CASE asked.op \notin Tests
    BY <2>1, <2>2, <2>4 DEF Means, Tests
  <2> QED
    BY <2>2, <2>3, <2>4
<1> QED
  BY <1>1, <1>2 DEF ResultExact, Means, Passes, Holds

LEMMA SameKnown ==
  ASSUME IInv, Longer, KeptBut', Onward, UNCHANGED known
  PROVE  IInv'
<1>1. \A q \in AllPaths' : KnownTrue(q)'
  BY KnownListStays DEF Onward
<1>2. Types'
  BY Stands, CondStays DEF KeptBut, TypesButKnown, Types
<1> QED
  BY <1>1, <1>2, Kept

-----------------------------------------------------------------------------
(* Constants, arithmetic, comparisons and guards.                          *)

LEMMA Lives ==
  ASSUME IInv, NEW p \in paths
  PROVE  /\ p \in Ways(Len(ins)) /\ TrueOn(p) /\ Follows(p, p) /\ New \in Nat
         /\ p = [has |-> p.has, cur |-> p.cur, yes |-> p.yes, no |-> p.no]
         /\ 1 .. Len(ins) \subseteq 1 .. New /\ New \in 1 .. New
BY Stands DEF Types, Ways, New

LEMMA RunsOn ==
  ASSUME IInv, NEW key \in Instr, NEW p \in paths, key.op # "cmp",
         key.op \in Tests => Passes(p, key.op, key.x)
  PROVE  Grown(With(p), p, key)
BY Lives DEF Grown, With, Follows, Ways

LEMMA ImmKeeps ==
  ASSUME IInv, NEW v \in {0, 1}, NEW asked, InsImmI(v, asked),
         UNCHANGED <<loads, stores, known, suspended, waiting>>
  PROVE  /\ IInv' /\ Longer /\ Onward
         /\ \E i \in DOMAIN ins' : /\ result' = [ins |-> i, asked |-> asked]
                                   /\ Answers(i, [op |-> "imm", x |-> v])'
<1> DEFINE key == [op |-> "imm", x |-> v]
<1>1. key \in Instr /\ key.op # "cmp" /\ key.op \notin Tests
  BY DEF Instr, Tests
<1> QED
  BY <1>1, RunsOn, FindOrWriteKeeps, SameKnown DEF InsImmI

LEMMA ImmOK ==
  ASSUME IInv, NEW v \in {0, 1}, Imm(v)
  PROVE  IInv' /\ ResultExact'
BY ImmKeeps, FoundExact DEF Imm

LEMMA Ins1OK ==
  ASSUME IInv, NEW x \in DOMAIN ins, Ins1(x)
  PROVE  IInv' /\ ResultExact'
<1> DEFINE key == [op |-> "pure", x |-> x]
<1>1. key \in Instr /\ key.op \notin {"cmp", "ld"} /\ key.op \notin Tests
  BY Stands DEF Instr, Tests, Types
<1> QED
  BY <1>1, RunsOn, FindOrWriteKeeps, SameKnown, FoundExact DEF Ins1

LEMMA Decided ==
  ASSUME IInv, NEW x \in DOMAIN ins, NEW p \in paths, NEW q \in Decide(With(p), x)
  PROVE  Grown(q, p, [op |-> "cmp", x |-> x])
<1>1. x \in Nat
  BY Stands DEF Types
<1>2. CASE x \in p.yes \cup p.no
  BY <1>1, <1>2, Lives DEF Grown, With, Follows, Ways, Decide, Tests
<1>3. CASE x \notin p.yes \cup p.no
  <2> DEFINE r == With(p)
  <2>1. /\ r \in Ways(New) /\ r.has = p.has \cup {New} /\ r.cur = p.cur
        /\ r.yes = p.yes /\ r.no = p.no /\ p.yes \cap p.no = {}
    BY Lives DEF With, Ways, TrueOn, Settled
  <2> HIDE DEF r
  <2>2. CASE q = [r EXCEPT !.yes = @ \cup {x}]
    <3>1. /\ q \in Ways(New) /\ q.has = r.has /\ q.cur = r.cur
          /\ q.yes = r.yes \cup {x} /\ q.no = r.no
      BY <1>1, <2>1, <2>2 DEF Ways
    <3> QED
      BY <1>3, <2>1, <3>1 DEF Grown, Follows, Tests
  <2>3. CASE q = [r EXCEPT !.no = @ \cup {x}]
    <3>1. /\ q \in Ways(New) /\ q.has = r.has /\ q.cur = r.cur
          /\ q.yes = r.yes /\ q.no = r.no \cup {x}
      BY <1>1, <2>1, <2>3 DEF Ways
    <3> QED
      BY <1>3, <2>1, <3>1 DEF Grown, Follows, Tests
  <2> QED
    BY <1>3, <2>1, <2>2, <2>3 DEF Decide, r
<1> QED
  BY <1>2, <1>3

LEMMA InsGuardOK ==
  ASSUME IInv, NEW op \in Tests, NEW c \in DOMAIN ins, InsGuard(op, c)
  PROVE  IInv' /\ ResultExact'
<1> DEFINE key == [op |-> op, x |-> c]
           ps == {With(p) : p \in {q \in paths : Passes(q, op, c)}}
<1>1. key \in Instr /\ c \in Cond /\ \A p \in paths : c \in p.has
  BY Stands DEF Instr, Tests, Types, InsGuard, Usable
<1>2. \A q \in ps : \E p \in paths : Grown(q, p, key)
  BY <1>1, RunsOn DEF Tests
<1>3. /\ Longer /\ KeptBut' /\ Onward
      /\ \E i \in DOMAIN ins' : /\ result' = [ins |-> i, asked |-> key]
                                /\ Answers(i, key)'
  BY <1>1, <1>2, FindOrWriteKeeps DEF InsGuard
<1>4. ResultExact'
  BY <1>3, FoundExact DEF Tests
<1>5. CASE suspended > 0
  BY <1>3, <1>4, <1>5, SameKnown DEF InsGuard
<1>6. CASE ~ (suspended > 0)
  <2>1. known' = {k \in known : k[1] # c} \cup {<<c, op # "xt">>}
    BY <1>6 DEF InsGuard
  <2>2. Types'
    <3>1. c \in Cond' /\ (op # "xt") \in BOOLEAN
      BY <1>1, <1>3, Stands, CondStays
    <3>2. known' \subseteq Cond' \X BOOLEAN
      <4>1. known \subseteq Cond' \X BOOLEAN
        BY <1>3, Stands, CondStays DEF Types
      <4>2. <<c, op # "xt">> \in Cond' \X BOOLEAN
        BY <3>1, Zenon
      <4> QED
        BY <2>1, <4>1, <4>2, Zenon
    <3> QED
      BY <1>3, <3>2 DEF KeptBut, TypesButKnown, Types
  <2>3. ASSUME NEW q \in AllPaths'
        PROVE  KnownTrue(q)'
    <3>1. q \in paths'
      BY <1>6, Stands DEF AllPaths, InsGuard, Remembered, Closed, Types
    <3>2. c \in q.has /\ Passes(q, op, c)'
      BY <1>3, <3>1 DEF Answers
    <3>3. Holds(q, c)' = (op # "xt")
      BY <3>2 DEF Passes, Holds
    <3>4. PICK p \in AllPaths : Follows(q, p)
      BY <1>3 DEF Onward
    <3>5. \A e \in known : e[1] \in q.has /\ Holds(q, e[1])' = e[2]
      BY <1>3, <3>4, Stands, KnownStays
    <3> QED
      BY <2>1, <3>2, <3>3, <3>5 DEF KnownTrue, Holds
  <2> QED
    BY <1>3, <1>4, <2>2, <2>3, Kept
<1> QED
  BY <1>5, <1>6

LEMMA Ins2OK ==
  ASSUME IInv, NEW x \in DOMAIN ins, Ins2(x)
  PROVE  IInv' /\ ResultExact'
<1> DEFINE key == [op |-> "cmp", x |-> x]
<1>1. key \in Instr /\ key.op \notin Tests /\ key.op # "ld"
  BY Stands DEF Instr, Tests, Types
<1>2. ASSUME NEW v \in KnownValues(key), InsImmI(IF v THEN 1 ELSE 0, key)
      PROVE  IInv' /\ ResultExact'
  <2> DEFINE one == IF v THEN 1 ELSE 0
  <2>1. PICK i \in Found(key) : <<i, v>> \in known
    BY DEF KnownValues
  <2>2. v \in BOOLEAN /\ one \in {0, 1}
    BY DEF KnownValues
  <2>3. /\ IInv' /\ Onward
        /\ \E j \in DOMAIN ins' : /\ result' = [ins |-> j, asked |-> key]
                                  /\ Answers(j, [op |-> "imm", x |-> one])'
    BY <1>2, <2>2, ImmKeeps DEF Ins2
  <2>4. PICK j \in DOMAIN ins' : /\ result' = [ins |-> j, asked |-> key]
                                 /\ Answers(j, [op |-> "imm", x |-> one])'
    BY <2>3
  <2>5. ins'[j] = [op |-> "imm", x |-> one] /\ \A q \in paths' : j \in q.has
    BY <2>4 DEF Answers
  <2>6. ASSUME NEW q \in paths'
        PROVE  x \in q.yes <=> v
    <3>1. PICK p \in AllPaths : Follows(q, p)
      BY <2>3 DEF Onward, AllPaths
    <3>2. TrueOn(p) /\ ins[i] = key
      BY Stands DEF Found
    <3>3. i \in p.has /\ Holds(p, i) = v
      BY <2>1, <3>2 DEF TrueOn, KnownTrue
    <3>4. x \in p.yes <=> v
      <4>1. ins[i].op # "imm" /\ ins[i].x = x
        BY <3>2
      <4> QED
        BY <2>2, <3>3, <4>1, Zenon DEF Holds
    <3>5. x \in p.yes \cup p.no
      BY <3>2, <3>3 DEF TrueOn, Settled
    <3> QED
      BY <3>1, <3>4, <3>5 DEF Follows
  <2>7. ASSUME NEW q \in paths'
        PROVE  j \in q.has /\ Means(q, j, key)'
    <3>1. one = (IF x \in q.yes THEN 1 ELSE 0)
      BY <2>6
    <3> QED
      BY <2>5, <3>1 DEF Means
  <2> QED
    BY <2>3, <2>4, <2>7 DEF ResultExact, Means
<1>3. CASE FindOrWrite(key, key, UNION {Decide(With(p), x) : p \in paths})
  <2>1. \A q \in UNION {Decide(With(p), x) : p \in paths} :
          \E p \in paths : Grown(q, p, key)
    BY Decided
  <2> QED
    BY <1>1, <1>3, <2>1, FindOrWriteKeeps, SameKnown, FoundExact DEF Ins2
<1> QED
  BY <1>2, <1>3 DEF Ins2

-----------------------------------------------------------------------------
(* Loads, stores, and calls of functions that are not pure.                *)

LEMMA AccOf ==
  ASSUME CseAssumption, NEW accs \in SUBSET Region, accs # {}, NEW qual,
         NEW t, t = CseAccOf(accs, qual)
  PROVE  /\ t \in CseAcc
         /\ t = CSE_ACC_CONST <=> qual = "const"
         /\ t \in Region => accs = {t}
<1>1. CASE qual = "const"
  BY <1>1 DEF CseAccOf, CseAcc, CseAssumption
<1>2. CASE qual # "const" /\ Cardinality(accs) > 1
  BY <1>2 DEF CseAccOf, CseAcc, CseAssumption
<1>3. CASE qual # "const" /\ ~(Cardinality(accs) > 1)
  <2>1. PICK r \in accs : r = t
    BY <1>3 DEF CseAccOf
  <2>2. IsFiniteSet(accs)
    BY FS_Subset DEF CseAssumption
  <2>3. Cardinality(accs) \in Nat /\ Cardinality(accs) # 0
    BY <2>2, FS_CardinalityType, FS_EmptySet
  <2>4. Cardinality(accs) = 1
    BY <1>3, <2>3
  <2>5. \A r1, r2 \in accs : r1 = r2
    BY <2>2, <2>4, FS_Singleton
  <2> QED
    BY <1>3, <2>1, <2>5 DEF CseAcc, CseAssumption
<1> QED
  BY <1>1, <1>2, <1>3

\* A load in the table of a region reads that region alone.
LEMMA Tables ==
  ASSUME CseAssumption, NEW x, NEW t, Filed(x, t)
  PROVE  /\ t \in CseAcc
         /\ t = CSE_ACC_CONST <=> x.qual = "const"
         /\ t \in Region => Home[x.place] = t
         /\ x.op = "ld" /\ x.qual # "volatile"
<1>1. x.accs \in SUBSET Region /\ x.accs # {} /\ Home[x.place] \in x.accs
  BY DEF Filed, Loads
<1> QED
  BY <1>1, AccOf DEF Filed, Loads

\* When the tables of all else stay as they are, and control goes on.
LEMMA SameLists ==
  ASSUME IInv, Longer, UNCHANGED <<nl, known, suspended, waiting>>,
         loads' \in [CseAcc -> SUBSET DOMAIN ins'], stores' \subseteq Region,
         LoadsFiled', paths' \subseteq Ways(Len(ins')),
         \A q \in paths' : \E p \in paths : Follows(q, p) /\ Settled(q)',
         \A q \in AllPaths' : LoadsTrue(q)'
  PROVE  IInv'
<1>1. Types /\ GuardsAsk /\ Closed
  BY Stands DEF Remembered
<1>2. Types'
  <2>1. known' \subseteq Cond' \X BOOLEAN /\ nl' \subseteq DOMAIN ins'
    BY <1>1, CondStays, Prefix DEF Types
  <2>2. waiting' \in [Label -> SUBSET Ways(Len(ins'))]
    BY <1>1, Prefix DEF Types
  <2> QED
    BY <1>1, <2>1, <2>2, Prefix DEF Types
<1>3. GuardsAsk'
  BY <1>1, CondStays, Prefix DEF GuardsAsk, Types
<1>4. Closed'
  BY <1>1 DEF Closed
<1>5. \A q \in AllPaths' : \E p \in AllPaths : Follows(q, p) /\ Settled(q)'
  <2>1. ASSUME NEW l \in Label, NEW q \in waiting[l]
        PROVE  q \in AllPaths /\ Follows(q, q) /\ Settled(q)'
    <3>1. q \in AllPaths /\ q \in Ways(Len(ins)) /\ Follows(q, q) /\ TrueOn(q)
      BY <1>1, <2>1, Stands DEF Types
    <3> QED
      BY <1>1, <3>1, SettledStays DEF TrueOn
  <2> QED
    BY <2>1, Stands DEF AllPaths
<1>6. \A q \in AllPaths' : ListedTrue(q)' /\ KnownTrue(q)'
  BY <1>5, ListStays, KnownListStays
<1>7. \A q \in AllPaths' : TrueOn(q)'
  BY <1>5, <1>6 DEF TrueOn
<1> QED
  BY <1>2, <1>3, <1>4, <1>7 DEF IInv, Remembered

\* A load that is not found has run once it is written.
LEMMA LoadRuns ==
  ASSUME IInv, NEW key \in Loads, ins' = Append(ins, key), NEW p \in paths,
         NEW n, n = New, NEW q, q = [With(p) EXCEPT !.cur = @ \cup {New}]
  PROVE  /\ Follows(q, p) /\ q \in Ways(Len(ins')) /\ Settled(q)'
         /\ p.cur \subseteq q.cur /\ n \in q.has /\ n \in q.cur
<1>1. /\ q.has = p.has \cup {n} /\ q.cur = p.cur \cup {n}
      /\ q.yes = p.yes /\ q.no = p.no /\ q \in Ways(New)
  BY Lives, ZenonT(60) DEF With, Ways
<1>2. key \in Instr /\ key.op # "cmp"
  BY DEF Loads, Instr
<1>3. Types /\ Longer /\ Len(ins') = New /\ ins'[n] = key
  BY <1>2, Stands, Written DEF Longer
<1>4. \A i \in p.has : ins'[i] = ins[i]
  BY <1>3, Lives, Prefix DEF Ways
<1>5. Follows(p, p) /\ Settled(p)
  BY Lives DEF TrueOn
<1> QED
  BY <1>1, <1>2, <1>3, <1>4, <1>5 DEF Follows, Settled

LEMMA InsLoadOK ==
  ASSUME CseAssumption, IInv, NEW d \in LoadKind, InsLoad(d.place, d.accs, d.qual)
  PROVE  IInv' /\ ResultExact'
<1> DEFINE key == [op |-> "ld", place |-> d.place, accs |-> d.accs, qual |-> d.qual]
           t == CseAccOf(d.accs, d.qual)
           ran == {[With(p) EXCEPT !.cur = @ \cup {New}] : p \in paths}
<1>1. /\ key \in Loads /\ key \in Instr /\ Home[d.place] \in d.accs
      /\ t \in CseAcc /\ (t = CSE_ACC_CONST <=> d.qual = "const")
      /\ d.qual # "volatile" => Filed(key, t)
  BY AccOf DEF CseAssumption, Loads, Instr, Filed
<1>2. /\ Types /\ LoadsFiled /\ \A p \in AllPaths : TrueOn(p) /\ Follows(p, p)
      /\ UNCHANGED <<nl, known, suspended, waiting>> /\ stores' = {}
  BY Stands DEF Remembered, InsLoad
<1>3. \A s \in CseAcc : \A p \in AllPaths : \A i \in Unaliased[s] :
        i \in loads[s] /\ i \in p.has /\ i \in p.cur
  BY <1>2 DEF Unaliased, TrueOn, LoadsTrue, Pending
<1>4. Unaliased \in [CseAcc -> SUBSET DOMAIN ins]
  BY <1>2, Zenon DEF Types, Unaliased
<1>5. ASSUME ins' = ins, paths' = paths, loads' = Unaliased
      PROVE  IInv'
  <2>1. Longer /\ AllPaths' = AllPaths
    BY <1>2, <1>5 DEF Longer, AllPaths
  <2>2. LoadsFiled'
    BY <1>2, <1>3, <1>5 DEF LoadsFiled, Filed, CseAccOf, CseAcc, AllPaths,
      Unaliased
  <2>3. \A q \in AllPaths' : LoadsTrue(q)'
    BY <1>3, <1>5, <2>1 DEF LoadsTrue, CseAcc
  <2>4. \A q \in paths' : q \in paths /\ Follows(q, q) /\ Settled(q)'
    BY <1>2, <1>5, Stands DEF TrueOn, Settled
  <2> QED
    BY <1>2, <1>4, <1>5, <2>1, <2>2, <2>3, <2>4, SameLists DEF Types
<1>6. ASSUME Write(key, ran),
             \/ loads' = Unaliased
             \/ d.qual # "volatile" /\ loads' = [Unaliased EXCEPT ![t] = Add(@, New)]
      PROVE  IInv' /\ Longer /\ ins'[New] = key /\ New \in DOMAIN ins'
             /\ \A q \in paths' : New \in q.has /\ New \in q.cur
  <2>1. PICK n : n = New
    OBVIOUS
  <2>2. /\ ins' = Append(ins, key) /\ Longer /\ paths' = ran
        /\ ins'[n] = key /\ n \in DOMAIN ins'
    BY <1>1, <1>2, <1>6, <2>1, Written DEF Write, Longer
  <2>3. \A q \in paths' : \E p \in paths :
          /\ Follows(q, p) /\ q \in Ways(Len(ins')) /\ Settled(q)'
          /\ p.cur \subseteq q.cur /\ n \in q.has /\ n \in q.cur
    BY <1>1, <2>1, <2>2, LoadRuns
  <2>4. \A s \in CseAcc : loads'[s] \subseteq Unaliased[s] \cup
                          (IF s = t /\ suspended = 0 /\ d.qual # "volatile" THEN {n} ELSE {})
    BY <1>1, <1>2, <1>4, <1>6, <2>1 DEF Add, Types
  <2>5. loads' \in [CseAcc -> SUBSET DOMAIN ins']
    BY <1>1, <1>2, <1>4, <1>6, <2>1, <2>2, Prefix DEF Add
  <2>6. LoadsFiled'
    <3>1. ASSUME NEW s \in CseAcc, NEW i \in loads'[s]
          PROVE  Filed(ins'[i], s)
      <4>1. CASE i \in Unaliased[s]
        BY <1>2, <1>4, <2>2, <4>1, Prefix DEF LoadsFiled, Unaliased
      <4>2. CASE i = n /\ s = t /\ d.qual # "volatile"
        BY <1>1, <2>2, <4>2
      <4> QED
        BY <2>4, <4>1, <4>2
    <3> QED
      BY <3>1 DEF LoadsFiled, CseAcc, Filed, CseAccOf
  <2>7. ASSUME NEW q \in AllPaths'
        PROVE  LoadsTrue(q)'
    <3>1. PICK p \in AllPaths : /\ p.has \subseteq q.has /\ p.cur \subseteq q.cur
                                /\ suspended = 0 => n \in q.has /\ n \in q.cur
      BY <1>2, <2>3, Stands DEF AllPaths, Remembered, Closed, Follows
    <3>2. \A s \in CseAcc : \A i \in loads'[s] : i \in q.has /\ i \in q.cur
      BY <1>3, <2>4, <3>1
    <3> QED
      BY <3>2 DEF LoadsTrue, CseAcc
  <2>8. IInv'
    BY <1>2, <2>2, <2>3, <2>5, <2>6, <2>7, SameLists
  <2> QED
    BY <2>1, <2>2, <2>3, <2>8
<1>7. ASSUME NEW i \in DOMAIN ins', result' = [ins |-> i, asked |-> key],
             ins'[i].place = d.place, ins'[i].qual = d.qual,
             \A q \in paths' : i \in q.has /\ i \in q.cur
      PROVE  ResultExact'
  <2>1. \A q \in paths' : i \in q.has /\ Means(q, i, key)'
    BY <1>7 DEF Means
  <2> QED
    BY <1>7, <2>1 DEF ResultExact, Means
<1>8. ASSUME Write(key, ran), Return(New, key),
             \/ loads' = Unaliased
             \/ d.qual # "volatile" /\ loads' = [Unaliased EXCEPT ![t] = Add(@, New)]
      PROVE  IInv' /\ ResultExact'
  <2>1. PICK n : n = New
    OBVIOUS
  <2> QED
    BY <1>6, <1>7, <1>8, <2>1 DEF Return
<1>9. ASSUME d.qual # "volatile", NEW i \in FoundLoad(d.place, t), Return(i, key),
             loads' = Unaliased, UNCHANGED <<ins, paths>>
      PROVE  IInv' /\ ResultExact'
  <2>1. i \in Unaliased[t] /\ ins[i].place = d.place
    BY <1>9 DEF FoundLoad
  <2>2. i \in loads[t] /\ i \in DOMAIN ins
    BY <1>1, <1>2, <1>4, <2>1 DEF Unaliased
  <2>3. ins[i].qual = d.qual
    <3>1. /\ Filed(ins[i], t) /\ Filed(key, t)
          /\ ins[i].qual \in {"const", "normal", "volatile"}
      BY <1>1, <1>2, <1>9, <2>2 DEF LoadsFiled, Filed, Loads
    <3> QED
      BY <1>1, <1>9, <3>1, Tables DEF Loads
  <2>4. \A q \in paths : i \in q.has /\ i \in q.cur
    BY <1>1, <1>3, <2>1, Stands
  <2> QED
    BY <1>5, <1>7, <1>9, <2>1, <2>2, <2>3, <2>4 DEF Return
<1> QED
  BY <1>8, <1>9 DEF InsLoad

\* A store leaves alone what is loaded from regions it does not write.
LEMMA StoreKeeps ==
  ASSUME CseAssumption, IInv, NEW accs \in SUBSET Region,
         stores' = stores \cup accs, UNCHANGED loads,
         NEW p, LoadsTrue(p), NEW q, p.has \subseteq q.has,
         {i \in p.cur : ins[i].qual = "const" \/ ~Reads(i, accs)} \subseteq q.cur
  PROVE  LoadsTrue(q)'
<1>1. ASSUME NEW t \in CseAcc, NEW i \in loads[t], ~Pending(t)'
      PROVE  i \in q.cur
  <2>1. ~Pending(t) /\ i \in p.cur
    BY <1>1 DEF Pending, LoadsTrue
  <2>2. Filed(ins[i], t)
    BY <1>1, Stands DEF Remembered, LoadsFiled
  <2>3. CASE t \in Region
    <3>1. Home[ins[i].place] = t /\ t \notin accs
      BY <1>1, <2>2, <2>3, Tables DEF Pending
    <3> QED
      BY <2>1, <3>1 DEF Reads
  <2>4. CASE t = CSE_ACC_CONST
    BY <2>1, <2>2, <2>4, Tables
  <2>5. CASE t = CSE_ACC_MULTIPLE
    BY <1>1, <2>1, <2>5 DEF Pending, Reads
  <2> QED
    BY <2>3, <2>4, <2>5 DEF CseAcc
<1>2. ASSUME NEW t \in CseAcc, NEW i \in loads[t]
      PROVE  i \in q.has
  BY <1>2 DEF LoadsTrue
<1> QED
  BY <1>1, <1>2 DEF LoadsTrue, CseAcc, Pending

LEMMA InsStoreOK ==
  ASSUME CseAssumption, IInv, NEW accs \in SUBSET Region, InsStore(accs)
  PROVE  IInv' /\ ResultExact'
<1>1. /\ Longer /\ Types /\ LoadsFiled' /\ \A p \in AllPaths : TrueOn(p)
      /\ ins' = ins /\ loads' = loads /\ stores' = stores \cup accs
      /\ UNCHANGED <<nl, known, suspended, waiting>>
      /\ paths' = {Stored(p, accs) : p \in paths}
  BY Stands, FiledStays DEF InsStore, Longer, Remembered
<1>2. ASSUME NEW p \in paths, NEW q, q = Stored(p, accs)
      PROVE  /\ Follows(q, p) /\ q \in Ways(Len(ins))
             /\ Settled(q)' /\ LoadsTrue(q)'
  <2>1. /\ q.has = p.has /\ q.yes = p.yes /\ q.no = p.no /\ q \in Ways(Len(ins))
        /\ q.cur = {i \in p.cur : ins[i].qual = "const" \/ ~Reads(i, accs)}
    BY <1>2, Lives DEF Stored, Ways
  <2>2. Settled(q)' /\ Follows(q, p)
    BY <1>1, <2>1, Lives DEF TrueOn, Settled, Follows
  <2> QED
    BY <1>1, <2>1, <2>2, Lives, StoreKeeps DEF TrueOn
<1>3. ASSUME NEW q \in AllPaths'
      PROVE  LoadsTrue(q)'
  <2>1. CASE q \in paths'
    BY <1>1, <1>2, <2>1
  <2>2. CASE q \in AllPaths
    BY <1>1, <2>2, StoreKeeps DEF TrueOn
  <2> QED
    BY <1>1, <2>1, <2>2 DEF AllPaths
<1>4. IInv'
  BY <1>1, <1>2, <1>3, SameLists DEF Types
<1> QED
  BY <1>4 DEF InsStore, ResultExact

LEMMA InsCallOK ==
  ASSUME CseAssumption, IInv, NEW accs \in SUBSET Region, InsCall(accs)
  PROVE  IInv' /\ ResultExact'
<1> DEFINE key == [op |-> "call", accs |-> accs]
<1>1. PICK n : n = New
  OBVIOUS
<1>2. key \in Instr /\ key.op \notin {"cmp", "ld"} /\ key.op \notin Tests
  BY DEF Instr, Tests
<1>3. /\ ins' = Append(ins, key) /\ Longer /\ Len(ins') = n
      /\ n \in DOMAIN ins' /\ ins'[n] = key
      /\ Types /\ LoadsFiled' /\ \A p \in AllPaths : TrueOn(p)
      /\ loads' = loads /\ stores' = stores \cup accs
      /\ UNCHANGED <<nl, known, suspended, waiting>>
      /\ paths' = {Stored(With(p), accs) : p \in paths}
      /\ result' = [ins |-> n, asked |-> key]
  BY <1>1, <1>2, Stands, Written, FiledStays
     DEF InsCall, Longer, Remembered, Write, Return
<1>4. ASSUME NEW p \in paths, NEW q, q = Stored(With(p), accs)
      PROVE  /\ Follows(q, p) /\ q \in Ways(Len(ins'))
             /\ Settled(q)' /\ LoadsTrue(q)' /\ n \in q.has
  <2>1. Grown(With(p), p, key)
    BY <1>2, RunsOn
  <2>2. /\ q.has = p.has \cup {n} /\ q.yes = With(p).yes /\ q.no = With(p).no
        /\ q \in Ways(n) /\ Follows(q, p)
        /\ q.cur = {i \in p.cur : ins[i].qual = "const" \/ ~Reads(i, accs)}
    BY <1>1, <1>4, <2>1 DEF Grown, Stored, Ways, Follows
  <2>3. \A i \in p.has : ins'[i] = ins[i]
    BY <1>3, Lives, Prefix DEF Ways
  <2>4. Settled(q)'
    BY <1>2, <1>3, <2>2, <2>3, Lives DEF TrueOn, Settled, Follows
  <2> QED
    BY <1>3, <2>2, <2>4, Lives, StoreKeeps DEF TrueOn
<1>5. ASSUME NEW q \in AllPaths'
      PROVE  LoadsTrue(q)'
  <2>1. CASE q \in paths'
    BY <1>3, <1>4, <2>1
  <2>2. CASE q \in AllPaths
    BY <1>3, <2>2, StoreKeeps DEF TrueOn
  <2> QED
    BY <1>3, <2>1, <2>2 DEF AllPaths
<1>6. IInv'
  <2>1. loads' \in [CseAcc -> SUBSET DOMAIN ins'] /\ stores' \subseteq Region
    BY <1>3, Prefix DEF Types
  <2> QED
    BY <1>3, <1>4, <1>5, <2>1, SameLists
<1>7. Answers(n, key)'
  BY <1>2, <1>3, <1>4 DEF Answers
<1> QED
  BY <1>2, <1>3, <1>6, <1>7, FoundExact

LEMMA ExternalOK ==
  ASSUME CseAssumption, IInv, NEW place \in Place, External(place)
  PROVE  IInv' /\ ResultExact'
<1>1. /\ Longer /\ Types /\ LoadsFiled /\ \A p \in AllPaths : TrueOn(p)
      /\ UNCHANGED <<ins, nl, loads, stores, known, suspended, waiting>>
      /\ paths' = {[p EXCEPT !.cur = {i \in @ : \/ ins[i].qual # "volatile"
                                                \/ ins[i].place # place}] :
                     p \in paths}
  BY Stands DEF External, filterVars, Longer, Remembered
<1>2. ASSUME NEW q \in paths'
      PROVE  \E p \in paths :
               /\ Follows(q, p) /\ q \in Ways(Len(ins)) /\ Settled(q)' /\ LoadsTrue(q)'
  <2>1. PICK p \in paths : q = [p EXCEPT !.cur = {i \in @ :
                                  ins[i].qual # "volatile" \/ ins[i].place # place}]
    BY <1>1
  <2>2. /\ q.has = p.has /\ q.yes = p.yes /\ q.no = p.no /\ q \in Ways(Len(ins))
        /\ q.cur = {i \in p.cur : ins[i].qual # "volatile" \/ ins[i].place # place}
    BY <2>1, Lives DEF Ways
  <2>3. Settled(q)' /\ Follows(q, p)
    BY <1>1, <2>2, Lives DEF TrueOn, Settled, Follows
  <2>4. \A t \in CseAcc : \A i \in loads[t] : ins[i].qual # "volatile"
    BY <1>1 DEF LoadsFiled, Filed
  <2>5. LoadsTrue(q)'
    BY <1>1, <2>2, <2>4, Lives DEF TrueOn, LoadsTrue, Pending, CseAcc
  <2> QED
    BY <2>2, <2>3, <2>5
<1>3. ASSUME NEW q \in AllPaths'
      PROVE  LoadsTrue(q)'
  <2>1. CASE q \in AllPaths
    BY <1>1, <2>1, LoadsStay DEF TrueOn
  <2> QED
    BY <1>1, <1>2, <2>1 DEF AllPaths
<1>4. LoadsFiled'
  BY <1>1, FiledStays
<1>5. IInv'
  BY <1>1, <1>2, <1>3, <1>4, SameLists DEF Types
<1> QED
  BY <1>5 DEF External, ResultExact

-----------------------------------------------------------------------------
(* Control flow.                                                           *)

\* The filter as it was, and no new ways for control to take.
LEMMA SameFilter ==
  ASSUME IInv, UNCHANGED <<ins, filterVars>>,
         waiting' \in [Label -> SUBSET Ways(Len(ins))], Closed',
         AllPaths' \subseteq AllPaths
  PROVE  IInv'
<1>1. Types' /\ LoadsFiled' /\ GuardsAsk'
  <2>1. paths' \subseteq Ways(Len(ins))
    BY Stands DEF AllPaths, Types
  <2>2. Longer /\ UNCHANGED <<ins, nl, loads, stores, known, suspended>>
    BY DEF filterVars, Longer
  <2> QED
    BY <2>1, <2>2, Stands, FiledStays, CondStays
       DEF Types, Remembered, GuardsAsk, Cond, CseAcc, Ways
<1>2. ASSUME NEW q \in AllPaths'
      PROVE  TrueOn(q)'
  <2>1. TrueOn(q) /\ Follows(q, q) /\ q \in AllPaths /\ Types
    BY Stands
  <2>2. Longer /\ UNCHANGED <<ins, nl, loads, stores, known, suspended>>
    BY DEF filterVars, Longer
  <2>3. Settled(q)'
    BY <2>1, <2>2 DEF TrueOn, Settled
  <2> QED
    BY <2>1, <2>2, <2>3, ListStays, KnownListStays, LoadsStay DEF TrueOn
<1> QED
  BY <1>1, <1>2 DEF IInv, Remembered

LEMMA LabelSuspendedOK ==
  ASSUME IInv, NEW l \in Label, LabelSuspended(l)
  PROVE  IInv' /\ ResultExact'
<1>1. waiting' \in [Label -> SUBSET Ways(Len(ins))]
  BY Stands DEF LabelSuspended, Types
<1>2. Closed'
  BY Stands DEF LabelSuspended, filterVars, Closed, Types
<1>3. AllPaths' \subseteq AllPaths
  <2>1. waiting \in [Label -> SUBSET Ways(Len(ins))]
    BY Stands DEF Types
  <2> QED
    BY <2>1 DEF LabelSuspended, AllPaths
<1> QED
  BY <1>1, <1>2, <1>3, SameFilter DEF LabelSuspended, ResultExact

LEMMA JumpOK ==
  ASSUME IInv, NEW l \in Label, NEW T \in SUBSET paths, Jump(T, l)
  PROVE  IInv' /\ ResultExact'
<1>1. Types /\ Closed
  BY Stands DEF Remembered
<1>2. waiting' \in [Label -> SUBSET Ways(Len(ins))]
  <2>1. T \subseteq Ways(Len(ins))
    BY <1>1 DEF Types
  <2> QED
    BY <1>1, <2>1 DEF Jump, Types
<1>3. Closed'
  BY <1>1 DEF Jump, filterVars, Closed, Types
<1>4. AllPaths' \subseteq AllPaths
  <2>1. waiting \in [Label -> SUBSET Ways(Len(ins))]
    BY <1>1 DEF Types
  <2> QED
    BY <2>1 DEF Jump, AllPaths
<1> QED
  BY <1>2, <1>3, <1>4, SameFilter DEF Jump, ResultExact

LEMMA InsBranchOK ==
  ASSUME IInv, NEW l \in Label, InsBranch(l)
  PROVE  IInv' /\ ResultExact'
BY JumpOK DEF InsBranch

LEMMA LabelOpenOK ==
  ASSUME IInv, LabelOpen
  PROVE  IInv' /\ ResultExact'
<1>1. Types /\ Closed
  BY Stands DEF Remembered
<1>2. Unknown \in Ways(Len(ins)) /\ ins' = ins
  BY <1>1 DEF Unknown, Ways, Types, LabelOpen
<1>3. Types' /\ Closed' /\ LoadsFiled' /\ GuardsAsk'
  BY <1>1, <1>2
     DEF LabelOpen, Types, Closed, LoadsFiled, GuardsAsk, Cond, CseAcc, Ways
<1>4. AllPaths' = {Unknown}
  BY <1>1 DEF LabelOpen, AllPaths, Closed
<1>5. TrueOn(Unknown)'
  BY <1>1, <1>2 DEF Types, LabelOpen, TrueOn, Settled, ListedTrue, KnownTrue, LoadsTrue, Unknown
<1> QED
  BY <1>3, <1>4, <1>5 DEF IInv, Remembered, LabelOpen, ResultExact

LEMMA SuspensionOK ==
  ASSUME IInv, Suspend \/ Resume
  PROVE  IInv' /\ ResultExact'
<1>1. /\ Types /\ Closed /\ LoadsFiled /\ GuardsAsk
      /\ \A p \in AllPaths : TrueOn(p) /\ Follows(p, p)
  BY Stands DEF Remembered
<1>2. /\ UNCHANGED <<ins, nl, loads, stores, known, paths, waiting>>
      /\ AllPaths' = AllPaths /\ Longer
  BY DEF Suspend, Resume, AllPaths, Longer
<1>3. suspended' \in Nat /\ Closed'
  BY <1>1 DEF Suspend, Resume, Types, Closed
<1>4. Types' /\ LoadsFiled' /\ GuardsAsk'
  BY <1>1, <1>2, <1>3, FiledStays DEF Types, GuardsAsk, Cond, CseAcc, Ways
<1>5. ASSUME NEW q \in AllPaths
      PROVE  TrueOn(q)'
  <2>1. Settled(q)'
    BY <1>1, <1>2 DEF TrueOn, Settled
  <2> QED
    BY <1>1, <1>2, <2>1, ListStays, KnownListStays, LoadsStay DEF TrueOn
<1> QED
  BY <1>2, <1>3, <1>4, <1>5 DEF IInv, Remembered, Suspend, Resume, ResultExact

-----------------------------------------------------------------------------
(* The theorems.                                                           *)

\* Nothing is in the tables of an empty filter.
LEMMA CseInitOK ==
  ASSUME Init
  PROVE  IInv /\ ResultExact
<1>1. AllPaths = {Unknown}
  BY DEF Init, AllPaths
<1>2. Types /\ Closed /\ LoadsFiled /\ GuardsAsk
  BY DEF Init, Types, Closed, LoadsFiled, GuardsAsk, Instr, Ways, Unknown, CseAcc
<1>3. TrueOn(Unknown)
  BY DEF Init, TrueOn, Settled, ListedTrue, KnownTrue, LoadsTrue, Unknown, CseAcc
<1> QED
  BY <1>1, <1>2, <1>3 DEF IInv, Remembered, Init, ResultExact

LEMMA CseNextOK ==
  ASSUME CseAssumption, IInv, Next
  PROVE  IInv' /\ ResultExact'
<1>1. CASE \E v \in {0, 1} : Imm(v)
  BY <1>1, ImmOK
<1>2. CASE \E x \in DOMAIN ins : Ins1(x) \/ Ins2(x)
  BY <1>2, Ins1OK, Ins2OK
<1>3. CASE \E op \in {"xt", "xf"}, c \in DOMAIN ins : InsGuard(op, c)
  BY <1>3, InsGuardOK DEF Tests
<1>4. CASE \E d \in LoadKind : InsLoad(d.place, d.accs, d.qual)
  BY <1>4, InsLoadOK
<1>5. CASE \E accs \in SUBSET Region : InsStore(accs) \/ InsCall(accs)
  BY <1>5, InsStoreOK, InsCallOK
<1>6. CASE \E place \in Place : External(place)
  BY <1>6, ExternalOK
<1>7. CASE LabelOpen
  BY <1>7, LabelOpenOK
<1>8. CASE \E l \in Label : LabelSuspended(l) \/ InsBranch(l)
  BY <1>8, LabelSuspendedOK, InsBranchOK
<1>9. CASE Suspend \/ Resume
  BY <1>9, SuspensionOK
<1> QED
  BY <1>1, <1>2, <1>3, <1>4, <1>5, <1>6, <1>7, <1>8, <1>9 DEF Next

LEMMA CseStutterOK ==
  ASSUME IInv, UNCHANGED vars
  PROVE  IInv' /\ (ResultExact => ResultExact')
<1>1. UNCHANGED <<ins, filterVars, paths, waiting, result>>
  BY DEF vars
<1>2. IInv'
  BY <1>1, SameFilter, Stands DEF AllPaths, Closed, Remembered, Types, filterVars
<1> QED
  BY <1>1, <1>2 DEF ResultExact, Means, Passes, Holds

\* The tables of the filter are true of every way control can take, and stay
\* so: instructions in them have run, guards were passed, comparisons came out
\* one way, and no store has changed what a load in a table has read.
THEOREM CseInvariant == CseSpec => [](IInv /\ ResultExact)
<1>1. Init => IInv /\ ResultExact
  BY CseInitOK
<1>2. IInv /\ ResultExact /\ [Next]_vars => IInv' /\ ResultExact'
  BY CseNextOK, CseStutterOK, CseAssumption
<1> QED
  BY <1>1, <1>2, PTL DEF CseSpec

\* TablesTrue, for programs of any length: whichever way control comes, an
\* instruction in a table has run, a guard there has been passed, memory still
\* holds what was loaded, and a comparison came out as recorded.
THEOREM TablesAlwaysTrue == CseSpec => []TablesTrue
<1>1. IInv => TablesTrue
  BY DEF IInv, TrueOn, ListedTrue, StandsOn, KnownTrue, LoadsTrue, TablesTrue, Tests
<1> QED
  BY <1>1, CseInvariant, PTL

\* ResultExact, for programs of any length: what a call is answered with has
\* run and has the value of what was asked for, and a guard that is left out
\* would not have exited.
THEOREM ResultAlwaysExact == CseSpec => []ResultExact
BY CseInvariant, PTL

=============================================================================
