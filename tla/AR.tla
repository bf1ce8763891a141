--------------------------------- MODULE AR ---------------------------------
(***************************************************************************)
(* The activation record: which value is in which 4-byte slot of the stack *)
(* frame of the code being assembled (class AR of nanojit/Assembler.h and  *)
(* its methods in nanojit/Assembler.cpp).  Slot k is at FP - 4*k.          *)
(*                                                                         *)
(* Only the calls that touch the frame are here.  While an instruction is  *)
(* assembled, backwards as always, any value that is still to be reached   *)
(* may be evicted to memory (findMemFor), among them the one the           *)
(* instruction defines, which gives up its slots when its code is there    *)
(* (freeResourcesOf).                                                      *)
(***************************************************************************)
EXTENDS Integers

CONSTANTS
  NumIns,              \* number of values, in program order
  NJ_MAX_STACK_ENTRY,  \* length of _entries
  Kind,                \* what a value can be: [slots, f4]
  BAD_ENTRY,           \* what an entry holds before it was ever written
  MaxFragments,        \* bound on the fragments compiled one after the other
  NULL

Ins == 1..NumIns
Entry == 0..(NJ_MAX_STACK_ENTRY - 1)

ASSUME ARAssumption ==
  /\ NumIns \in Nat
  /\ NJ_MAX_STACK_ENTRY \in Nat \ {0}
  /\ Kind \subseteq [slots : Nat \ {0}, f4 : BOOLEAN]
  /\ Kind # {}
  /\ MaxFragments \in Nat
  /\ \A k \in Kind : k.f4 => k.slots = 4
  /\ NULL \notin Int /\ BAD_ENTRY \notin Int /\ NULL # BAD_ENTRY

VARIABLES
  entries,  \* AR::_entries
  hwm,      \* AR::_highWaterMark
  ar,       \* arIndex in each value's reservation, NULL if it is not inAr
  kind,     \* the program: what each value is
  next,     \* values 1..next are still to be reached
  job,      \* what is being assembled: nothing, a use, the definition of next
  error,    \* StackFull
  fragment  \* bounded: fragments compiled before this one

vars == <<entries, hwm, ar, kind, next, job, error, fragment>>

-----------------------------------------------------------------------------
(* reserveEntry.  An entry of n slots is named by the highest of them.     *)

Slots(i) == kind[i].slots
Range(k, n) == (k - n + 1)..k

\* Faulty variant: only the slot that names the entry is looked at.
IsEmptyTop(k, n) == entries[k] = NULL

IsEmptyRange(k, n) == \A m \in Range(k, n) : entries[m] = NULL

\* Where the search for room below the high-water mark looks.
Step(i) == IF Slots(i) = 1 THEN 1 ELSE IF kind[i].f4 THEN 4 ELSE 2
Start(i) ==
  IF Slots(i) = 1 \/ kind[i].f4 THEN Slots(i) ELSE Slots(i) + (Slots(i) % 2)
Candidates(i) == {k \in Start(i)..hwm : (k - Start(i)) % Step(i) = 0}
Holes(i) == {k \in Candidates(i) : IsEmptyRange(k, Slots(i))}

\* Faulty variant: float4 values are aligned as doubles are.
PaddingForDoubles(i) ==
  IF Slots(i) > 1 /\ hwm % 2 # Slots(i) % 2 THEN 1 ELSE 0

Padding(i) ==
  CASE Slots(i) = 1 -> 0
    [] Slots(i) > 1 /\ kind[i].f4 -> (4 - (hwm % 4)) % 4
    [] OTHER -> IF hwm % 2 # Slots(i) % 2 THEN 1 ELSE 0

\* Faulty variant: the last slot is taken to be NJ_MAX_STACK_ENTRY.
SpaceLeftOneMore == NJ_MAX_STACK_ENTRY - hwm

SpaceLeft == NJ_MAX_STACK_ENTRY - hwm - 1
Fits(i) == Slots(i) + Padding(i) <= SpaceLeft

Occupy(i, k) ==
  /\ ar' = [ar EXCEPT ![i] = k]
  /\ UNCHANGED <<kind, next, job, error, fragment>>

ReserveHole(i, k) ==
  /\ k \in Holes(i)
  /\ \A j \in Holes(i) : k <= j
  /\ entries' = [m \in Entry |-> IF m \in Range(k, Slots(i)) THEN i
                                                             ELSE entries[m]]
  /\ UNCHANGED hwm
  /\ Occupy(i, k)

ReserveTop(i) ==
  LET top == hwm + Padding(i) + Slots(i) IN
  /\ Holes(i) = {}
  /\ Fits(i)
  /\ entries' = [m \in Entry |->
                   CASE m \in Range(top, Slots(i)) -> i
                     [] m \in (hwm + 1)..(top - Slots(i)) -> NULL
                     [] OTHER -> entries[m]]
  /\ hwm' = top
  /\ Occupy(i, top)

\* reserveEntry returns 0, arReserve sets the error; the value has index 0.
ReserveFails(i) ==
  /\ Holes(i) = {}
  /\ ~Fits(i)
  /\ error' = TRUE
  /\ ar' = [ar EXCEPT ![i] = 0]
  /\ UNCHANGED <<entries, hwm, kind, next, job, fragment>>

\* findMemFor, from evict, prepareResultReg's callers or a loop's back edge.
FindMemFor(i) ==
  /\ job \in {"use", "def", "freed"}
  /\ i < next \/ (i = next /\ job # "freed")
  /\ ar[i] = NULL
  /\ \/ \E k \in Entry : ReserveHole(i, k)
     \/ ReserveTop(i)
     \/ ReserveFails(i)

-----------------------------------------------------------------------------
(* freeEntryAt.                                                            *)

\* Faulty variant: an entry of several slots loses only one.
FreedOnlyOne(idx) == {idx}

\* From idx down as long as the entries are the same.
Freed(idx) == {k \in 1..idx : \A m \in k..idx : entries[m] = entries[idx]}

FreeEntryAt(idx) ==
  /\ idx > 0
  /\ entries' = [m \in Entry |-> IF m \in Freed(idx) THEN NULL ELSE entries[m]]
  /\ job' = "freed"
  /\ ar' = [ar EXCEPT ![next] = NULL]
  /\ UNCHANGED <<hwm, kind, next, error, fragment>>

\* With index 0 the loop starts at the entry that is always NULL, and wraps
\* around to the end of the index's range: what follows is undefined.
FreeOutside ==
  /\ ar[next] = 0
  /\ job' = "outside"
  /\ UNCHANGED <<entries, hwm, ar, kind, next, error, fragment>>

FreeNothing ==
  /\ ar[next] = NULL
  /\ job' = "freed"
  /\ UNCHANGED <<entries, hwm, ar, kind, next, error, fragment>>

\* freeResourcesOf(the instruction being assembled).
FreeResourcesOf ==
  /\ job = "def"
  /\ \/ FreeNothing
     \/ FreeOutside
     \/ ar[next] # NULL /\ FreeEntryAt(ar[next])

-----------------------------------------------------------------------------
(* gen, one instruction after the other, until the start or an error.      *)

Begin(j) ==
  /\ job = "none"
  /\ next > 0
  /\ ~error
  /\ job' = j
  /\ UNCHANGED <<entries, hwm, ar, kind, next, error, fragment>>

EndUse ==
  /\ job = "use"
  /\ job' = "none"
  /\ UNCHANGED <<entries, hwm, ar, kind, next, error, fragment>>

EndDef ==
  /\ job = "freed"
  /\ job' = "none"
  /\ next' = next - 1
  /\ UNCHANGED <<entries, hwm, ar, kind, error, fragment>>

\* beginAssembly of the next fragment: arReset, AR::clear.  The entries keep
\* what they had.
Reset ==
  /\ job = "none"
  /\ next = 0 \/ error
  /\ fragment < MaxFragments
  /\ fragment' = fragment + 1
  /\ hwm' = 0
  /\ ar' = [i \in Ins |-> NULL]
  /\ kind' \in [Ins -> Kind]
  /\ next' = NumIns
  /\ error' = FALSE
  /\ UNCHANGED <<entries, job>>

Init ==
  /\ entries = [m \in Entry |-> IF m = 0 THEN NULL ELSE BAD_ENTRY]
  /\ hwm = 0
  /\ ar = [i \in Ins |-> NULL]
  /\ kind \in [Ins -> Kind]
  /\ next = NumIns
  /\ job = "none"
  /\ error = FALSE
  /\ fragment = 0

Next ==
  \/ Begin("use") \/ Begin("def")
  \/ \E i \in Ins : FindMemFor(i)
  \/ FreeResourcesOf
  \/ EndUse \/ EndDef
  \/ Reset

ARSpec == Init /\ [][Next]_vars

-----------------------------------------------------------------------------
(* Properties.                                                             *)

InAr(i) == ar[i] # NULL /\ ar[i] # 0

\* Every variable has its type; entry 0 is always NULL.
ARTypeOK ==
  /\ entries \in [Entry -> Ins \cup {NULL, BAD_ENTRY}]
  /\ entries[0] = NULL
  /\ hwm \in Entry
  /\ ar \in [Ins -> Entry \cup {NULL}]
  /\ kind \in [Ins -> Kind]
  /\ next \in 0..NumIns
  /\ job \in {"none", "use", "def", "freed", "outside"}
  /\ error \in BOOLEAN
  /\ fragment \in 0..MaxFragments

\* The two-way mapping of Assembler.h: a value is in the entries its
\* reservation names and in no others.  Nothing left over from an earlier
\* fragment shows below the high-water mark.
EntriesMatch ==
  /\ \A m \in 1..hwm : entries[m] # BAD_ENTRY
  /\ \A i \in Ins :
       {m \in 1..hwm : entries[m] = i} =
         IF InAr(i) THEN Range(ar[i], Slots(i)) ELSE {}

\* A value of several slots is at an address that is a multiple of 8 bytes, a
\* float4 at one that is a multiple of 16: the loads and stores rely on it.
SlotsAligned ==
  \A i \in Ins : InAr(i) => /\ Slots(i) > 1 => ar[i] % 2 = 0
                            /\ kind[i].f4 => ar[i] % 4 = 0

\* checkForResourceLeaks: at the start of the fragment every slot is free.
EverythingFreed ==
  next = 0 => \A m \in 1..hwm : entries[m] = NULL

\* The entries are an implementation of the frame.
Frame == INSTANCE FrameSlots WITH
  MaxSlot <- NJ_MAX_STACK_ENTRY - 1,
  place <- [i \in Ins |-> {m \in 1..hwm : entries[m] = i}]

FrameSpec == Frame!Spec

=============================================================================
