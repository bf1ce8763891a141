---------------------------- MODULE StackFilter -----------------------------
(***************************************************************************)
(* The reader pipeline Assembler::compile sets up: a StackFilter (nanojit/ *)
(* LIR.cpp) on a LirReader on a LirBuffer.  The filter reads the fragment  *)
(* backwards and drops stores to the stack of the embedding that no exit   *)
(* will see: a later store to the same entry, with no live guard between,  *)
(* or an entry above the top that the next live guard records.             *)
(*                                                                         *)
(* Entries are counted instead of bytes (all are eight bytes).  Whether a  *)
(* guard is live has been computed by the assembler when the filter asks.  *)
(***************************************************************************)
EXTENDS LirBuffer, BitSet

ASSUME StackAssumption ==
  \A i \in Vocabulary : /\ i.op = "st" /\ i.base = "sp" => i.d \in Nat
                        /\ i.op = "guard" => i.top \in Nat

VARIABLES
  stk,    \* the entries stored to below the instruction being read
  top,    \* the top of the stack at the next live guard
  kept,   \* where what the filter has passed on is in what was read
  live    \* history: where the guards found live are in what was read

vars == <<bufVars, rdrVars, stk, top, kept, live>>
filterVars == <<stk, top, kept, live>>

StackInit ==
  /\ LirInit
  /\ stk = NewBits /\ top = 0 /\ kept = {} /\ live = {}

\* The instruction just read is passed on.
PassOn == kept' = kept \cup {Len(got')}

IsStackStore(i) == i.op = "st" /\ i.base = "sp"
IsGuard(i) == i.op = "guard"

\* A store is dropped or recorded, ...
Dropped(d) == d >= top \/ GetBit(stk, top - d)

FilterStore(i) ==
  IF Dropped(i.d)
    THEN UNCHANGED <<stk, kept>>
    ELSE /\ stk' = SetBit(stk, top - i.d)
         /\ PassOn

\* A slip: the entries stored to after the guard are not forgotten.
FilterLiveGuardKeeps(i) ==
  /\ top' = i.top
  /\ PassOn
  /\ live' = live \cup {Len(got')}
  /\ UNCHANGED stk

\* ... a live guard makes everything below its top count again, ...
FilterLiveGuard(i) ==
  /\ stk' = ResetBits(stk)
  /\ top' = i.top
  /\ PassOn
  /\ live' = live \cup {Len(got')}

FilterPass(i) == PassOn /\ UNCHANGED <<stk, top, live>>

FilterRead ==
  /\ Read
  /\ LET i == got'[Len(got')] IN
       \/ IsStackStore(i) /\ FilterStore(i) /\ UNCHANGED <<top, live>>
       \/ IsGuard(i) /\ FilterLiveGuard(i)
       \/ ~IsStackStore(i) /\ FilterPass(i)   \* guards not live among them
  /\ UNCHANGED bufVars

\* Each compilation has a filter of its own.
FilterDone ==
  /\ ReaderDone
  /\ stk' = NewBits /\ top' = 0 /\ kept' = {} /\ live' = {}

Next ==
  \/ LirWrite /\ UNCHANGED filterVars
  \/ NewReader /\ UNCHANGED filterVars
  \/ FilterRead
  \/ FollowSkip /\ UNCHANGED filterVars
  \/ FilterDone

\* Assembler::compile reads until it has the LIR_start; nothing blocks it.
Fairness == WF_vars(FilterRead) /\ WF_vars(FollowSkip /\ UNCHANGED filterVars)

Spec == StackInit /\ [][Next]_vars /\ Fairness

-----------------------------------------------------------------------------

\* The last store to entry d before place n, among those at the places s; what
\* is read comes backwards, so the last before is the first after.
LastStore(s, n, d) ==
  LET stores == {m \in s : n < m /\ IsStackStore(got[m]) /\ got[m].d = d}
  IN  IF stores = {} THEN 0 ELSE CHOOSE m \in stores : \A o \in stores : m <= o
Stored(n) == IF n = 0 THEN "before" ELSE got[n].val

\* The front end pops an entry for good: one that a live guard between the
\* store and guard n finds above its top is stored to again before it counts.
Popped(n, d) ==
  LET store == LastStore(DOMAIN got, n, d)
  IN  \E m \in live : n < m /\ got[m].top <= d /\ (store = 0 \/ m < store)

\* StackFilter::read(): with the fragment read to its start, an exit that is
\* live has been passed on, and finds in every entry below its top what the
\* fragment as written stores there.
ExitsSeeTheirStack ==
  ReaderAtStart =>
    /\ live \subseteq kept
    /\ \A n \in live : \A d \in 0..(got[n].top - 1) :
         ~Popped(n, d) => Stored(LastStore(kept, n, d))
                            = Stored(LastStore(DOMAIN got, n, d))

\* LirReader::read() and the loop of StackFilter::read(): once a fragment is
\* compiled its reader comes to the LIR_start, over all the chunks it is in.
ReaderArrives == (rdr.pc = "ready") ~> ReaderAtStart

\* LirBuffer with LirReader implements the log of module LirLog.
AbstractStart(i) == i.op = "start"
Log == INSTANCE LirLog WITH
  IsStart <- AbstractStart, log <- Inserted, last <- rdr.last
LogSpec == Log!LogSpec

=============================================================================
