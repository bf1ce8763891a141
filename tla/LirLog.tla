------------------------------- MODULE LirLog -------------------------------
(***************************************************************************)
(* What LirBuffer and LirReader together promise: a log the writers append *)
(* to, of which a reader delivers one fragment backwards, each instruction *)
(* once, from the last one inserted down to the LIR_start it began with.   *)
(***************************************************************************)
EXTENDS Integers, Sequences

CONSTANT IsStart(_)   \* the instruction is a LIR_start

VARIABLES
  log,     \* what has been inserted
  last,    \* where the reader began; 0 when nothing is read
  got      \* what it has delivered

logVars == <<log, last, got>>

Started == log # <<>> /\ \E i \in DOMAIN log : IsStart(log[i])
AtStart == got # <<>> /\ IsStart(got[Len(got)])

LogInit == log = <<>> /\ last = 0 /\ got = <<>>

Insert ==
  /\ last = 0
  /\ \E n \in 1..3 : Len(log') = Len(log) + n /\ SubSeq(log', 1, Len(log)) = log
  /\ UNCHANGED <<last, got>>

Open ==
  /\ last = 0 /\ Started
  /\ last' = Len(log) /\ got' = <<>>
  /\ UNCHANGED log

Deliver ==
  /\ last # 0 /\ ~AtStart
  /\ got' = Append(got, log[last - Len(got)])
  /\ UNCHANGED <<log, last>>

Close == /\ last # 0 /\ AtStart
         /\ last' = 0 /\ got' = <<>>
         /\ UNCHANGED log

LogNext == Insert \/ Open \/ Deliver \/ Close
LogSpec == LogInit /\ [][LogNext]_logVars /\ WF_logVars(Deliver)

=============================================================================
