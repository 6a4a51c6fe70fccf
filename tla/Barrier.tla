------------------------------ MODULE Barrier ------------------------------
(***************************************************************************)
(* The re-entrant barrier of libconcurrent/primitives/barrier.c, with the  *)
(* threads that meet at it again and again. Each meeting has two phases,   *)
(* arrive and leave; whoever comes last in a phase resets the counter of   *)
(* that phase and the flag of the other one, then lets the others go.      *)
(***************************************************************************)
EXTENDS Integers, FiniteSets

CONSTANT Threads

ASSUME ConstantsAssumption == IsFiniteSet(Threads) /\ Threads # {}

VARIABLES
  arrive, leave, arrive_flag, leave_flag,   (* fields of the SynchBarrier  *)
  pc,
  meeting      (* how often a thread has called synchBarrierWait, mod 3    *)

vars == <<arrive, leave, arrive_flag, leave_flag, pc, meeting>>

val_at_set == Cardinality(Threads)

Goto(t, from, to) ==
  /\ pc[t] = from
  /\ pc' = [pc EXCEPT ![t] = to]

-----------------------------------------------------------------------------
(* synchBarrierSet *)
Init ==
  /\ arrive = val_at_set /\ leave = val_at_set
  /\ arrive_flag = TRUE /\ leave_flag = TRUE
  /\ pc = [t \in Threads |-> "out"]
  /\ meeting = [t \in Threads |-> 0]

(* synchBarrierWait is called. *)
Wait(t) ==
  /\ Goto(t, "out", "arrive")
  /\ meeting' = [meeting EXCEPT ![t] = (@ + 1) % 3]
  /\ UNCHANGED <<arrive, leave, arrive_flag, leave_flag>>

(* if (synchFAA32(&bar->arrive, -1) > 1) *)
Arrive(t) ==
  /\ Goto(t, "arrive", IF arrive > 1 THEN "awaitAll" ELSE "resetArrive")
  /\ arrive' = arrive - 1
  /\ UNCHANGED <<leave, arrive_flag, leave_flag, meeting>>

AwaitAll(t) ==
  /\ Goto(t, "awaitAll", "leave")
  /\ ~arrive_flag
  /\ UNCHANGED <<arrive, leave, arrive_flag, leave_flag, meeting>>

(* The last to arrive. Three stores, in this order. *)
ResetArrive(t) ==
  /\ Goto(t, "resetArrive", "closeLeave")
  /\ arrive' = val_at_set
  /\ UNCHANGED <<leave, arrive_flag, leave_flag, meeting>>

CloseLeave(t) ==
  /\ Goto(t, "closeLeave", "openArrive")
  /\ leave_flag' = TRUE
  /\ UNCHANGED <<arrive, leave, arrive_flag, meeting>>

OpenArrive(t) ==
  /\ Goto(t, "openArrive", "leave")
  /\ arrive_flag' = FALSE
  /\ UNCHANGED <<arrive, leave, leave_flag, meeting>>

(* if (synchFAA32(&bar->leave, -1) > 1) *)
Leave(t) ==
  /\ Goto(t, "leave", IF leave > 1 THEN "awaitLeave" ELSE "resetLeave")
  /\ leave' = leave - 1
  /\ UNCHANGED <<arrive, arrive_flag, leave_flag, meeting>>

AwaitLeave(t) ==
  /\ Goto(t, "awaitLeave", "out")
  /\ ~leave_flag
  /\ UNCHANGED <<arrive, leave, arrive_flag, leave_flag, meeting>>

(* The last to leave. *)
ResetLeave(t) ==
  /\ Goto(t, "resetLeave", "closeArrive")
  /\ leave' = val_at_set
  /\ UNCHANGED <<arrive, arrive_flag, leave_flag, meeting>>

(* Mutant of CloseArrive: the flag of the first phase stays down. *)
CloseArriveNever(t) ==
  /\ Goto(t, "closeArrive", "openLeave")
  /\ UNCHANGED <<arrive, leave, arrive_flag, leave_flag, meeting>>

CloseArrive(t) ==
  /\ Goto(t, "closeArrive", "openLeave")
  /\ arrive_flag' = TRUE
  /\ UNCHANGED <<arrive, leave, leave_flag, meeting>>

OpenLeave(t) ==
  /\ Goto(t, "openLeave", "out")
  /\ leave_flag' = FALSE
  /\ UNCHANGED <<arrive, leave, arrive_flag, meeting>>

Step(t) ==
  \/ Wait(t)
  \/ Arrive(t) \/ AwaitAll(t) \/ ResetArrive(t) \/ CloseLeave(t) \/ OpenArrive(t)
  \/ Leave(t) \/ AwaitLeave(t) \/ ResetLeave(t) \/ CloseArrive(t) \/ OpenLeave(t)

Next == \E t \in Threads : Step(t)

Spec == Init /\ [][Next]_vars

(* Every thread comes to the barrier again (or nobody could ever leave),    *)
(* and takes its steps.                                                     *)
Fairness == \A t \in Threads : WF_vars(Step(t))

-----------------------------------------------------------------------------
(* The type of the state. The counters never go below zero.                 *)
TypeOK ==
  /\ arrive \in 0 .. val_at_set /\ leave \in 0 .. val_at_set
  /\ arrive_flag \in BOOLEAN /\ leave_flag \in BOOLEAN
  /\ pc \in [Threads -> {"out", "arrive", "awaitAll", "resetArrive", "closeLeave", "openArrive",
                         "leave", "awaitLeave", "resetLeave", "closeArrive", "openLeave"}]
  /\ meeting \in [Threads -> 0 .. 2]

(* A thread that has passed the first phase of a meeting, or the whole of   *)
(* it, does so only after all the others have come to that meeting; they    *)
(* may have gone on to the next one, but not further.                       *)
Passed(t) == pc[t] \in {"leave", "awaitLeave", "resetLeave", "closeArrive", "openLeave", "out"}

NobodyPassesAlone ==
  \A t, u \in Threads :
    Passed(t) => \/ meeting[u] = meeting[t]
                 \/ meeting[u] = (meeting[t] + 1) % 3 /\ ~Passed(u)

(* The barrier can be entered again at once: nobody is left behind at a     *)
(* flag that fast threads have raised again.                                *)
WaitReturns == \A t \in Threads : pc[t] = "arrive" ~> pc[t] = "out"
=============================================================================
