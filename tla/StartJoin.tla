----------------------------- MODULE StartJoin -----------------------------
(***************************************************************************)
(* synchStartThreadsN and synchJoinThreadsN of                             *)
(* libconcurrent/primitives/threadtools.c: the main thread starts threads, *)
(* runs the last of them itself, and waits for the others at the static    *)
(* barrier bar, through synchBarrierLeave and synchBarrierLastLeave. A     *)
(* program may do so several times, each a round.                          *)
(***************************************************************************)
EXTENDS Integers

CONSTANTS
  nthreads, uthreads,   (* arguments of synchStartThreadsN                 *)
  Rounds                (* how often the program starts threads            *)

ConstantsAssumption ==
  /\ nthreads \in Nat \ {0} /\ uthreads \in Nat \ {0} /\ uthreads <= nthreads
  /\ Rounds \in Nat

(* How many POSIX threads there are: with fibers, each of them runs         *)
(* uthreads of the nthreads ids.                                            *)
Wrappers == nthreads \div uthreads

(* Wrapper i of round r (kthreadWrapper or uthreadWrapper); the last one of *)
(* each round is called by the main thread.                                 *)
Runs == (1 .. Rounds) \X (0 .. Wrappers - 1)
Own(r) == <<r, Wrappers - 1>>

VARIABLES
  arrive, leave,   (* of bar                                               *)
  pc,              (* of the wrappers                                      *)
  main,            (* the statement of the main thread                     *)
  round            (* how many times it has started threads                *)

vars == <<arrive, leave, pc, main, round>>

-----------------------------------------------------------------------------
Init ==
  /\ arrive = 0 /\ leave = 0
  /\ pc = [p \in Runs |-> "none"]
  /\ main = "ready"
  /\ round = 0

(* synchStartThreadsN: synchBarrierSet(&bar, Wrappers + 1), a store for     *)
(* each counter (LastLeave and Leave use no other field).                   *)
SetArrive ==
  /\ main = "ready" /\ round < Rounds
  /\ round' = round + 1
  /\ arrive' = Wrappers + 1
  /\ main' = "setLeave"
  /\ UNCHANGED <<leave, pc>>

SetLeave ==
  /\ main = "setLeave"
  /\ leave' = Wrappers + 1
  /\ main' = "create"
  /\ UNCHANGED <<arrive, pc, round>>

(* pthread_create, in the order of the ids; after the last one the main     *)
(* thread calls the wrapper itself.                                         *)
Create ==
  /\ main = "create"
  /\ \E i \in 0 .. Wrappers - 1 :
       /\ pc[<<round, i>>] = "none"
       /\ \A j \in 0 .. i - 1 : pc[<<round, j>>] # "none"
       /\ pc' = [pc EXCEPT ![<<round, i>>] = "run"]
       /\ main' = IF i = Wrappers - 1 THEN "inWrapper" ELSE "create"
  /\ UNCHANGED <<arrive, leave, round>>

(* __func returns, and so do the fibers: synchWaitForAllFibers.             *)
FuncReturns(p) ==
  /\ pc[p] = "run"
  /\ pc' = [pc EXCEPT ![p] = "leaveArrive"]
  /\ UNCHANGED <<arrive, leave, main, round>>

(* synchBarrierLeave: two Fetch&Adds *)
LeaveArrive(p) ==
  /\ pc[p] = "leaveArrive"
  /\ arrive' = arrive - 1
  /\ pc' = [pc EXCEPT ![p] = "leaveLeave"]
  /\ UNCHANGED <<leave, main, round>>

LeaveLeave(p) ==
  /\ pc[p] = "leaveLeave"
  /\ leave' = leave - 1
  /\ pc' = [pc EXCEPT ![p] = "ended"]
  /\ UNCHANGED <<arrive, main, round>>

(* synchJoinThreadsN: synchBarrierLastLeave calls synchBarrierLeave ...     *)
JoinArrive ==
  /\ main = "inWrapper" /\ pc[Own(round)] = "ended"
  /\ arrive' = arrive - 1
  /\ main' = "joinLeave"
  /\ UNCHANGED <<leave, pc, round>>

JoinLeave ==
  /\ main = "joinLeave"
  /\ leave' = leave - 1
  /\ main' = "await"
  /\ UNCHANGED <<arrive, pc, round>>

(* Mutant of AwaitArrive: the loop is left at once. *)
AwaitNothing ==
  /\ main = "await"
  /\ main' = "ready"
  /\ UNCHANGED <<arrive, leave, pc, round>>

(* ... and loops while (bar->arrive != 0 && bar->leave != 0), two loads.    *)
AwaitArrive ==
  /\ main = "await"
  /\ main' = IF arrive = 0 THEN "ready" ELSE "awaitLeave"
  /\ UNCHANGED <<arrive, leave, pc, round>>

AwaitLeave ==
  /\ main = "awaitLeave"
  /\ main' = IF leave = 0 THEN "ready" ELSE "await"
  /\ UNCHANGED <<arrive, leave, pc, round>>

MainStep ==
  \/ SetArrive \/ SetLeave \/ Create
  \/ JoinArrive \/ JoinLeave \/ AwaitArrive \/ AwaitLeave

WrapperStep(p) == FuncReturns(p) \/ LeaveArrive(p) \/ LeaveLeave(p)

Next == MainStep \/ \E p \in Runs : WrapperStep(p)

Spec == Init /\ [][Next]_vars

(* Every thread takes its steps, and func returns.                          *)
Fairness == WF_vars(MainStep) /\ \A p \in Runs : WF_vars(WrapperStep(p))

-----------------------------------------------------------------------------
(* threadtools.h: synchJoinThreadsN "returns whenever all the created posix *)
(* threads and fibers spawned by StartThreadsN have completed the           *)
(* execution". Completed is read as: func has returned in all of them.      *)
(* This holds of the first round and not of the next. The loop of           *)
(* synchBarrierLastLeave ends as soon as arrive is 0, when a wrapper of     *)
(* round 1 may still have its LeaveLeave to do; done after SetLeave of      *)
(* round 2 it is one too many there, leave comes to 0 while one thread of   *)
(* round 2 has still to decrement it, and the loop ends without that one.   *)
JoinWaitsForAll ==
  main = "ready" => \A i \in 0 .. Wrappers - 1 :
                      round > 0 => pc[<<round, i>>] \notin {"none", "run"}

(* The join returns.                                                        *)
JoinReturns == main = "setLeave" ~> main = "ready"
=============================================================================
