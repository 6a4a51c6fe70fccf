------------------------------ MODULE UThreads ------------------------------
(***************************************************************************)
(* User-level threads (libconcurrent/primitives/uthreads.c), as            *)
(* uthreadWrapper of threadtools.c uses them: fiber 0 of a POSIX thread    *)
(* spawns the others, runs func like them, and waits for them to end. The  *)
(* fibers of one POSIX thread take turns: one runs until it yields or ends.*)
(***************************************************************************)
EXTENDS Integers, FiniteSets

CONSTANTS
  MAX_FIBERS,  (* uthreads, the slots of FIBER_LIST                        *)
  NULL

ConstantsAssumption == MAX_FIBERS \in Nat \ {0} /\ NULL \notin Int

Slots == 0 .. MAX_FIBERS - 1

VARIABLES
  N_FIBERS,
  active,         (* FIBER_LIST[i].active                                  *)
  currentFiber,
  FIBER_RECYCLE,  (* the stack to be freed; a stack has its fiber's number *)
  freed,          (* the stacks that were freed                            *)
  at              (* at[i]: where fiber i is, or where it was switched off *)

vars == <<N_FIBERS, active, currentFiber, FIBER_RECYCLE, freed, at>>

-----------------------------------------------------------------------------
(* synchInitFibers *)
Init ==
  /\ N_FIBERS = 1
  /\ active = [i \in Slots |-> i = 0]
  /\ currentFiber = 0
  /\ FIBER_RECYCLE = NULL
  /\ freed = {}
  /\ at = [i \in Slots |-> IF i = 0 THEN "spawning" ELSE "none"]

(* synchSpawnFiber: the new fiber runs up to the _setjmp of                 *)
(* fiber_start_func and is then switched off.                               *)
Spawn ==
  /\ at[0] = "spawning" /\ N_FIBERS < MAX_FIBERS
  /\ active' = [active EXCEPT ![N_FIBERS] = TRUE]
  /\ at' = [at EXCEPT ![N_FIBERS] = "fresh"]
  /\ N_FIBERS' = N_FIBERS + 1
  /\ UNCHANGED <<currentFiber, FIBER_RECYCLE, freed>>

(* The main fiber calls func, and then synchWaitForAllFibers.               *)
CallFunc ==
  /\ at[0] = "spawning" /\ N_FIBERS = MAX_FIBERS
  /\ at' = [at EXCEPT ![0] = "func"]
  /\ UNCHANGED <<N_FIBERS, active, currentFiber, FIBER_RECYCLE, freed>>

FuncReturns ==
  /\ currentFiber = 0 /\ at[0] = "func"
  /\ at' = [at EXCEPT ![0] = "waiting"]
  /\ UNCHANGED <<N_FIBERS, active, currentFiber, FIBER_RECYCLE, freed>>

(* Mutant of NextFiber: the search starts from slot 0 again. *)
FirstFiber(alive) ==
  CHOOSE i \in Slots : alive[i] /\ \A j \in 0 .. i - 1 : ~alive[j] \/ j = currentFiber

(* The next active fiber in FIBER_LIST, and back to the first after the last. *)
NextFiber(alive) ==
  LET After(d) == (currentFiber + d) % MAX_FIBERS
      d == CHOOSE e \in 1 .. MAX_FIBERS :
             /\ alive[After(e)]
             /\ \A f \in 1 .. e - 1 : ~alive[After(f)]
  IN  After(d)

(* switch_to_fiber(n). A fiber that was switched off in synchFiberYield     *)
(* frees the stack that is left to recycle; one that has not started yet    *)
(* goes on in fiber_start_func, which does not.                             *)
SwitchTo(n, where, recycle) ==
  /\ currentFiber' = n
  /\ at' = [where EXCEPT ![n] = IF @ = "fresh" THEN "func" ELSE @]
  /\ IF where[n] = "fresh"
       THEN FIBER_RECYCLE' = recycle /\ UNCHANGED freed
       ELSE FIBER_RECYCLE' = NULL /\ freed' = freed \cup ({recycle} \ {NULL})

(* synchFiberYield, from func or from synchWaitForAllFibers                 *)
Yield ==
  /\ N_FIBERS > 1 /\ at[currentFiber] \in {"func", "waiting"}
  /\ SwitchTo(NextFiber(active), at, FIBER_RECYCLE)
  /\ UNCHANGED <<N_FIBERS, active>>

(* func returns in a fiber other than the main one: the end of              *)
(* fiber_start_func, on the stack it leaves to be freed.                    *)
End ==
  LET alive == [active EXCEPT ![currentFiber] = FALSE]
  IN  /\ currentFiber # 0 /\ at[currentFiber] = "func"
      /\ active' = alive
      /\ N_FIBERS' = N_FIBERS - 1
      /\ SwitchTo(NextFiber(alive), [at EXCEPT ![currentFiber] = "ended"], currentFiber)

(* synchWaitForAllFibers returns. *)
AllEnded ==
  /\ at[0] = "waiting" /\ currentFiber = 0 /\ N_FIBERS = 1
  /\ at' = [at EXCEPT ![0] = "done"]
  /\ UNCHANGED <<N_FIBERS, active, currentFiber, FIBER_RECYCLE, freed>>

Next == Spawn \/ CallFunc \/ FuncReturns \/ Yield \/ End \/ AllEnded

Spec == Init /\ [][Next]_vars

(* A fiber does not keep the processor for ever: it yields, or it ends.     *)
Fairness == WF_vars(Spawn \/ CallFunc) /\ WF_vars(Yield \/ End) /\ WF_vars(AllEnded)

-----------------------------------------------------------------------------
(* The type of the state. *)
TypeOK ==
  /\ N_FIBERS = Cardinality({i \in Slots : active[i]})
  /\ currentFiber \in Slots
  /\ FIBER_RECYCLE \in Slots \cup {NULL} /\ freed \subseteq Slots
  /\ at \in [Slots -> {"none", "spawning", "fresh", "func", "waiting", "ended", "done"}]

(* A fiber that is switched on is one that has not ended, and its stack is  *)
(* neither freed nor about to be; and when the main fiber has done waiting, *)
(* all the others have run func to its end.                                 *)
StacksInUseAreKept ==
  /\ active[currentFiber]
  /\ \A i \in Slots : active[i] => i \notin freed \cup {FIBER_RECYCLE}
  /\ at[0] = "done" => \A i \in Slots \ {0} : at[i] = "ended"

(* Every fiber gets its turn. *)
EveryFiberRuns == \A i \in Slots : active[i] ~> currentFiber = i
=============================================================================
