----------------------------- MODULE MCUtilities ----------------------------
(* The utilities under the objects for TLC, side by side: a behaviour is    *)
(* one of the barrier, of starting and joining threads, of user-level       *)
(* threads, of a pool or of the placement of threads, which is chosen at    *)
(* the start, and the others stay as they are initialised.                  *)
EXTENDS Barrier, TLC

CONSTANTS
  nthreads, uthreads, Rounds, MAX_FIBERS, Entries, MaxBlocks, NULL, MaxThreads,
  Machines

(* For TLC: with and without SMT, one NUMA node, two, or as many as there   *)
(* are pairs of CPUs; and an odd number of CPUs on one node.                *)
MCMachines ==
  [ncpus : {4, 8, 12}, nodes : {1, 2}, smt : BOOLEAN]
  \cup [ncpus : {8}, nodes : {4}, smt : BOOLEAN]
  \cup [ncpus : {3, 5}, nodes : {1}, smt : {FALSE}]

VARIABLES
  which,       (* the component this behaviour is of                       *)
  j_arrive, j_leave, j_pc, j_main, j_round,
  u_N_FIBERS, u_active, u_currentFiber, u_FIBER_RECYCLE, u_freed, u_at,
  p_entry, p_next, p_back, p_head_block, p_cur_block, p_recycle_list, p_held,
  p_usage,
  l_machine, l_schedule_policy, l_hsynch, l_nthreads, l_preferred_core,
  l_preferred_node, l_node_of_thread

j_vars ==
  <<j_arrive, j_leave, j_pc, j_main, j_round>>
u_vars ==
  <<u_N_FIBERS, u_active, u_currentFiber, u_FIBER_RECYCLE, u_freed, u_at>>
p_vars ==
  <<p_entry, p_next, p_back, p_head_block, p_cur_block, p_recycle_list, p_held,
  p_usage>>
l_vars ==
  <<l_machine, l_schedule_policy, l_hsynch, l_nthreads, l_preferred_core,
  l_preferred_node, l_node_of_thread>>

J == INSTANCE StartJoin WITH
  arrive <- j_arrive, leave <- j_leave, pc <- j_pc, main <- j_main, round <-
  j_round

U == INSTANCE UThreads WITH
  N_FIBERS <- u_N_FIBERS, active <- u_active, currentFiber <- u_currentFiber,
  FIBER_RECYCLE <- u_FIBER_RECYCLE, freed <- u_freed, at <- u_at

P == INSTANCE Pool WITH
  entry <- p_entry, next <- p_next, back <- p_back, head_block <-
  p_head_block, cur_block <- p_cur_block, recycle_list <- p_recycle_list, held
  <- p_held, usage <- p_usage

L == INSTANCE Placement WITH
  machine <- l_machine, schedule_policy <- l_schedule_policy, hsynch <-
  l_hsynch, nthreads <- l_nthreads, preferred_core <- l_preferred_core,
  preferred_node <- l_preferred_node, node_of_thread <- l_node_of_thread,
  UserRegions <- FALSE

ASSUME MCAssumption ==
  /\ J!ConstantsAssumption /\ U!ConstantsAssumption
  /\ P!ConstantsAssumption /\ L!ConstantsAssumption

MCInit ==
  /\ which \in {"Barrier", "StartJoin", "UThreads", "Pool", "Placement"}
  /\ Init /\ J!Init /\ U!Init /\ P!Init /\ L!Init
  /\ which # "Pool" => p_usage = "recycles"
  /\ which # "Placement" =>
       l_nthreads = 1 /\ l_machine = CHOOSE m \in Machines : TRUE

MCNext ==
  \/ which = "Barrier" /\ Next /\ UNCHANGED <<which, j_vars, u_vars, p_vars, l_vars>>
  \/ which = "StartJoin" /\ J!Next /\ UNCHANGED <<which, vars, u_vars, p_vars, l_vars>>
  \/ which = "UThreads" /\ U!Next /\ UNCHANGED <<which, vars, j_vars, p_vars, l_vars>>
  \/ which = "Pool" /\ P!Next /\ UNCHANGED <<which, vars, j_vars, u_vars, l_vars>>
  \/ which = "Placement" /\ L!Next /\ UNCHANGED <<which, vars, j_vars, u_vars, p_vars>>

(* The fairness of the modules, each for its own behaviours.                *)
MCFairness ==
  /\ \A t \in Threads : WF_vars(which = "Barrier" /\ Step(t))
  /\ WF_j_vars(which = "StartJoin" /\ J!MainStep)
  /\ \A r \in J!Runs : WF_j_vars(which = "StartJoin" /\ J!WrapperStep(r))
  /\ WF_u_vars(which = "UThreads" /\ (U!Spawn \/ U!CallFunc))
  /\ WF_u_vars(which = "UThreads" /\ (U!Yield \/ U!End))
  /\ WF_u_vars(which = "UThreads" /\ U!AllEnded)

MCSpec ==
  MCInit /\ [][MCNext]_<<which, vars, j_vars, u_vars, p_vars, l_vars>> /\ MCFairness

-----------------------------------------------------------------------------
(* The first time a program starts and joins threads, synchJoinThreadsN, a  *)
(* barrier that the threads leave one by one, returns only when func has    *)
(* returned in all of them (barrier.c:40-50). threadtools.h:54 promises     *)
(* that of every join, and a second one may break the promise: see          *)
(* JoinWaitsForAll in StartJoin.                                            *)
JoinWaitsForThreads == which = "StartJoin" /\ j_round <= 1 => J!JoinWaitsForAll

(* Memory in use is neither freed nor handed out again: no fiber is         *)
(* switched to after its end and no stack is freed under a fiber that still *)
(* runs on it (uthreads.c:45-84), and a pool hands out no object twice,     *)
(* also after allocations were cancelled across the border of two blocks    *)
(* (pool.c:47-104).                                                         *)
MemoryInUseIsKept ==
  /\ which = "UThreads" => U!TypeOK /\ U!StacksInUseAreKept
  /\ which = "Pool" => P!TypeOK /\ P!NoObjectTwice

(* The cores and NUMA nodes the library computes for threads agree with     *)
(* each other and with the blocks of H-Synch (threadtools.c:80-152,         *)
(* hsynch.c:75-99). Two things are excepted, and said in                    *)
(* TopologyFitsThreads: where SMT is detected, unique cores and room in the *)
(* blocks under the default policy; on one NUMA node with an odd number of  *)
(* CPUs, the node of the last one.                                          *)
PlacementIsConsistent == which = "Placement" => L!TopologyFitsThreads

(* Every wait on a barrier returns, although fast threads arrive again      *)
(* while slow ones are leaving; the join returns; and every fiber gets its  *)
(* turn.                                                                    *)
WaitingEnds == WaitReturns /\ J!JoinReturns /\ U!EveryFiberRuns
=============================================================================
