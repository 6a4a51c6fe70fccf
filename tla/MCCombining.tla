----------------------------- MODULE MCCombining ----------------------------
(* Three combining protocols for TLC, side by side: a behaviour is one of   *)
(* CC-Synch, of H-Synch or of Osci, which is chosen at the start, and the   *)
(* other two stay as they are initialised. The object is a bit, small       *)
(* enough for three threads: a request flips it and is told whose request   *)
(* it was, so a lost, repeated or misdelivered one shows.                   *)
EXTENDS CCSynch, TLC

CONSTANTS
  HThreads, NumaNodes, NodeOf, NodeSize,     (* of H-Synch                 *)
  nthreads, fibers_per_thread,               (* of Osci                    *)
  h1, h2, h3, n1, n2                         (* for TLC                    *)

(* For TLC: two threads on one NUMA node and one on the other.              *)
HPlacement == (h1 :> n1) @@ (h2 :> n1) @@ (h3 :> n2)

VARIABLES
  which,       (* the component this behaviour is of                       *)
  h_nodes, h_node_indexes, h_tail, h_next, h_locked, h_completed, h_arg_ret,
  h_pid, h_queue, h_inside, h_state, h_pc, h_next_node, h_arg, h_cur, h_p,
  h_tmp_next, h_counter, h_result,
  o_tail, o_current_node, o_next, o_door, o_rec, o_state, o_running, o_pc,
  o_toggle, o_my, o_result

h_vars ==
  <<h_nodes, h_node_indexes, h_tail, h_next, h_locked, h_completed, h_arg_ret,
  h_pid, h_queue, h_inside, h_state, h_pc, h_next_node, h_arg, h_cur, h_p,
  h_tmp_next, h_counter, h_result>>
o_vars ==
  <<o_tail, o_current_node, o_next, o_door, o_rec, o_state, o_running, o_pc,
  o_toggle, o_my, o_result>>

H == INSTANCE HSynch WITH
  nodes <- h_nodes, node_indexes <- h_node_indexes, tail <- h_tail, next <-
  h_next, locked <- h_locked, completed <- h_completed, arg_ret <- h_arg_ret,
  pid <- h_pid, queue <- h_queue, inside <- h_inside, state <- h_state, pc <-
  h_pc, next_node <- h_next_node, arg <- h_arg, cur <- h_cur, p <- h_p,
  tmp_next <- h_tmp_next, counter <- h_counter, result <- h_result, Threads <-
  HThreads

O == INSTANCE Osci WITH
  tail <- o_tail, current_node <- o_current_node, next <- o_next, door <-
  o_door, rec <- o_rec, state <- o_state, running <- o_running, pc <- o_pc,
  toggle <- o_toggle, my <- o_my, result <- o_result

ASSUME MCAssumption == H!ConstantsAssumption /\ O!ConstantsAssumption

MCInit ==
  /\ which \in {"CCSynch", "HSynch", "Osci"}
  /\ Init /\ H!Init /\ O!Init

MCNext ==
  \/ which = "CCSynch" /\ Next /\ UNCHANGED <<which, h_vars, o_vars>>
  \/ which = "HSynch" /\ H!Next /\ UNCHANGED <<which, vars, o_vars>>
  \/ which = "Osci" /\ O!Next /\ UNCHANGED <<which, vars, h_vars>>

MCSpec == MCInit /\ [][MCNext]_<<which, vars, h_vars, o_vars>>

FlipState(s, a, t) == ~s
CallerResult(s, a, t) == t

Symmetry == Permutations(Threads) \cup Permutations({h1, h2})

-----------------------------------------------------------------------------
(* sfunc is never run by two threads or fibers at once: H-Synch and Osci    *)
(* give it to one combiner after the other (hsynch.c:40-66, osci.c:62-119), *)
(* and it needs no lock of its own. (CC-Synch has a property of its own.)   *)
OneCombinerAtATime ==
  /\ which = "HSynch" => H!SingleServer
  /\ which = "Osci" => O!SingleCombiner

(* Announcement nodes are not shared: the block of a NUMA node gives each   *)
(* of its threads a node of its own (hsynch.c:101-115), and the node a      *)
(* fiber opens is out of reach of everybody else, two nodes each being      *)
(* enough (osci.c:33-62).                                                   *)
NodesAreNotShared ==
  /\ which = "HSynch" => H!TypeOK /\ H!OneCompetitorPerNode /\ H!NodesAreHeldOnce
  /\ which = "Osci" => O!ReusedNodeIsFree

(* H-Synch and Osci are linearizable: every request takes effect once,      *)
(* between call and return, and its caller gets its answer. (These are the  *)
(* formulas ImplementsAtomicObject of the modules, each for its own         *)
(* behaviours.)                                                             *)
ImplementAtomicObject ==
  /\ H!Ob!Init /\ [][which = "HSynch" => H!Ob!Next]_<<which, H!Ob!vars>>
  /\ O!Ob!Init /\ [][which = "Osci" => O!Ob!Next]_<<which, O!Ob!vars>>
=============================================================================
