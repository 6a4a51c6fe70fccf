------------------------------- MODULE HSynch -------------------------------
(***************************************************************************)
(* H-Synch (libconcurrent/concurrent/hsynch.c): one queue of announcement  *)
(* nodes for each NUMA node, as in CC-Synch, whose combiner takes a        *)
(* central CLH lock around its service. The lock is the abstract lock of   *)
(* QueueLock, which module CLH implements.                                 *)
(*                                                                         *)
(* The announcement nodes of a NUMA node come in one block, allocated by   *)
(* whichever of its threads is first; threads take them out of the block   *)
(* by a Fetch&Add while others may already be calling.                     *)
(***************************************************************************)
EXTENDS Integers, FiniteSets

CONSTANTS
  Threads,            (* the pids 0 .. nthreads-1                          *)
  NumaNodes,
  NodeOf,             (* node_of_thread: where each thread is placed       *)
  NodeSize,           (* numa_node_size                                    *)
  NULL,
  Args,               (* requests                                          *)
  HelpFactor,         (* HSYNCH_HELP_FACTOR, 10 in the code                *)
  InitialState,
  NewState(_, _, _),  (* the two halves of sfunc, see AtomicObject         *)
  Result(_, _, _)

(* The placement leaves room in the block for the node that starts as tail. *)
ConstantsAssumption ==
  /\ IsFiniteSet(Threads)
  /\ NodeOf \in [Threads -> NumaNodes]
  /\ NodeSize \in Nat
  /\ \A g \in NumaNodes : Cardinality({t \in Threads : NodeOf[t] = g}) <= NodeSize + 1
  /\ NULL \notin Threads
  /\ NULL \notin Threads \X (0 .. NodeSize + 1)
  /\ HelpFactor \in Nat \ {0}

(* A block is named after the thread that allocated it.                     *)
Nodes == Threads \X (0 .. NodeSize + 1)
Last(b) == <<b, NodeSize + 1>>

HelpBound == HelpFactor * Cardinality(Threads)

VARIABLES
  nodes,         (* l->nodes: the block of each NUMA node                  *)
  node_indexes,  (* l->node_indexes                                        *)
  tail,          (* l->Tail[g].ptr                                         *)
  next,          (* fields of the HSynchNode structs                       *)
  locked,
  completed,
  arg_ret,
  pid,
  queue,         (* l->central_lock                                        *)
  inside,
  state,         (* the object sfunc works on                              *)
  pc,            (* where each thread is                                   *)
  next_node,     (* st_thread->next_node                                   *)
  arg,           (* locals of HSynchApplyOp                                *)
  cur,
  p,
  tmp_next,
  counter,
  result         (* the value returned by the last call                    *)

blockVars == <<nodes, node_indexes>>
nodeVars == <<next, locked, completed, arg_ret, pid>>
lockVars == <<queue, inside>>
localVars == <<next_node, arg, cur, p, tmp_next, counter>>
vars == <<blockVars, tail, nodeVars, lockVars, state, pc, localVars, result>>

CentralLock == INSTANCE QueueLock

Goto(t, from, to) ==
  /\ pc[t] = from
  /\ pc' = [pc EXCEPT ![t] = to]

(* The locals of HSynchApplyOp do not outlive the call. *)
Return(t, from) ==
  /\ Goto(t, from, "idle")
  /\ result' = [result EXCEPT ![t] = arg_ret[cur[t]]]
  /\ arg' = [arg EXCEPT ![t] = NULL]
  /\ cur' = [cur EXCEPT ![t] = NULL]
  /\ p' = [p EXCEPT ![t] = NULL]
  /\ tmp_next' = [tmp_next EXCEPT ![t] = NULL]
  /\ counter' = [counter EXCEPT ![t] = 0]
  /\ UNCHANGED <<blockVars, tail, nodeVars, lockVars, state, next_node>>

-----------------------------------------------------------------------------
(* HSynchStructInit. The fields of a node are set before it is published,   *)
(* those of the last of a block by its allocator, the others by Call.       *)
Init ==
  /\ nodes = [g \in NumaNodes |-> NULL]
  /\ node_indexes = [g \in NumaNodes |-> 0]
  /\ tail = [g \in NumaNodes |-> NULL]
  /\ next = [n \in Nodes |-> NULL]
  /\ locked = [n \in Nodes |-> FALSE]
  /\ completed = [n \in Nodes |-> FALSE]
  /\ arg_ret = [n \in Nodes |-> NULL]
  /\ pid = [n \in Nodes |-> NULL]
  /\ CentralLock!Init
  /\ state = InitialState
  /\ pc = [t \in Threads |-> "start"]
  /\ next_node = [t \in Threads |-> NULL]
  /\ arg = [t \in Threads |-> NULL]
  /\ cur = [t \in Threads |-> NULL]
  /\ p = [t \in Threads |-> NULL]
  /\ tmp_next = [t \in Threads |-> NULL]
  /\ counter = [t \in Threads |-> 0]
  /\ result = [t \in Threads |-> NULL]

(* HSynchThreadStateInit: if (l->nodes[node_of_thread] == NULL) a block is  *)
(* allocated and its last node set, all of it private as yet.               *)
FindBlock(t) ==
  /\ Goto(t, "start", "initTail")
  /\ nodes[NodeOf[t]] # NULL
  /\ UNCHANGED <<blockVars, tail, nodeVars, lockVars, state, localVars, result>>

AllocBlock(t) ==
  /\ Goto(t, "start", "casBlock")
  /\ nodes[NodeOf[t]] = NULL
  /\ UNCHANGED <<blockVars, tail, nodeVars, lockVars, state, localVars, result>>

(* The CAS that installs the block; the loser frees its own.                *)
InstallBlock(t) ==
  /\ Goto(t, "casBlock", "initTail")
  /\ nodes[NodeOf[t]] = NULL
  /\ nodes' = [nodes EXCEPT ![NodeOf[t]] = t]
  /\ UNCHANGED <<node_indexes, tail, nodeVars, lockVars, state, localVars, result>>

FreeBlock(t) ==
  /\ Goto(t, "casBlock", "initTail")
  /\ nodes[NodeOf[t]] # NULL
  /\ UNCHANGED <<blockVars, tail, nodeVars, lockVars, state, localVars, result>>

(* CAS(&l->Tail[node_of_thread].ptr, NULL, last_node), whatever it returns. *)
InitTail(t) ==
  /\ Goto(t, "initTail", "index")
  /\ tail' = [tail EXCEPT ![NodeOf[t]] =
                IF @ = NULL THEN Last(nodes[NodeOf[t]]) ELSE @]
  /\ UNCHANGED <<blockVars, nodeVars, lockVars, state, localVars, result>>

(* node_index = FAA(&l->node_indexes[node_of_thread], 1)                    *)
TakeNode(t) ==
  /\ Goto(t, "index", "idle")
  /\ next_node' = [next_node EXCEPT ![t] =
                     <<nodes[NodeOf[t]], node_indexes[NodeOf[t]]>>]
  /\ node_indexes' = [node_indexes EXCEPT ![NodeOf[t]] = @ + 1]
  /\ UNCHANGED <<nodes, tail, nodeVars, lockVars, state, arg, cur, p, tmp_next,
                 counter, result>>

-----------------------------------------------------------------------------
(* The call: t resets the node it owns.                                     *)
Call(t, a) ==
  /\ Goto(t, "idle", "swap")
  /\ arg' = [arg EXCEPT ![t] = a]
  /\ result' = [result EXCEPT ![t] = NULL]
  /\ next' = [next EXCEPT ![next_node[t]] = NULL]
  /\ locked' = [locked EXCEPT ![next_node[t]] = TRUE]
  /\ completed' = [completed EXCEPT ![next_node[t]] = FALSE]
  /\ UNCHANGED <<blockVars, tail, arg_ret, pid, lockVars, state, next_node, cur,
                 p, tmp_next, counter>>

(* cur = SWAP(&l->Tail[node_of_thread].ptr, next_node) *)
Swap(t) ==
  /\ Goto(t, "swap", "announce")
  /\ cur' = [cur EXCEPT ![t] = tail[NodeOf[t]]]
  /\ tail' = [tail EXCEPT ![NodeOf[t]] = next_node[t]]
  /\ UNCHANGED <<blockVars, nodeVars, lockVars, state, next_node, arg, p,
                 tmp_next, counter, result>>

(* The request goes to the node that was the tail, and is in nobody else's  *)
(* sight before Link.                                                       *)
Announce(t) ==
  /\ Goto(t, "announce", "link")
  /\ arg_ret' = [arg_ret EXCEPT ![cur[t]] = arg[t]]
  /\ pid' = [pid EXCEPT ![cur[t]] = t]
  /\ UNCHANGED <<blockVars, tail, next, locked, completed, lockVars, state,
                 localVars, result>>

(* cur->next = next_node; st_thread->next_node = cur *)
Link(t) ==
  /\ Goto(t, "link", "spin")
  /\ next' = [next EXCEPT ![cur[t]] = next_node[t]]
  /\ next_node' = [next_node EXCEPT ![t] = cur[t]]
  /\ UNCHANGED <<blockVars, tail, locked, completed, arg_ret, pid, lockVars,
                 state, arg, cur, p, tmp_next, counter, result>>

(* while (cur->locked) ends *)
StopSpinning(t) ==
  /\ Goto(t, "spin", "check")
  /\ ~locked[cur[t]]
  /\ UNCHANGED <<blockVars, tail, nodeVars, lockVars, state, localVars, result>>

(* if (cur->completed) return cur->arg_ret *)
ReturnHelped(t) ==
  /\ Return(t, "check")
  /\ completed[cur[t]]

BecomeCombiner(t) ==
  /\ Goto(t, "check", "join")
  /\ ~completed[cur[t]]
  /\ p' = [p EXCEPT ![t] = cur[t]]
  /\ UNCHANGED <<blockVars, tail, nodeVars, lockVars, state, next_node, arg, cur,
                 tmp_next, counter, result>>

(* Mutant of Join: no CLHLock. *)
JoinNever(t) ==
  /\ Goto(t, "join", "loop")
  /\ UNCHANGED <<blockVars, tail, nodeVars, lockVars, state, localVars, result>>

(* CLHLock: t takes its place among the combiners of the other NUMA nodes.  *)
Join(t) ==
  /\ Goto(t, "join", "enter")
  /\ CentralLock!Join(t)
  /\ UNCHANGED <<blockVars, tail, nodeVars, state, localVars, result>>

Enter(t) ==
  /\ Goto(t, "enter", "loop")
  /\ CentralLock!Enter(t)
  /\ UNCHANGED <<blockVars, tail, nodeVars, state, localVars, result>>

(* The loop test holds: tmp_next = p->next is read before p is given away.  *)
Visit(t) ==
  /\ Goto(t, "loop", "apply")
  /\ next[p[t]] # NULL
  /\ counter[t] < HelpBound
  /\ counter' = [counter EXCEPT ![t] = @ + 1]
  /\ tmp_next' = [tmp_next EXCEPT ![t] = next[p[t]]]
  /\ UNCHANGED <<blockVars, tail, nodeVars, lockVars, state, next_node, arg, cur,
                 p, result>>

StopCombining(t) ==
  /\ Goto(t, "loop", "release")
  /\ next[p[t]] = NULL \/ counter[t] >= HelpBound
  /\ UNCHANGED <<blockVars, tail, nodeVars, lockVars, state, localVars, result>>

(* p->arg_ret = sfunc(state, p->arg_ret, p->pid) *)
Apply(t) ==
  /\ Goto(t, "apply", "complete")
  /\ state' = NewState(state, arg_ret[p[t]], pid[p[t]])
  /\ arg_ret' = [arg_ret EXCEPT ![p[t]] = Result(state, arg_ret[p[t]], pid[p[t]])]
  /\ UNCHANGED <<blockVars, tail, next, locked, completed, pid, lockVars,
                 localVars, result>>

(* p->completed = true *)
Complete(t) ==
  /\ Goto(t, "complete", "unlock")
  /\ completed' = [completed EXCEPT ![p[t]] = TRUE]
  /\ UNCHANGED <<blockVars, tail, next, locked, arg_ret, pid, lockVars, state,
                 localVars, result>>

(* p->locked = false; p = tmp_next *)
Unlock(t) ==
  /\ Goto(t, "unlock", "loop")
  /\ locked' = [locked EXCEPT ![p[t]] = FALSE]
  /\ p' = [p EXCEPT ![t] = tmp_next[t]]
  /\ UNCHANGED <<blockVars, tail, next, completed, arg_ret, pid, lockVars, state,
                 next_node, arg, cur, tmp_next, counter, result>>

(* After the loop, and before the lock is released: the next combiner of    *)
(* this NUMA node may go on to queue for the lock.                          *)
Release(t) ==
  /\ Goto(t, "release", "leave")
  /\ locked' = [locked EXCEPT ![p[t]] = FALSE]
  /\ UNCHANGED <<blockVars, tail, next, completed, arg_ret, pid, lockVars, state,
                 localVars, result>>

(* CLHUnlock *)
Leave(t) ==
  /\ Goto(t, "leave", "return")
  /\ CentralLock!Leave(t)
  /\ UNCHANGED <<blockVars, tail, nodeVars, state, localVars, result>>

(* return cur->arg_ret, by the thread that was the combiner *)
ReturnCombiner(t) == Return(t, "return")

Start(t) ==
  \/ FindBlock(t) \/ AllocBlock(t) \/ InstallBlock(t) \/ FreeBlock(t)
  \/ InitTail(t) \/ TakeNode(t)

Step(t) ==
  \/ Swap(t) \/ Announce(t) \/ Link(t) \/ StopSpinning(t)
  \/ ReturnHelped(t) \/ BecomeCombiner(t) \/ Join(t) \/ Enter(t)
  \/ Visit(t) \/ StopCombining(t) \/ Apply(t) \/ Complete(t) \/ Unlock(t)
  \/ Release(t) \/ Leave(t) \/ ReturnCombiner(t)

Next == \E t \in Threads : Start(t) \/ (\E a \in Args : Call(t, a)) \/ Step(t)

Spec == Init /\ [][Next]_vars

(* A thread inside an operation is scheduled again and again (it never      *)
(* blocks in the code, it spins); nobody is obliged to start or to call.    *)
FairSpec == Spec /\ \A t \in Threads : WF_vars(Step(t))

-----------------------------------------------------------------------------
Serving == {"loop", "apply", "complete", "unlock", "release"}

Starting == {"start", "casBlock", "initTail", "index"}

PCs == {"idle", "swap", "announce", "link", "spin", "check", "join", "enter",
        "leave", "return"} \cup Starting \cup Serving

(* The type of the state. *)
TypeOK ==
  /\ nodes \in [NumaNodes -> Threads \cup {NULL}]
  /\ node_indexes \in [NumaNodes -> 0 .. NodeSize + 1]
  /\ tail \in [NumaNodes -> Nodes \cup {NULL}]
  /\ next \in [Nodes -> Nodes \cup {NULL}]
  /\ locked \in [Nodes -> BOOLEAN]
  /\ completed \in [Nodes -> BOOLEAN]
  /\ DOMAIN arg_ret = Nodes
  /\ pid \in [Nodes -> Threads \cup {NULL}]
  /\ inside \subseteq Threads
  /\ pc \in [Threads -> PCs]
  /\ next_node \in [Threads -> Nodes \cup {NULL}]
  /\ cur \in [Threads -> Nodes \cup {NULL}]
  /\ p \in [Threads -> Nodes \cup {NULL}]
  /\ tmp_next \in [Threads -> Nodes \cup {NULL}]
  /\ counter \in [Threads -> 0 .. HelpBound]
  /\ DOMAIN result = Threads

(* The calls of sfunc never overlap, whatever NUMA nodes they come from.    *)
SingleServer ==
  \A t, u \in Threads : pc[t] \in Serving /\ pc[u] \in Serving => t = u

(* One thread of each NUMA node competes for the central lock at a time; a  *)
(* second one may come to join while the first has yet to leave.            *)
OneCompetitorPerNode ==
  \A t, u \in Threads :
    /\ pc[t] \in {"join", "enter"} \cup Serving
    /\ pc[u] \in {"join", "enter"} \cup Serving
    /\ NodeOf[t] = NodeOf[u]
    => t = u

(* The node a thread may use: its own until the SWAP, the one it got after. *)
Held(t) == IF cur[t] = NULL THEN next_node[t] ELSE cur[t]

(* Nodes migrate between the threads of a NUMA node, some of which take     *)
(* theirs out of the block while others are calling: a node is never held   *)
(* by two threads, nor by one while it is the tail, and always comes from   *)
(* the installed block.                                                     *)
NodesAreHeldOnce ==
  \A t \in Threads :
    Held(t) # NULL =>
      /\ Held(t)[1] = nodes[NodeOf[t]]
      /\ Held(t) # tail[NodeOf[t]]
      /\ \A u \in Threads : Held(u) = Held(t) => u = t

(* The abstract object, as in CCSynch. *)
Served(t) ==
  /\ cur[t] # NULL
  /\ \/ completed[cur[t]]
     \/ \E c \in Threads : pc[c] = "complete" /\ p[c] = cur[t]

AbstractOp(t) ==
  IF pc[t] \in Starting \cup {"idle"} THEN [status |-> "idle"]
  ELSE IF Served(t) THEN [status |-> "done", ret |-> arg_ret[cur[t]]]
  ELSE [status |-> "pending", arg |-> arg[t]]

Ob == INSTANCE AtomicObject WITH
        NoResult <- NULL,
        obj <- state,
        op <- [t \in Threads |-> AbstractOp(t)],
        result <- result

(* H-Synch is linearizable: it implements the atomic object, each request   *)
(* taking effect exactly once and each call returning its own answer.       *)
ImplementsAtomicObject == Ob!Spec

(* Calls return: the two queues, of the NUMA node and of the lock, are both *)
(* first come first served and their heads are served in bounded time.      *)
CallReturns(t) == pc[t] = "swap" ~> pc[t] = "idle"
=============================================================================
