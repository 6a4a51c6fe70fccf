------------------------------ MODULE CCSynch ------------------------------
(***************************************************************************)
(* CC-Synch (libconcurrent/concurrent/ccsynch.c): a combining object built *)
(* on an implicit queue of announcement nodes. A thread swaps a fresh node *)
(* into Tail, announces its request in the node it got back, and spins on  *)
(* it. The thread at the head of the queue is the combiner: it walks the   *)
(* list, runs sfunc for at most help_bound requests, and hands the role to *)
(* the owner of the node it stops at.                                      *)
(*                                                                         *)
(* One action is one access to memory that other threads may touch; the    *)
(* node initialisation, on a node nobody else can reach, is part of Call.  *)
(***************************************************************************)
EXTENDS Integers, FiniteSets

CONSTANTS
  Threads,            (* the pids 0 .. nthreads-1                          *)
  Dummy,              (* the node StructInit puts in Tail                  *)
  NULL,
  Args,               (* requests                                          *)
  HelpFactor,         (* CCSYNCH_HELP_FACTOR, 10 in the code               *)
  InitialState,
  NewState(_, _, _),  (* the two halves of sfunc, see AtomicObject         *)
  Result(_, _, _)

ASSUME ConstantsAssumption ==
  /\ IsFiniteSet(Threads)
  /\ Dummy \notin Threads
  /\ NULL \notin Threads \cup {Dummy}
  /\ HelpFactor \in Nat \ {0}

(* Thread t allocates one node, called t; nodes migrate between threads. *)
Nodes == Threads \cup {Dummy}

HelpBound == HelpFactor * Cardinality(Threads)

VARIABLES
  tail,       (* l->Tail                                                   *)
  next,       (* fields of the CCSynchNode structs                         *)
  locked,
  completed,
  arg_ret,
  pid,
  state,      (* the object sfunc works on                                 *)
  pc,         (* where each thread is in CCSynchApplyOp                    *)
  mine,       (* st_thread->next                                           *)
  arg,        (* locals of CCSynchApplyOp                                  *)
  cur,
  p,
  tmp_next,
  counter,
  result      (* the value returned by the last call                       *)

nodeVars == <<next, locked, completed, arg_ret, pid>>
localVars == <<mine, arg, cur, p, tmp_next, counter>>
vars == <<tail, nodeVars, state, pc, localVars, result>>

Goto(t, from, to) ==
  /\ pc[t] = from
  /\ pc' = [pc EXCEPT ![t] = to]

(* The locals of CCSynchApplyOp do not outlive the call. *)
Return(t, from) ==
  /\ Goto(t, from, "idle")
  /\ result' = [result EXCEPT ![t] = arg_ret[cur[t]]]
  /\ arg' = [arg EXCEPT ![t] = NULL]
  /\ cur' = [cur EXCEPT ![t] = NULL]
  /\ p' = [p EXCEPT ![t] = NULL]
  /\ tmp_next' = [tmp_next EXCEPT ![t] = NULL]
  /\ counter' = [counter EXCEPT ![t] = 0]
  /\ UNCHANGED <<tail, nodeVars, state, mine>>

-----------------------------------------------------------------------------
(* CCSynchStructInit, and CCSynchThreadStateInit of every thread. *)
Init ==
  /\ tail = Dummy
  /\ next = [n \in Nodes |-> NULL]
  /\ locked = [n \in Nodes |-> FALSE]
  /\ completed = [n \in Nodes |-> FALSE]
  /\ arg_ret = [n \in Nodes |-> NULL]
  /\ pid = [n \in Nodes |-> NULL]
  /\ state = InitialState
  /\ pc = [t \in Threads |-> "idle"]
  /\ mine = [t \in Threads |-> t]
  /\ arg = [t \in Threads |-> NULL]
  /\ cur = [t \in Threads |-> NULL]
  /\ p = [t \in Threads |-> NULL]
  /\ tmp_next = [t \in Threads |-> NULL]
  /\ counter = [t \in Threads |-> 0]
  /\ result = [t \in Threads |-> NULL]

(* The call: t resets the node it owns, which becomes next_node. *)
Call(t, a) ==
  /\ Goto(t, "idle", "swap")
  /\ arg' = [arg EXCEPT ![t] = a]
  /\ result' = [result EXCEPT ![t] = NULL]
  /\ next' = [next EXCEPT ![mine[t]] = NULL]
  /\ locked' = [locked EXCEPT ![mine[t]] = TRUE]
  /\ completed' = [completed EXCEPT ![mine[t]] = FALSE]
  /\ UNCHANGED <<tail, arg_ret, pid, state, mine, cur, p, tmp_next,
                 counter>>

(* cur = SWAP(&l->Tail, next_node) *)
Swap(t) ==
  /\ Goto(t, "swap", "announce")
  /\ cur' = [cur EXCEPT ![t] = tail]
  /\ tail' = mine[t]
  /\ UNCHANGED <<nodeVars, state, mine, arg, p, tmp_next, counter, result>>

(* The request goes to the node that was the tail. *)
Announce(t) ==
  /\ Goto(t, "announce", "link")
  /\ arg_ret' = [arg_ret EXCEPT ![cur[t]] = arg[t]]
  /\ pid' = [pid EXCEPT ![cur[t]] = t]
  /\ UNCHANGED <<tail, next, locked, completed, state, localVars, result>>

(* Mutant of Link: without st_thread->next = cur. *)
LinkKeepsNode(t) ==
  /\ Goto(t, "link", "spin")
  /\ next' = [next EXCEPT ![cur[t]] = mine[t]]
  /\ UNCHANGED <<tail, locked, completed, arg_ret, pid, state, localVars, result>>

(* The old tail gets its successor, and becomes t's node for its next call. *)
Link(t) ==
  /\ Goto(t, "link", "spin")
  /\ next' = [next EXCEPT ![cur[t]] = mine[t]]
  /\ mine' = [mine EXCEPT ![t] = cur[t]]
  /\ UNCHANGED <<tail, locked, completed, arg_ret, pid, state, arg, cur, p,
                 tmp_next, counter, result>>

(* Mutant of StopSpinning: locked is not looked at. *)
StopSpinningAtOnce(t) ==
  /\ Goto(t, "spin", "check")
  /\ UNCHANGED <<tail, nodeVars, state, localVars, result>>

(* while (cur->locked) ends *)
StopSpinning(t) ==
  /\ Goto(t, "spin", "check")
  /\ ~locked[cur[t]]
  /\ UNCHANGED <<tail, nodeVars, state, localVars, result>>

(* if (cur->completed) return cur->arg_ret *)
ReturnHelped(t) ==
  /\ Return(t, "check")
  /\ completed[cur[t]]

(* Mutant of BecomeCombiner: completed is not looked at. *)
BecomeCombinerUnchecked(t) ==
  /\ Goto(t, "check", "loop")
  /\ p' = [p EXCEPT ![t] = cur[t]]
  /\ UNCHANGED <<tail, nodeVars, state, mine, arg, cur, tmp_next, counter, result>>

BecomeCombiner(t) ==
  /\ Goto(t, "check", "loop")
  /\ ~completed[cur[t]]
  /\ p' = [p EXCEPT ![t] = cur[t]]
  /\ UNCHANGED <<tail, nodeVars, state, mine, arg, cur, tmp_next, counter, result>>

(* The loop test holds: tmp_next = p->next is read before p is given away. *)
Visit(t) ==
  /\ Goto(t, "loop", "apply")
  /\ next[p[t]] # NULL
  /\ counter[t] < HelpBound
  /\ counter' = [counter EXCEPT ![t] = @ + 1]
  /\ tmp_next' = [tmp_next EXCEPT ![t] = next[p[t]]]
  /\ UNCHANGED <<tail, nodeVars, state, mine, arg, cur, p, result>>

StopCombining(t) ==
  /\ Goto(t, "loop", "release")
  /\ next[p[t]] = NULL \/ counter[t] >= HelpBound
  /\ UNCHANGED <<tail, nodeVars, state, localVars, result>>

(* Mutant of Apply: sfunc gets the combiner's pid. *)
ApplyAsCombiner(t) ==
  /\ Goto(t, "apply", "complete")
  /\ state' = NewState(state, arg_ret[p[t]], t)
  /\ arg_ret' = [arg_ret EXCEPT ![p[t]] = Result(state, arg_ret[p[t]], t)]
  /\ UNCHANGED <<tail, next, locked, completed, pid, localVars, result>>

(* p->arg_ret = sfunc(state, p->arg_ret, p->pid) *)
Apply(t) ==
  /\ Goto(t, "apply", "complete")
  /\ state' = NewState(state, arg_ret[p[t]], pid[p[t]])
  /\ arg_ret' = [arg_ret EXCEPT ![p[t]] = Result(state, arg_ret[p[t]], pid[p[t]])]
  /\ UNCHANGED <<tail, next, locked, completed, pid, localVars, result>>

(* Mutant of Complete: p = tmp_next comes before completed is set. *)
CompleteNext(t) ==
  /\ Goto(t, "complete", "unlock")
  /\ completed' = [completed EXCEPT ![tmp_next[t]] = TRUE]
  /\ UNCHANGED <<tail, next, locked, arg_ret, pid, state, localVars, result>>

(* p->completed = true *)
Complete(t) ==
  /\ Goto(t, "complete", "unlock")
  /\ completed' = [completed EXCEPT ![p[t]] = TRUE]
  /\ UNCHANGED <<tail, next, locked, arg_ret, pid, state, localVars, result>>

(* p->locked = false; p = tmp_next *)
Unlock(t) ==
  /\ Goto(t, "unlock", "loop")
  /\ locked' = [locked EXCEPT ![p[t]] = FALSE]
  /\ p' = [p EXCEPT ![t] = tmp_next[t]]
  /\ UNCHANGED <<tail, next, completed, arg_ret, pid, state, mine, arg, cur,
                 tmp_next, counter, result>>

(* After the loop: the owner of p, present or future, is the next combiner. *)
Release(t) ==
  /\ Goto(t, "release", "return")
  /\ locked' = [locked EXCEPT ![p[t]] = FALSE]
  /\ UNCHANGED <<tail, next, completed, arg_ret, pid, state, localVars, result>>

(* return cur->arg_ret, by the thread that was the combiner *)
ReturnCombiner(t) == Return(t, "return")

Step(t) ==
  \/ Swap(t) \/ Announce(t) \/ Link(t) \/ StopSpinning(t)
  \/ ReturnHelped(t) \/ BecomeCombiner(t)
  \/ Visit(t) \/ StopCombining(t) \/ Apply(t) \/ Complete(t) \/ Unlock(t)
  \/ Release(t) \/ ReturnCombiner(t)

Next == \E t \in Threads : (\E a \in Args : Call(t, a)) \/ Step(t)

Spec == Init /\ [][Next]_vars

(* A thread inside an operation is scheduled again and again (it never      *)
(* blocks in the code, it spins); nobody is obliged to call.                *)
FairSpec == Spec /\ \A t \in Threads : WF_vars(Step(t))

-----------------------------------------------------------------------------
PCs == {"idle", "swap", "announce", "link", "spin", "check", "loop", "apply",
        "complete", "unlock", "release", "return"}

Combining == {"loop", "apply", "complete", "unlock", "release"}

(* Threads whose node cur is in the queue: between Swap and return. *)
Queued(t) == pc[t] \notin {"idle", "swap"}

(* The node t put behind cur[t]. *)
Successor(t) == IF pc[t] \in {"announce", "link"} THEN mine[t] ELSE next[cur[t]]

(* The type of the state. *)
TypeOK ==
  /\ tail \in Nodes
  /\ next \in [Nodes -> Nodes \cup {NULL}]
  /\ locked \in [Nodes -> BOOLEAN]
  /\ completed \in [Nodes -> BOOLEAN]
  /\ DOMAIN arg_ret = Nodes
  /\ pid \in [Nodes -> Threads \cup {NULL}]
  /\ pc \in [Threads -> PCs]
  /\ mine \in [Threads -> Nodes]
  /\ arg \in [Threads -> Args \cup {NULL}]
  /\ cur \in [Threads -> Nodes \cup {NULL}]
  /\ p \in [Threads -> Nodes \cup {NULL}]
  /\ tmp_next \in [Threads -> Nodes \cup {NULL}]
  /\ counter \in [Threads -> 0 .. HelpBound]
  /\ DOMAIN result = Threads

(* sfunc needs no lock of its own: no two threads are ever combining, so    *)
(* the calls of sfunc in CCSynchApplyOp never overlap.                      *)
SingleCombiner ==
  \A t, u \in Threads : pc[t] \in Combining /\ pc[u] \in Combining => t = u

(* Requests are served in the order of the SWAPs on Tail: when the request  *)
(* of u has been served, so has that of the thread just ahead of it.        *)
ServedInQueueOrder ==
  \A t, u \in Threads :
    /\ Queued(t) /\ Queued(u)
    /\ Successor(t) = cur[u]
    /\ completed[cur[u]]
    => completed[cur[t]]

(* Nodes are recycled by swapping ownership. A combiner only ever touches a *)
(* node of the queue: one that some waiting thread owns, or the tail; never *)
(* the private node of a thread that could be resetting it.                 *)
CombinerStaysInQueue ==
  \A t \in Threads :
    pc[t] \in Combining =>
      p[t] = tail \/ \E u \in Threads : Queued(u) /\ cur[u] = p[t]

(* The abstract object: the request of t has been served from the moment    *)
(* sfunc has run for it, which may precede completed[cur[t]] by a step of   *)
(* the combiner.                                                            *)
Served(t) ==
  /\ Queued(t)
  /\ \/ completed[cur[t]]
     \/ \E c \in Threads : pc[c] = "complete" /\ p[c] = cur[t]

AbstractOp(t) ==
  IF pc[t] = "idle" THEN [status |-> "idle"]
  ELSE IF Served(t) THEN [status |-> "done", ret |-> arg_ret[cur[t]]]
  ELSE [status |-> "pending", arg |-> arg[t]]

Ob == INSTANCE AtomicObject WITH
        NoResult <- NULL,
        obj <- state,
        op <- [t \in Threads |-> AbstractOp(t)],
        result <- result

(* CC-Synch is linearizable: it implements the atomic object, each request  *)
(* taking effect exactly once and each call returning its own answer.       *)
ImplementsAtomicObject == Ob!Spec

(* Every call returns: the bounded combiner hands over in queue order and   *)
(* no announced request is overtaken forever.                               *)
EveryCallReturns == \A t \in Threads : pc[t] = "swap" ~> pc[t] = "idle"
-----------------------------------------------------------------------------
(* The inductive invariant behind the three properties above, in parts.     *)
(* Held(t) is the one node t may use: every node but the tail is held by    *)
(* exactly one thread.                                                      *)
Held(t) == IF Queued(t) THEN cur[t] ELSE mine[t]

InQueue(n) == n = tail \/ \E u \in Threads : Queued(u) /\ cur[u] = n

Ownership ==
  /\ \A t \in Threads : Held(t) \in Nodes /\ Held(t) # tail
  /\ \A t, u \in Threads : Held(t) = Held(u) => t = u

(* What a thread knows of its own nodes at each program point. *)
OwnNodes ==
  \A t \in Threads :
    /\ pc[t] = "swap" =>
         locked[mine[t]] /\ ~completed[mine[t]] /\ next[mine[t]] = NULL
    /\ pc[t] \in {"announce", "link"} =>
         next[cur[t]] = NULL /\ ~completed[cur[t]]
    /\ Queued(t) /\ pc[t] \notin {"announce", "link"} => mine[t] = cur[t]
    /\ pc[t] \in Combining \cup {"check", "return"} => ~locked[cur[t]]
    /\ pc[t] = "return" => completed[cur[t]]
    /\ pc[t] \notin Combining \cup {"return"} => counter[t] = 0

(* The node of t is in the queue and its request is still to be served. *)
Waiting(t) == Queued(t) /\ ~completed[cur[t]]

(* The part of the queue still to be served is a list: successors of        *)
(* waiting threads are queued and distinct, locked and to be served.        *)
Chain ==
  /\ next[tail] = NULL /\ ~completed[tail]
  /\ \A t \in Threads :
       Waiting(t) =>
         /\ InQueue(Successor(t))
         /\ locked[Successor(t)] /\ ~completed[Successor(t)]
  /\ \A t, u \in Threads :
       Waiting(t) /\ Waiting(u) /\ Successor(t) = Successor(u) => t = u

(* Node n is the first to be served: nobody waits ahead of it. *)
First(n) ==
  /\ InQueue(n) /\ ~completed[n]
  /\ \A v \in Threads : Waiting(v) => Successor(v) # n

(* The combiner's position: p is the first node to be served, or has just   *)
(* been served and tmp_next is; p is locked unless it is the combiner's own.*)
CombinerPosition ==
  \A t \in Threads :
    /\ pc[t] \in {"loop", "apply", "complete", "release"} => First(p[t])
    /\ pc[t] \in {"apply", "complete", "unlock"} =>
         /\ tmp_next[t] = next[p[t]] /\ tmp_next[t] # NULL
         /\ InQueue(p[t]) /\ p[t] # tail
    /\ pc[t] = "unlock" =>
         completed[p[t]] /\ First(tmp_next[t]) /\ locked[tmp_next[t]]
    /\ pc[t] \in Combining /\ p[t] # cur[t] => locked[p[t]] /\ completed[cur[t]]
    /\ pc[t] = "loop" /\ p[t] = cur[t] => counter[t] = 0
    /\ pc[t] = "release" => p[t] # cur[t]

(* The right to combine is held by one thread or waits in one node. *)
Grant(n) == InQueue(n) /\ ~locked[n] /\ ~completed[n]

OneGrant ==
  /\ \A n, m \in Nodes : Grant(n) /\ Grant(m) => n = m
  /\ \A t \in Threads, n \in Nodes :
       pc[t] \in Combining /\ Grant(n) => n = cur[t]

(* The node of a waiting thread holds its request until sfunc has run.      *)
Requests ==
  \A t \in Threads :
    /\ pc[t] # "idle" => arg[t] \in Args
    /\ Waiting(t) /\ pc[t] # "announce" /\ ~Served(t) =>
         arg_ret[cur[t]] = arg[t] /\ pid[cur[t]] = t

(* The whole invariant, which every step preserves. *)
IInv ==
  /\ TypeOK
  /\ Ownership
  /\ OwnNodes
  /\ Chain
  /\ CombinerPosition
  /\ OneGrant
  /\ SingleCombiner
  /\ Requests
=============================================================================
