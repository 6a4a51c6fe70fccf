------------------------------ MODULE DSMSynch ------------------------------
(***************************************************************************)
(* DSM-Synch (libconcurrent/concurrent/dsmsynch.c): a combining object on  *)
(* an explicit queue. A thread announces its request in one of its own two *)
(* nodes, in turn, swaps the node into Tail, links it behind its           *)
(* predecessor and spins on it. The thread without a predecessor, or the   *)
(* one that was handed the role, is the combiner: it serves its own        *)
(* request first, then those behind it, leaves the last linked one to the  *)
(* next combiner, and empties the queue by a CAS if there is none.         *)
(*                                                                         *)
(* One action is one access to memory that other threads may touch; the    *)
(* node initialisation is part of Call, and a second read of a p->next     *)
(* that was found linked is part of the action that uses it.               *)
(***************************************************************************)
EXTENDS Integers, FiniteSets

CONSTANTS
  Threads,            (* the pids 0 .. nthreads-1                          *)
  NULL,
  Args,               (* requests                                          *)
  HelpFactor,         (* DSMSYNCH_HELP_FACTOR, 10 in the code              *)
  InitialState,
  NewState(_, _, _),  (* the two halves of sfunc, see AtomicObject         *)
  Result(_, _, _)

ASSUME ConstantsAssumption ==
  /\ IsFiniteSet(Threads)
  /\ NULL \notin Threads \X {0, 1}
  /\ NULL \notin Threads
  /\ HelpFactor \in Nat \ {0}

(* st_thread->MyNodes[0] and [1] of each thread. *)
Nodes == Threads \X {0, 1}

HelpBound == HelpFactor * Cardinality(Threads)

VARIABLES
  tail,       (* l->Tail                                                   *)
  next,       (* fields of the DSMSynchNode structs                        *)
  locked,
  completed,
  arg_ret,
  pid,
  state,      (* the object sfunc works on                                 *)
  pc,         (* where each thread is in DSMSynchApplyOp                   *)
  toggle,     (* st_thread->toggle                                         *)
  mypred,     (* locals of DSMSynchApplyOp                                 *)
  p,
  counter,
  result      (* the value returned by the last call                       *)

nodeVars == <<next, locked, completed, arg_ret, pid>>
localVars == <<toggle, mypred, p, counter>>
vars == <<tail, nodeVars, state, pc, localVars, result>>

(* Mutant of Other: a single node for each thread. *)
Same(i) == i

(* toggle = 1 - toggle *)
Other(i) == 1 - i

(* mynode, from the first line of a call to its return. *)
MyNode(t) == <<t, toggle[t]>>

Goto(t, from, to) ==
  /\ pc[t] = from
  /\ pc' = [pc EXCEPT ![t] = to]

(* A step of t that changes nothing but its place in the code. *)
Move(t, from, to) ==
  /\ Goto(t, from, to)
  /\ UNCHANGED <<tail, nodeVars, state, localVars, result>>

(* return mynode->arg_ret; the locals do not outlive the call. *)
Return(t, from) ==
  /\ Goto(t, from, "idle")
  /\ result' = [result EXCEPT ![t] = arg_ret[MyNode(t)]]
  /\ p' = [p EXCEPT ![t] = NULL]
  /\ counter' = [counter EXCEPT ![t] = 0]
  /\ UNCHANGED <<tail, nodeVars, state, toggle, mypred>>

-----------------------------------------------------------------------------
(* DSMSynchStructInit, and DSMSynchThreadStateInit of every thread. *)
Init ==
  /\ tail = NULL
  /\ next = [n \in Nodes |-> NULL]
  /\ locked = [n \in Nodes |-> FALSE]
  /\ completed = [n \in Nodes |-> FALSE]
  /\ arg_ret = [n \in Nodes |-> NULL]
  /\ pid = [n \in Nodes |-> NULL]
  /\ state = InitialState
  /\ pc = [t \in Threads |-> "idle"]
  /\ toggle = [t \in Threads |-> 0]
  /\ mypred = [t \in Threads |-> NULL]
  /\ p = [t \in Threads |-> NULL]
  /\ counter = [t \in Threads |-> 0]
  /\ result = [t \in Threads |-> NULL]

(* The call: t turns to its other node and fills it in.                     *)
Call(t, a) ==
  /\ Goto(t, "idle", "swap")
  /\ toggle' = [toggle EXCEPT ![t] = Other(@)]
  /\ LET mynode == <<t, Other(toggle[t])>>
     IN  /\ next' = [next EXCEPT ![mynode] = NULL]
         /\ arg_ret' = [arg_ret EXCEPT ![mynode] = a]
         /\ pid' = [pid EXCEPT ![mynode] = t]
         /\ locked' = [locked EXCEPT ![mynode] = TRUE]
         /\ completed' = [completed EXCEPT ![mynode] = FALSE]
  /\ result' = [result EXCEPT ![t] = NULL]
  /\ UNCHANGED <<tail, state, mypred, p, counter>>

(* mypred = SWAP(&l->Tail, mynode); without a predecessor t is the combiner. *)
Swap(t) ==
  /\ Goto(t, "swap", IF tail = NULL THEN "apply" ELSE "link")
  /\ tail' = MyNode(t)
  /\ mypred' = [mypred EXCEPT ![t] = tail]
  /\ p' = [p EXCEPT ![t] = IF tail = NULL THEN MyNode(t) ELSE NULL]
  /\ UNCHANGED <<nodeVars, state, toggle, counter, result>>

(* mypred->next = mynode, after which the local is dead. *)
Link(t) ==
  /\ Goto(t, "link", "spin")
  /\ next' = [next EXCEPT ![mypred[t]] = MyNode(t)]
  /\ mypred' = [mypred EXCEPT ![t] = NULL]
  /\ UNCHANGED <<tail, locked, completed, arg_ret, pid, state, toggle, p, counter,
                 result>>

(* while (mynode->locked) ends *)
StopSpinning(t) ==
  /\ Move(t, "spin", "check")
  /\ ~locked[MyNode(t)]

(* if (mynode->completed) return mynode->arg_ret *)
ReturnHelped(t) ==
  /\ Return(t, "check")
  /\ completed[MyNode(t)]

(* Mutant of BecomeCombiner: completed is not looked at. *)
BecomeCombinerUnchecked(t) ==
  /\ Goto(t, "check", "apply")
  /\ p' = [p EXCEPT ![t] = MyNode(t)]
  /\ UNCHANGED <<tail, nodeVars, state, toggle, mypred, counter, result>>

BecomeCombiner(t) ==
  /\ Goto(t, "check", "apply")
  /\ ~completed[MyNode(t)]
  /\ p' = [p EXCEPT ![t] = MyNode(t)]
  /\ UNCHANGED <<tail, nodeVars, state, toggle, mypred, counter, result>>

(* Mutant of Apply: sfunc gets the combiner's pid. *)
ApplyAsCombiner(t) ==
  /\ Goto(t, "apply", "complete")
  /\ counter' = [counter EXCEPT ![t] = @ + 1]
  /\ state' = NewState(state, arg_ret[p[t]], t)
  /\ arg_ret' = [arg_ret EXCEPT ![p[t]] = Result(state, arg_ret[p[t]], t)]
  /\ UNCHANGED <<tail, next, locked, completed, pid, toggle, mypred, p, result>>

(* counter++; p->arg_ret = sfunc(state, p->arg_ret, p->pid) *)
Apply(t) ==
  /\ Goto(t, "apply", "complete")
  /\ counter' = [counter EXCEPT ![t] = @ + 1]
  /\ state' = NewState(state, arg_ret[p[t]], pid[p[t]])
  /\ arg_ret' = [arg_ret EXCEPT ![p[t]] = Result(state, arg_ret[p[t]], pid[p[t]])]
  /\ UNCHANGED <<tail, next, locked, completed, pid, toggle, mypred, p, result>>

(* p->completed = true *)
Complete(t) ==
  /\ Goto(t, "complete", "unlock")
  /\ completed' = [completed EXCEPT ![p[t]] = TRUE]
  /\ UNCHANGED <<tail, next, locked, arg_ret, pid, state, localVars, result>>

(* p->locked = false, after which p belongs to its thread again, although   *)
(* the combiner has yet to read p->next                                     *)
Unlock(t) ==
  /\ Goto(t, "unlock", "test")
  /\ locked' = [locked EXCEPT ![p[t]] = FALSE]
  /\ UNCHANGED <<tail, next, completed, arg_ret, pid, state, localVars, result>>

(* The test that ends the loop: p->next == NULL, ... *)
FindNoNext(t) ==
  /\ Move(t, "test", "end")
  /\ next[p[t]] = NULL

FindNext(t) ==
  /\ Move(t, "test", "testNext")
  /\ next[p[t]] # NULL

(* ... p->next->next == NULL || counter >= help_bound *)
StopCombining(t) ==
  /\ Move(t, "testNext", "end")
  /\ next[next[p[t]]] = NULL \/ counter[t] >= HelpBound

(* Mutant of Visit: no help bound. *)
VisitUnbounded(t) ==
  /\ Goto(t, "testNext", "apply")
  /\ next[next[p[t]]] # NULL
  /\ p' = [p EXCEPT ![t] = next[p[t]]]
  /\ UNCHANGED <<tail, nodeVars, state, toggle, mypred, counter, result>>

(* p = p->next *)
Visit(t) ==
  /\ Goto(t, "testNext", "apply")
  /\ next[next[p[t]]] # NULL
  /\ counter[t] < HelpBound
  /\ p' = [p EXCEPT ![t] = next[p[t]]]
  /\ UNCHANGED <<tail, nodeVars, state, toggle, mypred, counter, result>>

(* After the loop p->next is read again. *)
EndLinked(t) ==
  /\ Move(t, "end", "handOver")
  /\ next[p[t]] # NULL

EndUnlinked(t) ==
  /\ Move(t, "end", "cas")
  /\ next[p[t]] = NULL

(* Mutant of EmptyQueue: a store instead of the CAS. *)
EmptyQueueBlindly(t) ==
  /\ Goto(t, "cas", "return")
  /\ tail' = NULL
  /\ UNCHANGED <<nodeVars, state, localVars, result>>

(* synchCASPTR(&l->Tail, p, NULL). (The comparison before it reads what the *)
(* CAS compares again.)                                                     *)
EmptyQueue(t) ==
  /\ Goto(t, "cas", "return")
  /\ tail = p[t]
  /\ tail' = NULL
  /\ UNCHANGED <<nodeVars, state, localVars, result>>

EmptyQueueFails(t) ==
  /\ Move(t, "cas", "wait")
  /\ tail # p[t]

(* while (p->next == NULL) ends: the late thread has linked its node *)
StopWaiting(t) ==
  /\ Move(t, "wait", "handOver")
  /\ next[p[t]] # NULL

(* p->next->locked = false *)
HandOver(t) ==
  /\ Goto(t, "handOver", "return")
  /\ locked' = [locked EXCEPT ![next[p[t]]] = FALSE]
  /\ UNCHANGED <<tail, next, completed, arg_ret, pid, state, localVars, result>>

(* return mynode->arg_ret, by the thread that was the combiner *)
ReturnCombiner(t) == Return(t, "return")

Step(t) ==
  \/ Swap(t) \/ Link(t) \/ StopSpinning(t) \/ ReturnHelped(t)
  \/ BecomeCombiner(t) \/ Apply(t) \/ Complete(t) \/ Unlock(t)
  \/ FindNoNext(t) \/ FindNext(t) \/ StopCombining(t) \/ Visit(t)
  \/ EndLinked(t) \/ EndUnlinked(t) \/ EmptyQueue(t) \/ EmptyQueueFails(t)
  \/ StopWaiting(t) \/ HandOver(t) \/ ReturnCombiner(t)

Next == \E t \in Threads : (\E a \in Args : Call(t, a)) \/ Step(t)

Spec == Init /\ [][Next]_vars

(* A thread inside an operation is scheduled again and again (it never      *)
(* blocks in the code, it spins); nobody is obliged to call.                *)
FairSpec == Spec /\ \A t \in Threads : WF_vars(Step(t))

-----------------------------------------------------------------------------
Combining == {"apply", "complete", "unlock", "test", "testNext", "end", "cas",
              "wait", "handOver"}

PCs == {"idle", "swap", "link", "spin", "check", "return"} \cup Combining

(* The type of the state. *)
TypeOK ==
  /\ tail \in Nodes \cup {NULL}
  /\ next \in [Nodes -> Nodes \cup {NULL}]
  /\ locked \in [Nodes -> BOOLEAN]
  /\ completed \in [Nodes -> BOOLEAN]
  /\ DOMAIN arg_ret = Nodes
  /\ pid \in [Nodes -> Threads \cup {NULL}]
  /\ pc \in [Threads -> PCs]
  /\ toggle \in [Threads -> {0, 1}]
  /\ mypred \in [Threads -> Nodes \cup {NULL}]
  /\ p \in [Threads -> Nodes \cup {NULL}]
  /\ counter \in [Threads -> 0 .. HelpBound]
  /\ DOMAIN result = Threads

(* sfunc needs no lock of its own: no two threads are ever combining, from  *)
(* the first request served to the end of the hand-over, so the calls of    *)
(* sfunc in DSMSynchApplyOp never overlap.                                  *)
SingleCombiner ==
  \A t, u \in Threads : pc[t] \in Combining /\ pc[u] \in Combining => t = u

(* A thread resets a node when the call after next starts, and a combiner   *)
(* reads p->next after it has set p->locked to false: with two nodes per    *)
(* thread, the node about to be reset is one that nobody can reach.         *)
ReusedNodeIsFree ==
  \A t \in Threads :
    pc[t] = "idle" =>
      LET n == <<t, Other(toggle[t])>>
      IN  /\ tail # n
          /\ \A u \in Threads :
               /\ pc[u] = "link" => mypred[u] # n
               /\ pc[u] \in Combining => p[u] # n /\ next[p[u]] # n

(* The abstract object: the request of t has been served from the moment    *)
(* sfunc has run for it.                                                    *)
Served(t) ==
  \/ completed[MyNode(t)]
  \/ \E c \in Threads : pc[c] = "complete" /\ p[c] = MyNode(t)

AbstractOp(t) ==
  IF pc[t] = "idle" THEN [status |-> "idle"]
  ELSE IF Served(t) THEN [status |-> "done", ret |-> arg_ret[MyNode(t)]]
  ELSE [status |-> "pending", arg |-> arg_ret[MyNode(t)]]

Ob == INSTANCE AtomicObject WITH
        NoResult <- NULL,
        obj <- state,
        op <- [t \in Threads |-> AbstractOp(t)],
        result <- result

(* DSM-Synch is linearizable: it implements the atomic object, each request *)
(* taking effect exactly once and each call returning its own answer.       *)
ImplementsAtomicObject == Ob!Spec

(* Every call returns, although a combiner leaves the last linked request   *)
(* to its owner and may have to wait for a thread to link itself.           *)
EveryCallReturns == \A t \in Threads : pc[t] = "swap" ~> pc[t] = "idle"
=============================================================================
