-------------------------------- MODULE Osci --------------------------------
(***************************************************************************)
(* Osci (libconcurrent/concurrent/osci.c): combining for user-level        *)
(* threads. The fibers of one POSIX thread (a group) first meet in a node: *)
(* the first one opens its node at the combining point of the group, the   *)
(* others write their requests into it while its door is open. Nodes of    *)
(* different groups form a queue, as in DSM-Synch; a combiner serves whole *)
(* nodes.                                                                  *)
(*                                                                         *)
(* To keep the states few, the model forgets what no one reads any more: a *)
(* record when its fiber has returned, the link of a node that its         *)
(* combiner has left (Open writes both anew before they are used again).   *)
(*                                                                         *)
(* The fibers of a group run on one thread, one at a time, and change only *)
(* in synchResched, which picks them in turn (see UThreads); groups run in *)
(* parallel. So what a fiber does between two reschedulings to memory that *)
(* only its group touches is one action.                                   *)
(***************************************************************************)
EXTENDS Integers

CONSTANTS
  nthreads,           (* the number of fibers                              *)
  fibers_per_thread,
  HelpFactor,         (* OSCI_HELP_FACTOR, 10 in the code                  *)
  NULL,
  Args,
  InitialState,
  NewState(_, _, _),  (* the two halves of sfunc, see AtomicObject         *)
  Result(_, _, _)

Fibers == 0 .. nthreads - 1                           \* pids
group(f) == f \div fibers_per_thread
offset(f) == f % fibers_per_thread
Groups == {group(f) : f \in Fibers}
Offsets == 0 .. fibers_per_thread - 1
Nodes == Fibers \X {0, 1}        \* next_node of each fiber's OsciThreadState

ConstantsAssumption ==
  /\ nthreads \in Nat \ {0} /\ HelpFactor \in Nat \ {0}
  /\ fibers_per_thread \in 1 .. nthreads
  /\ NULL \notin Nodes

help_bound == HelpFactor * nthreads

VARIABLES
  tail,           (* l->Tail                                               *)
  current_node,   (* of each group                                         *)
  next, door,     (* fields of the nodes; an open door is OPENED, another  *)
                  (* one INIT: LOCKED only exists between reschedulings    *)
  rec,            (* rec[n][o]: request or answer, locked, completed       *)
  state,          (* the object sfunc works on                             *)
  running,        (* the fiber that runs in each group                     *)
  pc, toggle,
  my,             (* locals of OsciApplyOp                                 *)
  result

nodeVars == <<current_node, next, door, rec>>
vars == <<tail, nodeVars, state, running, pc, toggle, my, result>>

Unused == [arg_ret |-> NULL, locked |-> TRUE, completed |-> TRUE]
Fresh == [cur |-> NULL, pred |-> NULL, p |-> NULL, i |-> 0, counter |-> 0]

mynode(f) == <<f, toggle[f]>>
cur(f) == my[f].cur
own(f) == rec[cur(f)][offset(f)]     \* the record of f in its node

(* The next fiber of the group, in turn.                                    *)
NextFiber(f) ==
  IF f + 1 \in Fibers /\ group(f + 1) = group(f) THEN f + 1 ELSE f - offset(f)
Resched(f) == running' = [running EXCEPT ![group(f)] = NextFiber(f)]

Goto(f, from, to) ==
  /\ running[group(f)] = f
  /\ pc[f] = from
  /\ pc' = [pc EXCEPT ![f] = to]

-----------------------------------------------------------------------------
(* OsciInit, and OsciThreadStateInit of every fiber. *)
Init ==
  /\ tail = NULL
  /\ current_node = [g \in Groups |-> NULL]
  /\ next = [n \in Nodes |-> NULL]
  /\ door = [n \in Nodes |-> "INIT"]
  /\ rec = [n \in Nodes |-> [o \in Offsets |-> Unused]]
  /\ state = InitialState
  /\ running = [g \in Groups |-> g * fibers_per_thread]
  /\ pc = [f \in Fibers |-> "out"]
  /\ toggle = [f \in Fibers |-> 0]
  /\ my = [f \in Fibers |-> Fresh]
  /\ result = [f \in Fibers |-> NULL]

(* A fiber outside a call yields.                                           *)
Yield(f) ==
  /\ Goto(f, "out", "out")
  /\ Resched(f)
  /\ UNCHANGED <<tail, nodeVars, state, toggle, my, result>>

(* The request a of f in node n.                                            *)
Request(f, n, a) ==
  rec' = [rec EXCEPT ![n][offset(f)] = [arg_ret |-> a, locked |-> TRUE, completed |-> FALSE]]

(* Mutant of Open: the toggle stays, one node for each fiber. *)
OpenSame(f, a) ==
  /\ Goto(f, "out", "release")
  /\ current_node[group(f)] = NULL
  /\ current_node' = [current_node EXCEPT ![group(f)] = mynode(f)]
  /\ Request(f, mynode(f), a)
  /\ next' = [next EXCEPT ![mynode(f)] = NULL]
  /\ door' = [door EXCEPT ![mynode(f)] = "OPENED"]
  /\ my' = [my EXCEPT ![f].cur = mynode(f)]
  /\ result' = [result EXCEPT ![f] = NULL]
  /\ Resched(f)
  /\ UNCHANGED <<tail, state, toggle>>

(* OsciApplyOp of the fiber that finds no node at the combining point: its  *)
(* own node goes there, with an open door, and it reschedules.              *)
Open(f, a) ==
  /\ Goto(f, "out", "release")
  /\ current_node[group(f)] = NULL
  /\ current_node' = [current_node EXCEPT ![group(f)] = mynode(f)]
  /\ Request(f, mynode(f), a)
  /\ next' = [next EXCEPT ![mynode(f)] = NULL]
  /\ door' = [door EXCEPT ![mynode(f)] = "OPENED"]
  /\ my' = [my EXCEPT ![f].cur = mynode(f)]
  /\ toggle' = [toggle EXCEPT ![f] = 1 - @]
  /\ result' = [result EXCEPT ![f] = NULL]
  /\ Resched(f)
  /\ UNCHANGED <<tail, state>>

(* OsciApplyOp of a fiber that finds a node there with an open door (the    *)
(* fiber that opened it has not run since): its request goes into it, and   *)
(* it waits.                                                                *)
Join(f, a) ==
  LET n == current_node[group(f)]
  IN  /\ Goto(f, "out", "wait")
      /\ n # NULL /\ door[n] = "OPENED"
      /\ Request(f, n, a)
      /\ my' = [my EXCEPT ![f].cur = n]
      /\ result' = [result EXCEPT ![f] = NULL]
      /\ Resched(f)
      /\ UNCHANGED <<tail, current_node, next, door, state, toggle>>

(* The combining point is released and the door closed by a CAS.            *)
Release(f) ==
  /\ Goto(f, "release", "swap")
  /\ current_node' = [current_node EXCEPT ![group(f)] = NULL]
  /\ door' = [door EXCEPT ![cur(f)] = "INIT"]
  /\ UNCHANGED <<tail, next, rec, state, running, toggle, my, result>>

(* pred = synchSWAP(&l->Tail, cur) *)
SwapTail(f) ==
  /\ Goto(f, "swap", IF tail = NULL THEN "combine" ELSE "link")
  /\ tail' = cur(f)
  /\ my' = [my EXCEPT ![f].pred = tail, ![f].p = IF tail = NULL THEN cur(f) ELSE NULL]
  /\ UNCHANGED <<nodeVars, state, running, toggle, result>>

(* pred->next = cur *)
Link(f) ==
  /\ Goto(f, "link", "wait")
  /\ next' = [next EXCEPT ![my[f].pred] = cur(f)]
  /\ my' = [my EXCEPT ![f].pred = NULL]
  /\ UNCHANGED <<tail, current_node, door, rec, state, running, toggle, result>>

(* while (cur->rec[offset_id].locked) synchResched()                        *)
Spin(f) ==
  /\ Goto(f, "wait", "wait")
  /\ own(f).locked
  /\ Resched(f)
  /\ UNCHANGED <<tail, nodeVars, state, toggle, my, result>>

(* Unlocked: the request has been served, or f is the combiner now.         *)
StopSpinning(f) ==
  /\ Goto(f, "wait", IF own(f).completed THEN "return" ELSE "combine")
  /\ ~own(f).locked
  /\ my' = [my EXCEPT ![f].p = IF own(f).completed THEN NULL ELSE cur(f)]
  /\ UNCHANGED <<tail, nodeVars, state, running, toggle, result>>

(* The first record of node n, from the i-th on, with a request to serve.   *)
FirstFrom(n, i) ==
  CHOOSE o \in Offsets : /\ o >= i /\ ~rec[n][o].completed
                         /\ \A q \in i .. o - 1 : rec[n][q].completed
AnyFrom(n, i) == \E o \in Offsets : o >= i /\ ~rec[n][o].completed

(* Mutant of Serve: sfunc gets the pid of the combiner. *)
ServeAsCombiner(f) ==
  LET p == my[f].p
      o == FirstFrom(p, my[f].i)
      r == rec[p][o]
  IN  /\ Goto(f, "combine", "unlock")
      /\ AnyFrom(p, my[f].i)
      /\ state' = NewState(state, r.arg_ret, f)
      /\ rec' = [rec EXCEPT ![p][o].arg_ret = Result(state, r.arg_ret, f),
                            ![p][o].completed = TRUE]
      /\ my' = [my EXCEPT ![f].i = o]
      /\ UNCHANGED <<tail, current_node, next, door, running, toggle, result>>

(* sfunc runs for a record of the node p, which is then completed           *)
Serve(f) ==
  LET p == my[f].p
      o == FirstFrom(p, my[f].i)
      r == rec[p][o]
      q == group(p[1]) * fibers_per_thread + o     \* r.pid
  IN  /\ Goto(f, "combine", "unlock")
      /\ AnyFrom(p, my[f].i)
      /\ state' = NewState(state, r.arg_ret, q)
      /\ rec' = [rec EXCEPT ![p][o].arg_ret = Result(state, r.arg_ret, q),
                            ![p][o].completed = TRUE]
      /\ my' = [my EXCEPT ![f].i = o]
      /\ UNCHANGED <<tail, current_node, next, door, running, toggle, result>>

(* and unlocked.                                                            *)
Unlock(f) ==
  /\ Goto(f, "unlock", "combine")
  /\ rec' = [rec EXCEPT ![my[f].p][my[f].i].locked = FALSE]
  /\ my' = [my EXCEPT ![f].i = @ + 1]
  /\ UNCHANGED <<tail, current_node, next, door, state, running, toggle, result>>

(* The node is done: p->next == NULL ends the loop, *)
NodeDone(f) ==
  /\ Goto(f, "combine", IF next[my[f].p] = NULL THEN "end" ELSE "more")
  /\ ~AnyFrom(my[f].p, my[f].i)
  /\ my' = [my EXCEPT ![f].i = 0, ![f].counter = @ + fibers_per_thread]
  /\ UNCHANGED <<tail, nodeVars, state, running, toggle, result>>

(* and so does p->next->next == NULL or the bound; or p = p->next.          *)
More(f) ==
  LET n == next[my[f].p]
      stop == next[n] = NULL \/ my[f].counter >= help_bound
  IN  /\ Goto(f, "more", IF stop THEN "pass" ELSE "combine")
      /\ my' = [my EXCEPT ![f].p = IF stop THEN @ ELSE n]
      /\ next' = [next EXCEPT ![my[f].p] = IF stop THEN @ ELSE NULL]
      /\ UNCHANGED <<tail, current_node, door, rec, state, running, toggle, result>>

(* After the loop, p->next == NULL is read again. *)
End(f) ==
  /\ Goto(f, "end", IF next[my[f].p] = NULL THEN "tailCAS" ELSE "pass")
  /\ UNCHANGED <<tail, nodeVars, state, running, toggle, my, result>>

(* l->Tail == p && synchCASPTR(&l->Tail, p, NULL) *)
CASTail(f) ==
  /\ Goto(f, "tailCAS", IF tail = my[f].p THEN "return" ELSE "late")
  /\ tail' = IF tail = my[f].p THEN NULL ELSE tail
  /\ UNCHANGED <<nodeVars, state, running, toggle, my, result>>

(* while (p->next == NULL) synchResched() *)
WaitNext(f) ==
  /\ Goto(f, "late", IF next[my[f].p] = NULL THEN "late" ELSE "pass")
  /\ IF pc'[f] = "late" THEN Resched(f) ELSE UNCHANGED running
  /\ UNCHANGED <<tail, nodeVars, state, toggle, my, result>>

(* The first request of p->next is unlocked: its fiber combines.            *)
Pass(f) ==
  LET n == next[my[f].p]
  IN  /\ Goto(f, "pass", "return")
      /\ rec' = IF AnyFrom(n, 0) THEN [rec EXCEPT ![n][FirstFrom(n, 0)].locked = FALSE] ELSE rec
      /\ next' = [next EXCEPT ![my[f].p] = NULL]
      /\ UNCHANGED <<tail, current_node, door, state, running, toggle, my, result>>

(* return cur->rec[offset_id].arg_ret *)
Return(f) ==
  /\ Goto(f, "return", "out")
  /\ result' = [result EXCEPT ![f] = own(f).arg_ret]
  /\ my' = [my EXCEPT ![f] = Fresh]
  /\ rec' = [rec EXCEPT ![cur(f)][offset(f)] = Unused]
  /\ UNCHANGED <<tail, current_node, next, door, state, running, toggle>>

Step(f) ==
  \/ Release(f) \/ SwapTail(f) \/ Link(f) \/ Spin(f) \/ StopSpinning(f)
  \/ Serve(f) \/ Unlock(f) \/ NodeDone(f) \/ More(f) \/ End(f) \/ CASTail(f)
  \/ WaitNext(f) \/ Pass(f) \/ Return(f)

Next ==
  \E f \in Fibers :
    \/ Yield(f)
    \/ \E a \in Args : Open(f, a) \/ Join(f, a)
    \/ Step(f)

Spec == Init /\ [][Next]_vars

(* Every POSIX thread runs on; a fiber outside a call yields or calls.      *)
GroupStep(g) == \E f \in Fibers : group(f) = g /\ (Yield(f) \/ Step(f))

FairSpec == Spec /\ \A g \in Groups : WF_vars(GroupStep(g))

-----------------------------------------------------------------------------
Combining == {"combine", "unlock", "more", "end", "tailCAS", "late", "pass"}

(* sfunc needs no lock: one fiber combines at a time, of all groups.        *)
SingleCombiner ==
  \A f, g \in Fibers : pc[f] \in Combining /\ pc[g] \in Combining => f = g

(* The node a fiber opens next is one that nobody can reach: it is not at a *)
(* combining point or in the queue, and no fiber combines on it or waits in *)
(* it. (A fiber that was served may still have to read its answer there.)   *)
ReusedNodeIsFree ==
  \A f \in Fibers :
    pc[f] = "out" =>
      LET n == mynode(f)
      IN  /\ tail # n /\ current_node[group(f)] # n
          /\ \A g \in Fibers :
               /\ my[g].pred # n
               /\ pc[g] \in Combining => my[g].p # n /\ next[my[g].p] # n
               /\ pc[g] \notin {"out", "return"} /\ cur(g) = n => own(g).completed

(* Requests are served from the moment sfunc has run.                       *)
AbstractOp(f) ==
  IF pc[f] = "out" THEN [status |-> "idle"]
  ELSE IF own(f).completed THEN [status |-> "done", ret |-> own(f).arg_ret]
  ELSE [status |-> "pending", arg |-> own(f).arg_ret]

Ob == INSTANCE AtomicObject WITH
        Threads <- Fibers,
        NoResult <- NULL,
        obj <- state,
        op <- [f \in Fibers |-> AbstractOp(f)],
        result <- result

(* Osci is linearizable: each request, of the fiber that opened a node or   *)
(* of one that joined it, takes effect once and gets its own answer.        *)
ImplementsAtomicObject == Ob!Spec

(* Every call returns, whatever fibers do the combining.                    *)
EveryCallReturns == \A f \in Fibers : pc[f] # "out" ~> pc[f] = "out"
=============================================================================
