-------------------------------- MODULE CLH --------------------------------
(***************************************************************************)
(* The CLH queue lock (libconcurrent/concurrent/clh.c). A thread spins on  *)
(* the node of its predecessor and takes that node over when it unlocks,   *)
(* so nodes migrate from thread to thread.                                 *)
(*                                                                         *)
(* The lock serialises HSynch's combiners, the cells of the CLH hash table *)
(* and the CLH queues; here its client is a thread that locks and unlocks  *)
(* for ever.                                                               *)
(***************************************************************************)
EXTENDS Integers, FiniteSets

CONSTANTS
  Threads,   (* the pids that index MyNode and MyPred                      *)
  Dummy,     (* the unlocked node CLHLockInit puts in Tail                 *)
  NULL

ASSUME ConstantsAssumption ==
  /\ Dummy \notin Threads
  /\ NULL \notin Threads \cup {Dummy}

(* CLHLockInit allocates one node for each thread: node t is that of t.     *)
Nodes == Threads \cup {Dummy}

VARIABLES
  tail,      (* l->Tail                                                    *)
  locked,    (* node->locked                                               *)
  MyNode,    (* l->MyNode[pid]                                             *)
  MyPred,    (* l->MyPred[pid]                                             *)
  pc

vars == <<tail, locked, MyNode, MyPred, pc>>

Goto(t, from, to) ==
  /\ pc[t] = from
  /\ pc' = [pc EXCEPT ![t] = to]

-----------------------------------------------------------------------------
(* CLHLockInit. Only Tail->locked is initialised in the code: a thread sets *)
(* its own node's before it publishes the node.                             *)
Init ==
  /\ tail = Dummy
  /\ \E junk \in [Threads -> BOOLEAN] :
       locked = [n \in Nodes |-> IF n = Dummy THEN FALSE ELSE junk[n]]
  /\ MyNode = [t \in Threads |-> t]
  /\ MyPred = [t \in Threads |-> NULL]
  /\ pc = [t \in Threads |-> "out"]

(* Mutant of Prepare: the node is not marked. *)
PrepareUnmarked(t) == Goto(t, "out", "swap") /\ UNCHANGED <<tail, locked, MyNode, MyPred>>

(* CLHLock: MyNode[pid]->locked = true *)
Prepare(t) ==
  /\ Goto(t, "out", "swap")
  /\ locked' = [locked EXCEPT ![MyNode[t]] = TRUE]
  /\ UNCHANGED <<tail, MyNode, MyPred>>

(* MyPred[pid] = SWAP(&l->Tail, MyNode[pid]) *)
Swap(t) ==
  /\ Goto(t, "swap", "spin")
  /\ MyPred' = [MyPred EXCEPT ![t] = tail]
  /\ tail' = MyNode[t]
  /\ UNCHANGED <<locked, MyNode>>

(* The spin loop ends and CLHLock returns. *)
Acquire(t) ==
  /\ Goto(t, "spin", "inside")
  /\ ~locked[MyPred[t]]
  /\ UNCHANGED <<tail, locked, MyNode, MyPred>>

(* Mutant of Release: the predecessor's node is unlocked, as if MyNode had  *)
(* been replaced first.                                                     *)
ReleasePred(t) ==
  /\ Goto(t, "inside", "recycle")
  /\ locked' = [locked EXCEPT ![MyPred[t]] = FALSE]
  /\ UNCHANGED <<tail, MyNode, MyPred>>

(* CLHUnlock: MyNode[pid]->locked = false *)
Release(t) ==
  /\ Goto(t, "inside", "recycle")
  /\ locked' = [locked EXCEPT ![MyNode[t]] = FALSE]
  /\ UNCHANGED <<tail, MyNode, MyPred>>

(* Mutant of Recycle: the thread keeps its own node. *)
RecycleNothing(t) == Goto(t, "recycle", "out") /\ UNCHANGED <<tail, locked, MyNode, MyPred>>

(* MyNode[pid] = MyPred[pid]. MyPred keeps its value, which nobody reads.   *)
Recycle(t) ==
  /\ Goto(t, "recycle", "out")
  /\ MyNode' = [MyNode EXCEPT ![t] = MyPred[t]]
  /\ UNCHANGED <<tail, locked, MyPred>>

Unlock(t) == Release(t) \/ Recycle(t)

Step(t) == Prepare(t) \/ Swap(t) \/ Acquire(t) \/ Unlock(t)

Next == \E t \in Threads : Step(t)

Spec == Init /\ [][Next]_vars

(* A thread that has started to lock goes on, and one that is inside leaves *)
(* eventually (critical sections are finite); nobody is obliged to lock.    *)
FairSpec ==
  Spec /\ \A t \in Threads : WF_vars(Swap(t) \/ Acquire(t) \/ Unlock(t))

-----------------------------------------------------------------------------
(* The type of the state. *)
TypeOK ==
  /\ tail \in Nodes
  /\ locked \in [Nodes -> BOOLEAN]
  /\ MyNode \in [Threads -> Nodes]
  /\ MyPred \in [Threads -> Nodes \cup {NULL}]
  /\ pc \in [Threads -> {"out", "swap", "spin", "inside", "recycle"}]

(* At most one thread is between CLHLock and CLHUnlock. *)
MutualExclusion ==
  \A t, u \in Threads : pc[t] = "inside" /\ pc[u] = "inside" => t = u

(* A node that a thread is about to set and publish is not one on which     *)
(* another thread is still spinning: a node taken over from the             *)
(* predecessor is free.                                                     *)
RecycledNodeIsFree ==
  \A t, u \in Threads : pc[t] = "out" /\ pc[u] = "spin" => MyPred[u] # MyNode[t]

(* t has joined the queue and has not released its node. *)
Queued(t) == pc[t] \in {"spin", "inside"}

(* The queue of the abstract lock, read off the predecessor links.          *)
Order ==
  LET Q == {t \in Threads : Queued(t)}
  IN  CHOOSE s \in [1 .. Cardinality(Q) -> Q] :
        /\ \A t \in Q : \E i \in DOMAIN s : s[i] = t
        /\ \A i \in 2 .. Cardinality(Q) : MyPred[s[i]] = MyNode[s[i - 1]]

Lock == INSTANCE QueueLock WITH
          queue <- Order,
          inside <- {t \in Threads : pc[t] = "inside"}

(* The CLH lock is a first-come first-served lock. *)
ImplementsQueueLock == Lock!Spec

(* No thread spins for ever. *)
LockReturns == \A t \in Threads : pc[t] = "spin" ~> pc[t] = "inside"
-----------------------------------------------------------------------------
(* The inductive invariant. A thread holds MyNode until it publishes its    *)
(* release, and MyPred from the swap on; no node is held twice.             *)
HoldsNode(t) == pc[t] \in {"out", "swap", "spin", "inside"}
HoldsPred(t) == pc[t] \in {"spin", "inside", "recycle"}

Ownership ==
  \A t, u \in Threads :
    /\ HoldsPred(t) => MyPred[t] \in Nodes /\ MyPred[t] # tail
    /\ pc[t] \in {"out", "swap"} => MyNode[t] # tail
    /\ HoldsNode(t) /\ HoldsNode(u) /\ MyNode[t] = MyNode[u] => t = u
    /\ HoldsPred(t) /\ HoldsPred(u) /\ MyPred[t] = MyPred[u] => t = u
    /\ HoldsPred(t) /\ pc[u] \in {"out", "swap"} => MyPred[t] # MyNode[u]
    /\ pc[t] = "recycle" /\ HoldsNode(u) => MyPred[t] # MyNode[u]

Flags ==
  \A t \in Threads :
    /\ pc[t] \in {"swap", "spin", "inside"} => locked[MyNode[t]]
    /\ pc[t] = "inside" => ~locked[MyPred[t]]

(* The nodes that let somebody in: the tail, for who comes next, and the    *)
(* predecessors of the threads in the queue. At most one is unlocked.       *)
Gate(n) ==
  /\ n = tail \/ \E t \in Threads : Queued(t) /\ MyPred[t] = n
  /\ ~locked[n]

OneGate == \A n, m \in Nodes : Gate(n) /\ Gate(m) => n = m

(* The whole invariant, which every step preserves. *)
IInv == TypeOK /\ Ownership /\ Flags /\ OneGate
=============================================================================
