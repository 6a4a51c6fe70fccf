--------------------------- MODULE Combining_proofs -------------------------
(***************************************************************************)
(* Proofs about the combining protocols of MCCombining, for any number of  *)
(* threads and fibers, any requests, any object and any help factor.       *)
(*                                                                         *)
(* CC-Synch:                                                               *)
(* 1. IInv of CCSynch is inductive: Init implies it, and each action, in a *)
(*    lemma of its own with one step per conjunct, preserves it.           *)
(* 2. IInv implies TypeOK, SingleCombiner, ServedInQueueOrder and          *)
(*    CombinerStaysInQueue.                                                *)
(* 3. Under IInv each step maps to a step of AtomicObject or to a stutter, *)
(*    so CC-Synch implements the atomic object.                            *)
(* Osci: the same along OsciInv, which says that the nodes between the     *)
(*    first to be served and Tail are a queue, that one fiber at most may  *)
(*    combine, and that each of the two nodes of a fiber is in the queue   *)
(*    or out of reach. Its induction is by action again.                   *)
(* H-Synch: the invariant of HSynch_proofs, carried over to the instance H.*)
(* Both of these then hold for MCSpec, in which one of the three runs.     *)
(***************************************************************************)
EXTENDS MCCombining, FiniteSetTheorems, WellFoundedInduction, TLAPS

(*                               CC-Synch                                   *)
-----------------------------------------------------------------------------

(* help_bound lets a combiner serve at least one request: its own. *)
LEMMA HelpBoundType == HelpBound \in Nat /\ (Threads # {} => HelpBound > 0)
<1>1. Cardinality(Threads) \in Nat /\ (Threads # {} => Cardinality(Threads) > 0)
  BY ConstantsAssumption, FS_CardinalityType, FS_EmptySet
<1>2. HelpFactor \in Nat \ {0}
  BY ConstantsAssumption
<1>3. \A i, j \in Nat : i * j \in Nat /\ (i > 0 /\ j > 0 => i * j > 0)
  OBVIOUS
<1>. QED
  BY <1>1, <1>2, <1>3 DEF HelpBound

(* CCSynchStructInit and CCSynchThreadStateInit establish the invariant. *)
LEMMA InitIInv == Init => IInv
<1>. SUFFICES ASSUME Init PROVE IInv
  OBVIOUS
<1>1. TypeOK
  BY HelpBoundType DEF Init, TypeOK, PCs, Nodes
<1>2. Ownership
  BY ConstantsAssumption DEF Init, Ownership, Held, Queued, Nodes
<1>3. OwnNodes
  BY DEF Init, OwnNodes, Queued, Combining
<1>4. Chain
  BY DEF Init, Chain, Queued, Waiting, Nodes
<1>5. CombinerPosition
  BY DEF Init, CombinerPosition
<1>6. OneGrant
  BY ConstantsAssumption DEF Init, OneGrant, InQueue, Grant, Nodes,
    Combining
<1>7. SingleCombiner
  BY DEF Init, SingleCombiner, Combining
<1>8. Requests
  BY DEF Init, Requests, Queued, Waiting
<1>. QED
  BY <1>1, <1>2, <1>3, <1>4, <1>5, <1>6, <1>7, <1>8 DEF IInv

(* A call only resets the private node of its thread. *)
LEMMA CallStep ==
  ASSUME NEW t \in Threads, NEW a \in Args, IInv, Call(t, a)
  PROVE  IInv'
<1>. TypeOK /\ Ownership /\ OwnNodes /\ Chain
     /\ CombinerPosition /\ OneGrant /\ SingleCombiner /\ Requests
  BY DEF IInv
<1>1. TypeOK'
  BY DEF TypeOK, PCs, Call, Goto
<1>2. Ownership'
  BY DEF Ownership, Held, Queued, Call, Goto
<1>3. OwnNodes'
  BY DEF TypeOK, Ownership, OwnNodes, Held, Queued, Combining, Call, Goto
<1>4. Chain'
  BY DEF Ownership, Chain, Held, InQueue, Queued, Waiting, Successor, Call,
    Goto
<1>5. CombinerPosition'
  BY DEF Ownership, CombinerPosition, Held, InQueue, Queued, Waiting, First,
    Combining, Successor, Call, Goto
<1>6. OneGrant'
  BY DEF Ownership, OneGrant, Held, InQueue, Queued, Grant, Combining, Call,
    Goto
<1>7. SingleCombiner'
  BY DEF SingleCombiner, Combining, Call, Goto
<1>8. Requests'
  BY DEF TypeOK, Ownership, Requests, Held, Queued, Waiting, Served, Call,
    Goto
<1>. QED
  BY <1>1, <1>2, <1>3, <1>4, <1>5, <1>6, <1>7, <1>8 DEF IInv

(* The node swapped in is locked and unserved, so it may follow the tail. *)
LEMMA SwapStep ==
  ASSUME NEW t \in Threads, IInv, Swap(t)
  PROVE  IInv'
<1>. TypeOK /\ Ownership /\ OwnNodes /\ Chain
     /\ CombinerPosition /\ OneGrant /\ SingleCombiner /\ Requests
  BY DEF IInv
<1>1. TypeOK'
  BY DEF TypeOK, PCs, Swap, Goto, nodeVars
<1>2. Ownership'
  BY DEF TypeOK, Ownership, Held, Queued, Swap, Goto
<1>3. OwnNodes'
  BY DEF TypeOK, OwnNodes, Chain, Queued, Combining, Swap, Goto, nodeVars
<1>4. Chain'
  BY DEF TypeOK, Ownership, OwnNodes, Chain, Held, InQueue, Queued, Waiting,
    Successor, Swap, Goto, nodeVars
<1>5. CombinerPosition'
  BY DEF TypeOK, Ownership, CombinerPosition, Held, InQueue, Queued,
    Waiting, First, Combining, Successor, Swap, Goto, nodeVars
<1>6. OneGrant'
  BY DEF TypeOK, Ownership, OwnNodes, OneGrant, InQueue, Queued, Grant,
    Combining, Swap, Goto, nodeVars
<1>7. SingleCombiner'
  BY DEF SingleCombiner, Combining, Swap, Goto
<1>8. Requests'
  BY DEF Requests, Queued, Waiting, Served, Swap, Goto, nodeVars
<1>. QED
  BY <1>1, <1>2, <1>3, <1>4, <1>5, <1>6, <1>7, <1>8 DEF IInv

(* The request goes into a node that no combiner serves before it is linked. *)
LEMMA AnnounceStep ==
  ASSUME NEW t \in Threads, IInv, Announce(t)
  PROVE  IInv'
<1>. TypeOK /\ Ownership /\ OwnNodes /\ Chain
     /\ CombinerPosition /\ OneGrant /\ SingleCombiner /\ Requests
  BY DEF IInv
<1>1. TypeOK'
  BY DEF TypeOK, Ownership, Held, Queued, PCs, Announce, Goto, localVars
<1>2. Ownership'
  BY DEF Ownership, Held, Queued, Announce, Goto, localVars
<1>3. OwnNodes'
  BY DEF OwnNodes, Queued, Combining, Announce, Goto, localVars
<1>4. Chain'
  BY DEF Chain, InQueue, Queued, Waiting, Successor, Announce, Goto,
    localVars
<1>5. CombinerPosition'
  BY DEF CombinerPosition, InQueue, Queued, Waiting, First, Combining,
    Successor, Announce, Goto, localVars
<1>6. OneGrant'
  BY DEF OneGrant, InQueue, Queued, Grant, Combining, Announce, Goto,
    localVars
<1>7. SingleCombiner'
  BY DEF SingleCombiner, Combining, Announce, Goto
<1>8. Requests'
  BY DEF TypeOK, Ownership, Requests, Held, Queued, Waiting, Served,
    Announce, Goto, localVars
<1>. QED
  BY <1>1, <1>2, <1>3, <1>4, <1>5, <1>6, <1>7, <1>8 DEF IInv

(* Linking leaves Successor as it was: it only becomes visible in next. *)
LEMMA LinkStep ==
  ASSUME NEW t \in Threads, IInv, Link(t)
  PROVE  IInv'
<1>. TypeOK /\ Ownership /\ OwnNodes /\ Chain
     /\ CombinerPosition /\ OneGrant /\ SingleCombiner /\ Requests
  BY DEF IInv
<1>1. TypeOK'
  BY DEF TypeOK, Ownership, Held, Queued, PCs, Link, Goto
<1>2. Ownership'
  BY DEF Ownership, Held, Queued, Link, Goto
<1>3. OwnNodes'
  BY DEF TypeOK, Ownership, OwnNodes, Held, Queued, Combining, Link, Goto
<1>4. Chain'
  BY DEF TypeOK, Ownership, Chain, Held, InQueue, Queued, Waiting,
    Successor, Link, Goto
<1>5. CombinerPosition'
  BY DEF TypeOK, Ownership, OwnNodes, CombinerPosition, Held, InQueue,
    Queued, Waiting, First, Combining, Successor, Link, Goto
<1>6. OneGrant'
  BY DEF OneGrant, InQueue, Queued, Grant, Combining, Link, Goto
<1>7. SingleCombiner'
  BY DEF SingleCombiner, Combining, Link, Goto
<1>8. Requests'
  BY DEF Requests, Queued, Waiting, Served, Link, Goto
<1>. QED
  BY <1>1, <1>2, <1>3, <1>4, <1>5, <1>6, <1>7, <1>8 DEF IInv

(* The end of the spin loop only reads. *)
LEMMA StopSpinningStep ==
  ASSUME NEW t \in Threads, IInv, StopSpinning(t)
  PROVE  IInv'
<1>. TypeOK /\ Ownership /\ OwnNodes /\ Chain
     /\ CombinerPosition /\ OneGrant /\ SingleCombiner /\ Requests
  BY DEF IInv
<1>1. TypeOK'
  BY DEF TypeOK, PCs, StopSpinning, Goto, nodeVars, localVars
<1>2. Ownership'
  BY DEF Ownership, Held, Queued, StopSpinning, Goto, localVars
<1>3. OwnNodes'
  BY DEF OwnNodes, Queued, Combining, StopSpinning, Goto, nodeVars,
    localVars
<1>4. Chain'
  BY DEF Chain, InQueue, Queued, Waiting, Successor, StopSpinning, Goto,
    nodeVars, localVars
<1>5. CombinerPosition'
  BY DEF CombinerPosition, InQueue, Queued, Waiting, First, Combining,
    Successor, StopSpinning, Goto, nodeVars, localVars
<1>6. OneGrant'
  BY DEF OneGrant, InQueue, Queued, Grant, Combining, StopSpinning, Goto,
    nodeVars, localVars
<1>7. SingleCombiner'
  BY DEF SingleCombiner, Combining, StopSpinning, Goto
<1>8. Requests'
  BY DEF Requests, Queued, Waiting, Served, StopSpinning, Goto, nodeVars,
    localVars
<1>. QED
  BY <1>1, <1>2, <1>3, <1>4, <1>5, <1>6, <1>7, <1>8 DEF IInv

(* The thread that takes the one grant is the only combiner and is first. *)
LEMMA BecomeCombinerStep ==
  ASSUME NEW t \in Threads, IInv, BecomeCombiner(t)
  PROVE  IInv'
<1>. TypeOK /\ Ownership /\ OwnNodes /\ Chain
     /\ CombinerPosition /\ OneGrant /\ SingleCombiner /\ Requests
  BY DEF IInv
<1>1. TypeOK'
  BY DEF TypeOK, PCs, BecomeCombiner, Goto, nodeVars
<1>2. Ownership'
  BY DEF Ownership, Held, Queued, BecomeCombiner, Goto
<1>3. OwnNodes'
  BY DEF OwnNodes, Queued, Combining, BecomeCombiner, Goto, nodeVars
<1>4. Chain'
  BY DEF Chain, InQueue, Queued, Waiting, Successor, BecomeCombiner, Goto,
    nodeVars
<1>5. CombinerPosition'
  BY DEF TypeOK, OwnNodes, Chain, CombinerPosition, InQueue, Queued,
    Waiting, First, Combining, Successor, BecomeCombiner, Goto, nodeVars
<1>6. OneGrant'
  BY DEF Ownership, OwnNodes, OneGrant, Held, InQueue, Queued, Grant,
    BecomeCombiner, Goto, nodeVars
<1>7. SingleCombiner'
  BY DEF Ownership, OwnNodes, OneGrant, SingleCombiner, Held, InQueue,
    Queued, Grant, Combining, BecomeCombiner, Goto
<1>8. Requests'
  BY DEF Requests, Queued, Waiting, Served, BecomeCombiner, Goto, nodeVars
<1>. QED
  BY <1>1, <1>2, <1>3, <1>4, <1>5, <1>6, <1>7, <1>8 DEF IInv

(* The successor read by the loop is behind the first node to be served. *)
LEMMA VisitStep ==
  ASSUME NEW t \in Threads, IInv, Visit(t)
  PROVE  IInv'
<1>. TypeOK /\ Ownership /\ OwnNodes /\ Chain
     /\ CombinerPosition /\ OneGrant /\ SingleCombiner /\ Requests
  BY DEF IInv
<1>1. TypeOK'
  BY HelpBoundType DEF TypeOK, OwnNodes, CombinerPosition, InQueue, First,
    PCs, Visit, Goto, nodeVars
<1>2. Ownership'
  BY DEF Ownership, Held, Queued, Visit, Goto
<1>3. OwnNodes'
  BY DEF OwnNodes, Queued, Combining, Visit, Goto, nodeVars
<1>4. Chain'
  BY DEF Chain, InQueue, Queued, Waiting, Successor, Visit, Goto, nodeVars
<1>5. CombinerPosition'
  BY DEF TypeOK, Chain, CombinerPosition, InQueue, Queued, Waiting, First,
    Combining, Successor, Visit, Goto, nodeVars
<1>6. OneGrant'
  BY DEF OneGrant, InQueue, Queued, Grant, Combining, Visit, Goto, nodeVars
<1>7. SingleCombiner'
  BY DEF SingleCombiner, Combining, Visit, Goto
<1>8. Requests'
  BY DEF Requests, Queued, Waiting, Served, Visit, Goto, nodeVars
<1>. QED
  BY <1>1, <1>2, <1>3, <1>4, <1>5, <1>6, <1>7, <1>8 DEF IInv

(* A combiner that stops has served its own request: help_bound is positive,  *)
(* and its own node was linked before it spun. *)
LEMMA StopCombiningStep ==
  ASSUME NEW t \in Threads, IInv, StopCombining(t)
  PROVE  IInv'
<1>. TypeOK /\ Ownership /\ OwnNodes /\ Chain
     /\ CombinerPosition /\ OneGrant /\ SingleCombiner /\ Requests
  BY DEF IInv
<1>1. TypeOK'
  BY DEF TypeOK, PCs, StopCombining, Goto, nodeVars, localVars
<1>2. Ownership'
  BY DEF Ownership, Held, Queued, StopCombining, Goto, localVars
<1>3. OwnNodes'
  BY DEF OwnNodes, Queued, Combining, StopCombining, Goto, nodeVars,
    localVars
<1>4. Chain'
  BY DEF Chain, InQueue, Queued, Waiting, Successor, StopCombining, Goto,
    nodeVars, localVars
<1>5. CombinerPosition'
  BY ConstantsAssumption, HelpBoundType DEF TypeOK, Ownership, Chain,
    CombinerPosition, Held, InQueue, Queued, Waiting, First, Nodes,
    Combining, Successor, StopCombining, Goto, nodeVars, localVars
<1>6. OneGrant'
  BY DEF OneGrant, InQueue, Queued, Grant, Combining, StopCombining, Goto,
    nodeVars, localVars
<1>7. SingleCombiner'
  BY DEF SingleCombiner, Combining, StopCombining, Goto
<1>8. Requests'
  BY DEF Requests, Queued, Waiting, Served, StopCombining, Goto, nodeVars,
    localVars
<1>. QED
  BY <1>1, <1>2, <1>3, <1>4, <1>5, <1>6, <1>7, <1>8 DEF IInv

(* sfunc overwrites arg_ret of the node being served and no other request. *)
LEMMA ApplyStep ==
  ASSUME NEW t \in Threads, IInv, Apply(t)
  PROVE  IInv'
<1>. TypeOK /\ Ownership /\ OwnNodes /\ Chain
     /\ CombinerPosition /\ OneGrant /\ SingleCombiner /\ Requests
  BY DEF IInv
<1>1. TypeOK'
  BY DEF TypeOK, PCs, Apply, Goto, localVars
<1>2. Ownership'
  BY DEF Ownership, Held, Queued, Apply, Goto, localVars
<1>3. OwnNodes'
  BY DEF OwnNodes, Queued, Combining, Apply, Goto, localVars
<1>4. Chain'
  BY DEF Chain, InQueue, Queued, Waiting, Successor, Apply, Goto, localVars
<1>5. CombinerPosition'
  BY DEF CombinerPosition, InQueue, Queued, Waiting, First, Combining,
    Successor, Apply, Goto, localVars
<1>6. OneGrant'
  BY DEF OneGrant, InQueue, Queued, Grant, Combining, Apply, Goto, localVars
<1>7. SingleCombiner'
  BY DEF SingleCombiner, Combining, Apply, Goto
<1>8. Requests'
  BY DEF TypeOK, Requests, Queued, Waiting, Served, Apply, Goto, localVars
<1>. QED
  BY <1>1, <1>2, <1>3, <1>4, <1>5, <1>6, <1>7, <1>8 DEF IInv

(* Setting completed moves the head of the list to be served by one. *)
LEMMA CompleteStep ==
  ASSUME NEW t \in Threads, IInv, Complete(t)
  PROVE  IInv'
<1>. TypeOK /\ Ownership /\ OwnNodes /\ Chain
     /\ CombinerPosition /\ OneGrant /\ SingleCombiner /\ Requests
  BY DEF IInv
<1>1. TypeOK'
  BY DEF TypeOK, OwnNodes, CombinerPosition, InQueue, PCs, Complete, Goto,
    localVars
<1>2. Ownership'
  BY DEF Ownership, Held, Queued, Complete, Goto, localVars
<1>3. OwnNodes'
  BY DEF OwnNodes, CombinerPosition, Queued, Combining, Complete, Goto,
    localVars
<1>4. Chain'
  BY DEF Chain, CombinerPosition, InQueue, Queued, Waiting, First,
    Successor, Complete, Goto, localVars
<1>5. CombinerPosition'
  BY DEF TypeOK, OwnNodes, Chain, CombinerPosition, SingleCombiner, InQueue,
    Queued, Waiting, First, Combining, Successor, Complete, Goto, localVars
<1>6. OneGrant'
  BY DEF OneGrant, InQueue, Queued, Grant, Combining, Complete, Goto,
    localVars
<1>7. SingleCombiner'
  BY DEF SingleCombiner, Combining, Complete, Goto
<1>8. Requests'
  BY DEF TypeOK, Ownership, Requests, Held, Queued, Waiting, Served,
    Complete, Goto, localVars
<1>. QED
  BY <1>1, <1>2, <1>3, <1>4, <1>5, <1>6, <1>7, <1>8 DEF IInv

(* Unlocking a completed node grants nothing. *)
LEMMA UnlockStep ==
  ASSUME NEW t \in Threads, IInv, Unlock(t)
  PROVE  IInv'
<1>. TypeOK /\ Ownership /\ OwnNodes /\ Chain
     /\ CombinerPosition /\ OneGrant /\ SingleCombiner /\ Requests
  BY DEF IInv
<1>1. TypeOK'
  BY DEF TypeOK, OwnNodes, CombinerPosition, InQueue, PCs, Unlock, Goto
<1>2. Ownership'
  BY DEF Ownership, Held, Queued, Unlock, Goto
<1>3. OwnNodes'
  BY DEF OwnNodes, CombinerPosition, Queued, Combining, Unlock, Goto
<1>4. Chain'
  BY DEF Chain, CombinerPosition, InQueue, Queued, Waiting, Successor,
    Unlock, Goto
<1>5. CombinerPosition'
  BY DEF TypeOK, CombinerPosition, SingleCombiner, InQueue, Queued, Waiting,
    First, Combining, Successor, Unlock, Goto
<1>6. OneGrant'
  BY DEF CombinerPosition, OneGrant, InQueue, Queued, Grant, Combining,
    Unlock, Goto
<1>7. SingleCombiner'
  BY DEF SingleCombiner, Combining, Unlock, Goto
<1>8. Requests'
  BY DEF Requests, Queued, Waiting, Served, Unlock, Goto
<1>. QED
  BY <1>1, <1>2, <1>3, <1>4, <1>5, <1>6, <1>7, <1>8 DEF IInv

(* Unlocking the first unserved node passes the grant on. *)
LEMMA ReleaseStep ==
  ASSUME NEW t \in Threads, IInv, Release(t)
  PROVE  IInv'
<1>. TypeOK /\ Ownership /\ OwnNodes /\ Chain
     /\ CombinerPosition /\ OneGrant /\ SingleCombiner /\ Requests
  BY DEF IInv
<1>1. TypeOK'
  BY DEF TypeOK, Ownership, CombinerPosition, Held, InQueue, First, PCs,
    Release, Goto, localVars
<1>2. Ownership'
  BY DEF Ownership, Held, Queued, Release, Goto, localVars
<1>3. OwnNodes'
  BY DEF Ownership, OwnNodes, CombinerPosition, Held, InQueue, Queued,
    First, Combining, Release, Goto, localVars
<1>4. Chain'
  BY DEF Chain, CombinerPosition, InQueue, Queued, Waiting, First,
    Successor, Release, Goto, localVars
<1>5. CombinerPosition'
  BY DEF TypeOK, CombinerPosition, SingleCombiner, Combining, Release, Goto
<1>6. OneGrant'
  BY DEF TypeOK, CombinerPosition, OneGrant, SingleCombiner, InQueue,
    Queued, Grant, PCs, Combining, Release, Goto, localVars
<1>7. SingleCombiner'
  BY DEF SingleCombiner, Combining, Release, Goto
<1>8. Requests'
  BY DEF Requests, Queued, Waiting, Served, Release, Goto, localVars
<1>. QED
  BY <1>1, <1>2, <1>3, <1>4, <1>5, <1>6, <1>7, <1>8 DEF IInv

(* A thread whose request has been served leaves the queue: it leaves the  *)
(* part still to be served as it is. *)
LEMMA ReturnStep ==
  ASSUME NEW t \in Threads, NEW from \in {"check", "return"}, IInv,
         completed[cur[t]], Return(t, from)
  PROVE  IInv'
<1>. TypeOK /\ Ownership /\ OwnNodes /\ Chain
     /\ CombinerPosition /\ OneGrant /\ SingleCombiner /\ Requests
  BY DEF IInv
<1>1. \A v \in Threads :
        /\ Waiting(v)' <=> Waiting(v)
        /\ Waiting(v) => Successor(v)' = Successor(v)
  BY DEF TypeOK, Queued, Waiting, Successor, Return, Goto, nodeVars
<1>2. \A n \in Nodes : ~completed[n] => (InQueue(n)' <=> InQueue(n))
  BY DEF TypeOK, Queued, InQueue, Return, Goto
<1>3. TypeOK'
  BY HelpBoundType DEF TypeOK, PCs, Return, Goto, nodeVars
<1>4. Ownership'
  BY DEF TypeOK, Ownership, OwnNodes, Held, Queued, Return, Goto
<1>5. OwnNodes'
  BY DEF TypeOK, OwnNodes, Queued, Combining, Return, Goto, nodeVars
<1>6. Chain'
  BY <1>1 DEF Chain, Waiting, InQueue, Return, nodeVars
<1>7. CombinerPosition'
  BY DEF TypeOK, OwnNodes, CombinerPosition, Queued, Waiting, First,
    Combining, Successor, InQueue, Return, Goto, nodeVars
<1>8. OneGrant'
  <2>1. \A n \in Nodes : Grant(n)' <=> Grant(n)
    BY <1>2 DEF Grant, Return, nodeVars
  <2>. QED
    BY <2>1 DEF TypeOK, OneGrant, Combining, Return, Goto
<1>9. SingleCombiner'
  BY DEF SingleCombiner, Combining, Return, Goto
<1>10. Requests'
  BY DEF TypeOK, Requests, Queued, Waiting, Served, Return, Goto, nodeVars
<1>. QED
  BY <1>3, <1>4, <1>5, <1>6, <1>7, <1>8, <1>9, <1>10 DEF IInv

(* The return of a thread that was helped. *)
LEMMA ReturnHelpedStep ==
  ASSUME NEW t \in Threads, IInv, ReturnHelped(t)
  PROVE  IInv'
  BY ReturnStep DEF ReturnHelped

(* The return of a combiner, whose own request has been served. *)
LEMMA ReturnCombinerStep ==
  ASSUME NEW t \in Threads, IInv, ReturnCombiner(t)
  PROVE  IInv'
<1>1. completed[cur[t]]
  BY DEF IInv, OwnNodes, ReturnCombiner, Return, Goto
<1>. QED
  BY <1>1, ReturnStep DEF ReturnCombiner

(* The invariant only depends on the variables of the specification. *)
LEMMA StutterStep ==
  ASSUME IInv, UNCHANGED vars
  PROVE  IInv'
<1>. TypeOK /\ Ownership /\ OwnNodes /\ Chain
     /\ CombinerPosition /\ OneGrant /\ SingleCombiner /\ Requests
  BY DEF IInv
<1>. USE DEF vars, nodeVars, localVars
<1>1. TypeOK'
  BY DEF TypeOK
<1>2. Ownership'
  BY DEF Ownership, Held, Queued
<1>3. OwnNodes'
  BY DEF OwnNodes, Queued
<1>4. Chain'
  BY DEF Chain, Waiting, Queued, InQueue, Successor
<1>5. CombinerPosition'
  BY DEF CombinerPosition, First, Waiting, Queued, InQueue, Successor
<1>6. OneGrant'
  BY DEF OneGrant, Grant, InQueue, Queued
<1>7. SingleCombiner'
  BY DEF SingleCombiner
<1>8. Requests'
  BY DEF Requests, Waiting, Queued, Served
<1>. QED
  BY <1>1, <1>2, <1>3, <1>4, <1>5, <1>6, <1>7, <1>8 DEF IInv

(* Every step preserves the invariant. *)
LEMMA NextIInv == IInv /\ [Next]_vars => IInv'
<1>. SUFFICES ASSUME IInv, [Next]_vars PROVE IInv'
  OBVIOUS
<1>1. ASSUME NEW t \in Threads, NEW a \in Args, Call(t, a) PROVE IInv'
  BY <1>1, CallStep
<1>2. ASSUME NEW t \in Threads, Step(t) PROVE IInv'
  BY <1>2, SwapStep, AnnounceStep, LinkStep, StopSpinningStep,
     ReturnHelpedStep, BecomeCombinerStep, VisitStep, StopCombiningStep,
     ApplyStep, CompleteStep, UnlockStep, ReleaseStep, ReturnCombinerStep
     DEF Step
<1>3. CASE UNCHANGED vars
  BY <1>3, StutterStep
<1>. QED
  BY <1>1, <1>2, <1>3 DEF Next

(* The invariant holds in every reachable state. *)
LEMMA IInvCorrect == Spec => []IInv
  BY InitIInv, NextIInv, PTL DEF Spec

(* The state of CC-Synch always has its type. *)
THEOREM TypeCorrect == Spec => []TypeOK
  BY IInvCorrect, PTL DEF IInv

(* However many threads call, sfunc is never run by two of them at once.    *)
THEOREM SingleCombinerHolds == Spec => []SingleCombiner
  BY IInvCorrect, PTL DEF IInv

(* Requests are served in the order of the SWAPs on Tail.                   *)
THEOREM ServedInQueueOrderHolds == Spec => []ServedInQueueOrder
<1>1. IInv => ServedInQueueOrder
  BY DEF IInv, ServedInQueueOrder, Chain, Waiting
<1>. QED
  BY <1>1, IInvCorrect, PTL

(* A combiner never touches a node that its owner may be resetting.         *)
THEOREM CombinerStaysInQueueHolds == Spec => []CombinerStaysInQueue
<1>1. IInv => CombinerStaysInQueue
  BY DEF IInv, CombinerStaysInQueue, CombinerPosition, Combining, First, InQueue
<1>. QED
  BY <1>1, IInvCorrect, PTL
-----------------------------------------------------------------------------
(* A thread's abstract operation is left alone by a step that neither takes *)
(* it in or out of the call, nor serves it, nor touches its answer.         *)
LEMMA SameAbstractOp ==
  ASSUME NEW t \in Threads,
         (pc[t] = "idle")' <=> pc[t] = "idle",
         Served(t)' <=> Served(t),
         Served(t) => arg_ret'[cur'[t]] = arg_ret[cur[t]],
         arg'[t] = arg[t]
  PROVE  AbstractOp(t)' = AbstractOp(t)
<1>1. pc[t] = "idle" => ~Served(t)
  BY DEF Served, Queued
<1>. QED
  BY <1>1 DEF AbstractOp

(* The initial states are initial states of the atomic object. *)
LEMMA InitRefinement == Init => Ob!Init
  BY DEF Init, Ob!Init, Ob!Idle, AbstractOp

(* A call of CCSynchApplyOp is a call of the atomic object. *)
LEMMA CallRefinement ==
  ASSUME NEW t \in Threads, NEW a \in Args, IInv, Call(t, a)
  PROVE  Ob!Call(t, a)
<1>. TypeOK
  BY DEF IInv
<1>1. \A u \in Threads \ {t} : AbstractOp(u)' = AbstractOp(u)
  <2>. SUFFICES ASSUME NEW u \in Threads, u # t
                PROVE  AbstractOp(u)' = AbstractOp(u)
    OBVIOUS
  <2>1. Served(u)' <=> Served(u)
    BY DEF IInv, TypeOK, Ownership, Held, Served, Queued, Call, Goto
  <2>. QED
    BY <2>1, SameAbstractOp DEF TypeOK, Call, Goto
<1>2. AbstractOp(t) = Ob!Idle
  BY DEF AbstractOp, Ob!Idle, Call, Goto
<1>3. AbstractOp(t)' = Ob!Pending(a)
  BY DEF TypeOK, AbstractOp, Ob!Pending, Served, Queued, Call, Goto
<1>. QED
  BY <1>1, <1>2, <1>3 DEF Ob!Call, Call

(* sfunc runs for the thread whose request is in the combiner's node p. *)
LEMMA ApplyRefinement ==
  ASSUME NEW t \in Threads, IInv, Apply(t)
  PROVE  \E u \in Threads : Ob!Apply(u)
<1>. TypeOK /\ Ownership /\ OwnNodes /\ CombinerPosition
     /\ SingleCombiner /\ Requests
  BY DEF IInv
<1>. pc[t] = "apply" /\ pc' = [pc EXCEPT ![t] = "complete"] /\ p[t] \in Nodes
  BY DEF Apply, Goto, CombinerPosition, InQueue, TypeOK, Ownership, Held
<1>1. PICK u \in Threads : Queued(u) /\ cur[u] = p[t]
  BY DEF CombinerPosition, InQueue
<1>2. ~completed[cur[u]] /\ pc[u] \notin {"announce", "link"}
  BY <1>1 DEF CombinerPosition, First, OwnNodes
<1>3. ~Served(u)
  BY <1>2 DEF Served, SingleCombiner, Combining
<1>4. arg_ret[cur[u]] = arg[u] /\ pid[cur[u]] = u
  BY <1>1, <1>2, <1>3 DEF Requests, Waiting
<1>5. AbstractOp(u) = Ob!Pending(arg[u])
  BY <1>1, <1>3 DEF AbstractOp, Ob!Pending, Queued
<1>6. Served(u)' /\ pc'[u] # "idle" /\ cur'[u] = p[t]
  BY <1>1 DEF TypeOK, Served, Queued, Apply, localVars
<1>7. AbstractOp(u)' = Ob!Done(Result(state, arg[u], u))
  BY <1>1, <1>4, <1>6 DEF TypeOK, AbstractOp, Ob!Done, Apply
<1>8. \A v \in Threads \ {u} : AbstractOp(v)' = AbstractOp(v)
  <2>. SUFFICES ASSUME NEW v \in Threads, v # u
                PROVE  AbstractOp(v)' = AbstractOp(v)
    OBVIOUS
  <2>1. Queued(v) => cur[v] # p[t]
    BY <1>1 DEF Ownership, Held
  <2>2. Served(v)' <=> Served(v)
    BY <2>1 DEF TypeOK, Served, Queued, Apply, localVars
  <2>3. Served(v) => arg_ret'[cur'[v]] = arg_ret[cur[v]]
    BY <2>1 DEF TypeOK, Served, Apply, localVars
  <2>. QED
    BY <2>2, <2>3, SameAbstractOp DEF TypeOK, Apply, localVars
<1>9. /\ state' = NewState(state, arg[u], u)
      /\ result' = result
  BY <1>1, <1>4 DEF Apply
<1>10. [v \in Threads |-> AbstractOp(v)]'
         = [[v \in Threads |-> AbstractOp(v)] EXCEPT
              ![u] = Ob!Done(Result(state, arg[u], u))]
  BY <1>7, <1>8
<1>11. LET op == [v \in Threads |-> AbstractOp(v)]
       IN  op[u].status = "pending" /\ op[u].arg = arg[u]
  BY <1>5 DEF Ob!Pending
<1>12. Ob!Apply(u)
  BY <1>9, <1>10, <1>11, Zenon DEF Ob!Apply
<1>. QED
  BY <1>12

(* A return gives the answer sfunc gave to the request of the thread. *)
LEMMA ReturnRefinement ==
  ASSUME NEW t \in Threads, NEW from \in {"check", "return"}, IInv,
         completed[cur[t]], Return(t, from)
  PROVE  Ob!Return(t)
<1>. TypeOK
  BY DEF IInv
<1>1. AbstractOp(t) = Ob!Done(arg_ret[cur[t]])
  BY DEF AbstractOp, Ob!Done, Served, Queued, Return, Goto
<1>2. AbstractOp(t)' = Ob!Idle
  BY DEF TypeOK, AbstractOp, Ob!Idle, Return, Goto
<1>3. \A u \in Threads \ {t} : AbstractOp(u)' = AbstractOp(u)
  <2>. SUFFICES ASSUME NEW u \in Threads, u # t
                PROVE  AbstractOp(u)' = AbstractOp(u)
    OBVIOUS
  <2>1. Served(u)' <=> Served(u)
    BY DEF TypeOK, Served, Queued, Return, Goto, nodeVars
  <2>. QED
    BY <2>1, SameAbstractOp DEF TypeOK, Return, Goto, nodeVars
<1>4. [u \in Threads |-> AbstractOp(u)]'
        = [[u \in Threads |-> AbstractOp(u)] EXCEPT ![t] = Ob!Idle]
  BY <1>2, <1>3
<1>5. state' = state /\ result' = [result EXCEPT ![t] = arg_ret[cur[t]]]
  BY DEF Return
<1>6. LET op == [u \in Threads |-> AbstractOp(u)]
      IN  op[t].status = "done" /\ op[t].ret = arg_ret[cur[t]]
  BY <1>1 DEF Ob!Done
<1>. QED
  BY <1>4, <1>5, <1>6, Zenon DEF Ob!Return

(* The steps that only move requests about are invisible to the callers. *)
LEMMA OtherStepsStutter ==
  ASSUME NEW t \in Threads, IInv,
         \/ Swap(t) \/ Announce(t) \/ Link(t) \/ StopSpinning(t)
         \/ BecomeCombiner(t) \/ Visit(t) \/ StopCombining(t)
         \/ Complete(t) \/ Unlock(t) \/ Release(t)
  PROVE  UNCHANGED Ob!vars
<1>. TypeOK /\ Ownership /\ OwnNodes /\ Chain /\ CombinerPosition
     /\ SingleCombiner
  BY DEF IInv
<1>1. UNCHANGED <<state, arg, result>>
  BY DEF Swap, Announce, Link, StopSpinning, BecomeCombiner, Visit,
     StopCombining, Complete, Unlock, Release, localVars
<1>2. \A u \in Threads : AbstractOp(u)' = AbstractOp(u)
  <2>. SUFFICES ASSUME NEW u \in Threads PROVE AbstractOp(u)' = AbstractOp(u)
    OBVIOUS
  <2>1. (pc[u] = "idle")' <=> pc[u] = "idle"
    BY DEF TypeOK, Swap, Announce, Link, StopSpinning, BecomeCombiner, Visit,
       StopCombining, Complete, Unlock, Release, Goto
  <2>2. /\ Served(u)' <=> Served(u)
        /\ Served(u) => arg_ret'[cur'[u]] = arg_ret[cur[u]]
    <3>1. CASE Swap(t)
      BY <3>1 DEF TypeOK, Chain, CombinerPosition, Served, Queued, Swap, Goto,
         nodeVars
    <3>2. CASE Announce(t)
      BY <3>2 DEF TypeOK, Ownership, OwnNodes, CombinerPosition, Held, Served,
         Queued, Announce, Goto, localVars
    <3>3. CASE Link(t)
      BY <3>3 DEF TypeOK, Served, Queued, Link, Goto
    <3>4. CASE StopSpinning(t) \/ StopCombining(t) \/ Release(t) \/ Visit(t)
      BY <3>4 DEF TypeOK, Served, Queued, StopSpinning, StopCombining, Release,
         Visit, Goto, nodeVars, localVars
    <3>5. CASE BecomeCombiner(t)
      BY <3>5 DEF TypeOK, Served, Queued, BecomeCombiner, Goto, nodeVars
    <3>6. CASE Complete(t)
      <4>1. p[t] \in Nodes /\ p' = p /\ cur' = cur
        BY <3>6 DEF TypeOK, Ownership, Held, CombinerPosition, InQueue,
           Complete, Goto, localVars
      <4>2. \A c \in Threads : pc[c] = "complete" <=> c = t
        BY <3>6 DEF SingleCombiner, Combining, Complete, Goto
      <4>3. \A n \in Nodes : completed'[n] <=> completed[n] \/ n = p[t]
        BY <3>6, <4>1 DEF TypeOK, Complete
      <4>4. Queued(u) => cur[u] \in Nodes
        BY DEF Ownership, Held
      <4>5. \A c \in Threads : pc'[c] # "complete"
        BY <3>6, <4>2 DEF TypeOK, Complete, Goto
      <4>6. Queued(u)' <=> Queued(u)
        BY <3>6 DEF TypeOK, Queued, Complete, Goto
      <4>7. Served(u)' <=> Served(u)
        BY <4>1, <4>2, <4>3, <4>4, <4>5, <4>6 DEF Served
      <4>. QED
        BY <3>6, <4>7 DEF Complete, localVars
    <3>7. CASE Unlock(t)
      BY <3>7 DEF TypeOK, Served, Queued, Unlock, Goto
    <3>. QED
      BY <3>1, <3>2, <3>3, <3>4, <3>5, <3>6, <3>7
  <2>. QED
    BY <1>1, <2>1, <2>2, SameAbstractOp
<1>. QED
  BY <1>1, <1>2 DEF Ob!vars

(* Every step is a step of the atomic object, or none. *)
LEMMA NextRefinement ==
  IInv /\ [Next]_vars => [Ob!Next]_(Ob!vars)
<1>. SUFFICES ASSUME IInv, [Next]_vars PROVE [Ob!Next]_(Ob!vars)
  OBVIOUS
<1>1. ASSUME NEW t \in Threads, NEW a \in Args, Call(t, a) PROVE Ob!Next
  BY <1>1, CallRefinement DEF Ob!Next
<1>2. ASSUME NEW t \in Threads, Step(t) PROVE Ob!Next \/ UNCHANGED Ob!vars
  <2>1. CASE Apply(t)
    BY <2>1, ApplyRefinement DEF Ob!Next
  <2>2. CASE ReturnHelped(t)
    BY <2>2, ReturnRefinement DEF ReturnHelped, Ob!Next
  <2>3. CASE ReturnCombiner(t)
    <3>1. completed[cur[t]]
      BY <2>3 DEF IInv, OwnNodes, ReturnCombiner, Return, Goto
    <3>. QED
      BY <2>3, <3>1, ReturnRefinement DEF ReturnCombiner, Ob!Next
  <2>. QED
    BY <1>2, <2>1, <2>2, <2>3, OtherStepsStutter DEF Step
<1>3. CASE UNCHANGED vars
  <2>1. \A u \in Threads : AbstractOp(u)' = AbstractOp(u)
    BY <1>3 DEF vars, nodeVars, localVars, AbstractOp, Served, Queued
  <2>. QED
    BY <1>3, <2>1 DEF vars, Ob!vars
<1>. QED
  BY <1>1, <1>2, <1>3 DEF Next

(* CC-Synch is linearizable, whatever sfunc is: CCSynchApplyOp is an        *)
(* atomic application of sfunc, once for each call, answered to its caller. *)
THEOREM Linearizable == Spec => ImplementsAtomicObject
  BY InitRefinement, NextRefinement, IInvCorrect, PTL
     DEF Spec, ImplementsAtomicObject, Ob!Spec

-----------------------------------------------------------------------------
(*                               Osci                                       *)

(* The node a fiber opened last, and the one it opens next.                 *)
LastNode(f) == <<f, 1 - o_toggle[f]>>
NextNode(f) == <<f, o_toggle[f]>>

(* Its request has not been served.                                         *)
Pending(f) == o_pc[f] # "out" /\ ~O!own(f).completed

(* It combines, or may as soon as it stops spinning.                        *)
Granted(f) == o_pc[f] \in O!Combining \/ (Pending(f) /\ ~O!own(f).locked)

OsciPCs == {"out", "release", "swap", "link", "wait", "return"} \cup O!Combining

OsciLocals ==
  [cur : O!Nodes \cup {NULL}, pred : O!Nodes \cup {NULL}, p : O!Nodes \cup {NULL},
   i : Nat, counter : Nat]

OsciType ==
  /\ o_tail \in O!Nodes \cup {NULL}
  /\ o_current_node \in [O!Groups -> O!Nodes \cup {NULL}]
  /\ o_next \in [O!Nodes -> O!Nodes \cup {NULL}]
  /\ o_pc \in [O!Fibers -> OsciPCs]
  /\ o_toggle \in [O!Fibers -> {0, 1}]
  /\ o_my \in [O!Fibers -> OsciLocals]
  /\ DOMAIN o_result = O!Fibers

(* The records of the nodes.                                                *)
RecType(rec) ==
  /\ DOMAIN rec = O!Nodes
  /\ \A n \in O!Nodes : DOMAIN rec[n] = O!Offsets
  /\ \A n \in O!Nodes, o \in O!Offsets :
       /\ DOMAIN rec[n][o] = {"arg_ret", "locked", "completed"}
       /\ rec[n][o].locked \in BOOLEAN /\ rec[n][o].completed \in BOOLEAN

(* What a fiber knows. *)
OwnFiber(f) ==
  /\ o_pc[f] = "out" => o_my[f] = O!Fresh
  /\ o_pc[f] # "out" => O!cur(f) \in O!Nodes /\ O!group(O!cur(f)[1]) = O!group(f)
  /\ o_pc[f] \in {"release", "swap", "link"} =>
       O!cur(f) = LastNode(f) /\ Pending(f) /\ O!own(f).locked
  /\ o_pc[f] \in {"release", "swap"} => o_next[O!cur(f)] = NULL
  /\ o_pc[f] = "release" => o_current_node[O!group(f)] = O!cur(f)
  /\ o_pc[f] = "return" => ~Pending(f)
  /\ o_pc[f] = "link" <=> o_my[f].pred # NULL
  /\ o_pc[f] \notin {"combine", "unlock"} => o_my[f].i = 0

OwnFibers == \A f \in O!Fibers : OwnFiber(f)

(* A node at a combining point was put there by its fiber.                  *)
CombiningPoints ==
  \A g \in O!Groups :
    o_current_node[g] # NULL =>
      /\ O!group(o_current_node[g][1]) = g
      /\ o_pc[o_current_node[g][1]] = "release"

(* A request not served is that of a fiber in a call.                       *)
Unserved ==
  \A n \in O!Nodes, o \in O!Offsets :
    ~o_rec[n][o].completed =>
      \E f \in O!Fibers : O!offset(f) = o /\ o_pc[f] # "out" /\ O!cur(f) = n

(* What a combiner knows of p and of its own request.                       *)
Position(f) ==
  o_pc[f] \in O!Combining =>
    /\ o_my[f].p \in O!Nodes
    /\ \A o \in O!Offsets :
         (o < o_my[f].i \/ o_pc[f] \notin {"combine", "unlock"}) => o_rec[o_my[f].p][o].completed
    /\ o_pc[f] = "unlock" =>
         o_my[f].i \in O!Offsets /\ o_rec[o_my[f].p][o_my[f].i].completed
    /\ o_pc[f] \in {"more", "pass"} => o_next[o_my[f].p] # NULL
    /\ Pending(f) => o_my[f].p = O!cur(f)

OsciPosition == \A f \in O!Fibers : Position(f)

OneIsGranted == \A f, g \in O!Fibers : Granted(f) /\ Granted(g) => f = g

(* The fiber that opened the node n waits in it.                            *)
Opener(n) ==
  LET f == n[1]
  IN  n = LastNode(f) /\ o_pc[f] \in {"link", "wait"} /\ O!cur(f) = n /\ Pending(f)

(* The nodes of all groups are a queue, as in DSM-Synch: q[lo] is the first, *)
(* and the node p of the combiner if there is one; q[hi] is the tail.       *)
QShape(q, lo, hi) ==
  /\ lo \in Nat \ {0} /\ hi \in Nat /\ lo <= hi + 1
  /\ o_tail = IF lo > hi THEN NULL ELSE q[hi]
  /\ \A i \in lo .. hi : q[i] \in O!Nodes
  /\ \A i, j \in lo .. hi : q[i] = q[j] => i = j
  /\ lo <= hi => o_next[q[hi]] = NULL

(* A node behind the first one has been linked, or is about to be.          *)
QLinks(q, lo, hi) ==
  \A i \in lo .. hi : i > lo =>
    /\ Opener(q[i])
    /\ IF o_pc[q[i][1]] = "link" THEN o_my[q[i][1]].pred = q[i - 1] /\ o_next[q[i - 1]] = NULL
       ELSE o_next[q[i - 1]] = q[i]

(* The fiber that opened the first node may have opened its other one       *)
(* since, which is then not served yet.                                     *)
QFirst(q, lo, hi) ==
  lo <= hi =>
    /\ q[lo] # LastNode(q[lo][1]) => Pending(q[lo][1]) /\ O!cur(q[lo][1]) = LastNode(q[lo][1])
    /\ \A f \in O!Fibers : o_pc[f] \in {"release", "swap", "link"} => O!cur(f) # q[lo]

(* The fiber that opened the node n is yet to swap it into Tail.            *)
Unswapped(n) == o_pc[n[1]] \in {"release", "swap"} /\ O!cur(n[1]) = n

QPlaced(q, lo, hi) ==
  \A f \in O!Fibers : Pending(f) =>
    \E n \in O!Nodes : n = O!cur(f) /\ (Unswapped(n) \/ \E i \in lo .. hi : q[i] = n)

QGranted(q, lo, hi) ==
  \A f \in O!Fibers : Granted(f) =>
    /\ lo <= hi
    /\ o_pc[f] \in O!Combining => o_my[f].p = q[lo]
    /\ o_pc[f] \notin O!Combining => O!cur(f) = q[lo]

NodeQueue(q, lo, hi) ==
  /\ QShape(q, lo, hi) /\ QLinks(q, lo, hi) /\ QFirst(q, lo, hi)
  /\ QPlaced(q, lo, hi) /\ QGranted(q, lo, hi)

OsciInv ==
  /\ OsciType /\ RecType(o_rec) /\ OwnFibers /\ CombiningPoints /\ Unserved
  /\ OsciPosition /\ OneIsGranted
  /\ \E q, lo, hi : NodeQueue(q, lo, hi)

-----------------------------------------------------------------------------
(* What the assumption says of fibers, groups and nodes.                    *)
LEMMA OsciConstants ==
  /\ fibers_per_thread \in Nat \ {0} /\ O!Fibers \subseteq Nat /\ NULL \notin O!Nodes
  /\ O!Offsets \subseteq Nat /\ 0 \in O!Offsets
  /\ \A f \in O!Fibers :
       /\ O!group(f) \in O!Groups /\ O!offset(f) \in O!Offsets
       /\ f = (O!group(f) * fibers_per_thread) + O!offset(f)
  /\ \A f, g \in O!Fibers : O!group(f) = O!group(g) /\ O!offset(f) = O!offset(g) => f = g
  /\ \A n \in O!Nodes : n[1] \in O!Fibers /\ n[2] \in {0, 1}
<1>1. /\ fibers_per_thread \in Nat \ {0} /\ O!Fibers \subseteq Nat /\ NULL \notin O!Nodes
      /\ O!Offsets \subseteq Nat /\ 0 \in O!Offsets
  BY MCAssumption DEF O!ConstantsAssumption, O!Fibers, O!Offsets
<1>2. \A n \in Nat \ {0}, x \in Nat : x % n \in 0 .. n - 1 /\ x = ((x \div n) * n) + (x % n)
  BY SMT
<1>3. \A f \in O!Fibers :
        /\ O!group(f) \in O!Groups /\ O!offset(f) \in O!Offsets
        /\ f = (O!group(f) * fibers_per_thread) + O!offset(f)
  BY <1>1, <1>2 DEF O!Groups, O!Offsets, O!offset, O!group
<1>4. \A n \in O!Nodes : n[1] \in O!Fibers /\ n[2] \in {0, 1}
  BY DEF O!Nodes
<1>5. \A f, g \in O!Fibers : O!group(f) = O!group(g) /\ O!offset(f) = O!offset(g) => f = g
  BY <1>3
<1>. QED
  BY <1>1, <1>3, <1>4, <1>5

(* The two nodes of a fiber. *)
LEMMA TwoNodes ==
  ASSUME OsciType
  PROVE  /\ \A f \in O!Fibers :
              /\ LastNode(f) \in O!Nodes /\ NextNode(f) \in O!Nodes /\ LastNode(f) # NextNode(f)
              /\ LastNode(f)[1] = f /\ NextNode(f)[1] = f
         /\ \A n \in O!Nodes : n = LastNode(n[1]) \/ n = NextNode(n[1])
<1>1. \A f \in O!Fibers : o_toggle[f] \in {0, 1}
  BY DEF OsciType
<1>2. \A f \in O!Fibers : 1 - o_toggle[f] \in {0, 1} /\ 1 - o_toggle[f] # o_toggle[f]
  BY <1>1
<1>3. \A f \in O!Fibers :
        /\ LastNode(f) \in O!Nodes /\ NextNode(f) \in O!Nodes /\ LastNode(f) # NextNode(f)
        /\ LastNode(f)[1] = f /\ NextNode(f)[1] = f
  BY <1>1, <1>2 DEF LastNode, NextNode, O!Nodes
<1>4. ASSUME NEW n \in O!Nodes PROVE n = LastNode(n[1]) \/ n = NextNode(n[1])
  <2>1. n[1] \in O!Fibers /\ n[2] \in {0, 1} /\ n = <<n[1], n[2]>>
    BY DEF O!Nodes
  <2>2. n[2] = o_toggle[n[1]] \/ n[2] = 1 - o_toggle[n[1]]
    BY <2>1, <1>1
  <2>. QED
    BY <2>1, <2>2 DEF LastNode, NextNode
<1>. QED
  BY <1>3, <1>4

(* What is written to a record.                                             *)
LEMMA WriteRecord ==
  ASSUME RecType(o_rec), NEW n \in O!Nodes, NEW o \in O!Offsets, NEW r,
         DOMAIN r = {"arg_ret", "locked", "completed"},
         r.locked \in BOOLEAN, r.completed \in BOOLEAN,
         o_rec' = [o_rec EXCEPT ![n][o] = r]
  PROVE  /\ RecType(o_rec') /\ o_rec'[n][o] = r
         /\ \A m \in O!Nodes, x \in O!Offsets : m # n \/ x # o => o_rec'[m][x] = o_rec[m][x]
<1>1. o_rec'[n][o] = r
  BY DEF RecType
<1>2. \A m \in O!Nodes, x \in O!Offsets : m # n \/ x # o => o_rec'[m][x] = o_rec[m][x]
  BY DEF RecType
<1>3. DOMAIN o_rec' = O!Nodes /\ \A m \in O!Nodes : DOMAIN o_rec'[m] = O!Offsets
  BY DEF RecType
<1>. QED
  BY <1>1, <1>2, <1>3 DEF RecType

(* A request is written to a record.                                        *)
LEMMA WriteRequest ==
  ASSUME RecType(o_rec), NEW n \in O!Nodes, NEW o \in O!Offsets, NEW a,
         o_rec' = [o_rec EXCEPT ![n][o] = [arg_ret |-> a, locked |-> TRUE, completed |-> FALSE]]
  PROVE  /\ RecType(o_rec') /\ o_rec'[n][o].locked /\ ~o_rec'[n][o].completed
         /\ \A m \in O!Nodes, x \in O!Offsets : m # n \/ x # o => o_rec'[m][x] = o_rec[m][x]
<1>1. /\ DOMAIN o_rec'[n][o] = {"arg_ret", "locked", "completed"}
      /\ o_rec'[n][o].locked = TRUE /\ o_rec'[n][o].completed = FALSE
  BY DEF RecType
<1>2. \A m \in O!Nodes, x \in O!Offsets : m # n \/ x # o => o_rec'[m][x] = o_rec[m][x]
  BY DEF RecType
<1>3. DOMAIN o_rec' = O!Nodes /\ \A m \in O!Nodes : DOMAIN o_rec'[m] = O!Offsets
  BY DEF RecType
<1>4. RecType(o_rec')
  <2>. SUFFICES ASSUME NEW m \in O!Nodes, NEW x \in O!Offsets
       PROVE /\ DOMAIN o_rec'[m][x] = {"arg_ret", "locked", "completed"}
             /\ o_rec'[m][x].locked \in BOOLEAN /\ o_rec'[m][x].completed \in BOOLEAN
    BY <1>3 DEF RecType
  <2>1. CASE m = n /\ x = o
    BY <2>1, <1>1
  <2>2. CASE m # n \/ x # o
    <3>1. o_rec'[m][x] = o_rec[m][x]
      BY <2>2, <1>2
    <3>. QED
      BY <3>1 DEF RecType
  <2>. QED
    BY <2>1, <2>2
<1>. QED
  BY <1>1, <1>2, <1>4

(* The record of a fiber is nobody else's.                                  *)
LEMMA OwnSame ==
  ASSUME OwnFibers, NEW n \in O!Nodes, NEW f \in O!Fibers, O!group(n[1]) = O!group(f),
         \A m \in O!Nodes, x \in O!Offsets :
            m # n \/ x # O!offset(f) => o_rec'[m][x] = o_rec[m][x],
         NEW h \in O!Fibers, h # f, o_my'[h].cur = o_my[h].cur, o_pc[h] # "out"
  PROVE  O!own(h)' = O!own(h)
<1>1. O!cur(h) \in O!Nodes /\ O!group(O!cur(h)[1]) = O!group(h) /\ O!offset(h) \in O!Offsets
  BY OsciConstants DEF OwnFibers, OwnFiber
<1>2. O!cur(h) # n \/ O!offset(h) # O!offset(f)
  BY <1>1, OsciConstants
<1>3. O!offset(h)' = O!offset(h) /\ O!cur(h)' = O!cur(h)
  BY DEF O!offset, O!cur
<1>4. o_rec'[O!cur(h)][O!offset(h)] = o_rec[O!cur(h)][O!offset(h)]
  BY <1>1, <1>2
<1>5. O!own(h)' = o_rec'[O!cur(h)'][O!offset(h)'] /\ O!own(h) = o_rec[O!cur(h)][O!offset(h)]
  BY DEF O!own
<1>. QED
  BY <1>3, <1>4, <1>5

(* OsciStructInit: no node is in the queue, and no fiber in a call.         *)
LEMMA InitOsci == O!Init => OsciInv
<1>. SUFFICES ASSUME O!Init PROVE OsciInv
  OBVIOUS
<1>1. /\ o_tail = NULL /\ o_current_node = [g \in O!Groups |-> NULL]
      /\ o_next = [n \in O!Nodes |-> NULL]
      /\ o_rec = [n \in O!Nodes |-> [o \in O!Offsets |-> O!Unused]]
      /\ o_pc = [f \in O!Fibers |-> "out"] /\ o_toggle = [f \in O!Fibers |-> 0]
      /\ o_my = [f \in O!Fibers |-> O!Fresh] /\ o_result = [f \in O!Fibers |-> NULL]
  BY DEF O!Init
<1>2. OsciType
  BY <1>1 DEF OsciType, OsciPCs, OsciLocals, O!Fresh
<1>3. RecType(o_rec)
  BY <1>1 DEF RecType, O!Unused
<1>4. \A f \in O!Fibers : o_pc[f] = "out" /\ ~ Pending(f) /\ ~ Granted(f) /\ o_my[f] = O!Fresh
  BY <1>1 DEF Pending, Granted, O!Combining
<1>5. \A n \in O!Nodes, o \in O!Offsets : o_rec[n][o].completed
  BY <1>1 DEF O!Unused
<1>6. OwnFibers
  BY <1>4 DEF OwnFibers, OwnFiber, O!Fresh
<1>7. CombiningPoints /\ Unserved /\ OsciPosition /\ OneIsGranted
  BY <1>1, <1>4, <1>5 DEF CombiningPoints, Unserved, OsciPosition, Position,
     OneIsGranted,
     O!Combining
<1>8. NodeQueue(<<>>, 1, 0)
  BY <1>1, <1>4 DEF NodeQueue, QShape, QLinks, QFirst, QPlaced, QGranted
<1>. QED
  BY <1>2, <1>3, <1>6, <1>7, <1>8 DEF OsciInv
-----------------------------------------------------------------------------
(* A step of f leaves what the other fibers know alone.                     *)
Alone(f) == \A h \in O!Fibers : h # f => o_pc'[h] = o_pc[h] /\ o_my'[h] = o_my[h]

(* Its cur, and its record if that is not written, are as they were.        *)
LEMMA OthersSame ==
  ASSUME NEW f \in O!Fibers, Alone(f),
         \A h \in O!Fibers : h # f /\ o_pc[h] # "out" => O!own(h)' = O!own(h)
  PROVE  \A h \in O!Fibers : h # f =>
           /\ O!cur(h)' = O!cur(h) /\ Pending(h)' = Pending(h) /\ Granted(h)' = Granted(h)
<1>. SUFFICES ASSUME NEW h \in O!Fibers, h # f
     PROVE /\ O!cur(h)' = O!cur(h) /\ Pending(h)' = Pending(h) /\ Granted(h)' = Granted(h)
  OBVIOUS
<1>1. o_pc'[h] = o_pc[h] /\ o_my'[h] = o_my[h]
  BY DEF Alone
<1>2. O!cur(h)' = O!cur(h)
  BY <1>1 DEF O!cur
<1>3. Pending(h)' = (o_pc'[h] # "out" /\ ~O!own(h)'.completed)
  BY DEF Pending
<1>4. Pending(h)' = Pending(h)
  BY <1>1, <1>3 DEF Pending
<1>5. Granted(h)' = (o_pc'[h] \in O!Combining \/ (Pending(h)' /\ ~O!own(h)'.locked))
  BY DEF Granted, O!Combining
<1>6. Granted(h)' = Granted(h)
  BY <1>1, <1>4, <1>5 DEF Granted, Pending
<1>. QED
  BY <1>2, <1>4, <1>6

(* Two fibers of a call do not have the same record.                        *)
LEMMA RecordOwner ==
  ASSUME OwnFibers, NEW h \in O!Fibers, NEW w \in O!Fibers, o_pc[h] # "out", o_pc[w] # "out",
         O!cur(h) = O!cur(w), O!offset(h) = O!offset(w)
  PROVE  h = w
<1>1. O!group(h) = O!group(w)
  BY DEF OwnFibers, OwnFiber
<1>. QED
  BY <1>1, OsciConstants

(* The first record of a node that waits.                                   *)
LEMMA FirstFromIs ==
  ASSUME NEW n \in O!Nodes, NEW i \in Nat, O!AnyFrom(n, i)
  PROVE  /\ O!FirstFrom(n, i) \in O!Offsets /\ O!FirstFrom(n, i) >= i
         /\ ~o_rec[n][O!FirstFrom(n, i)].completed
         /\ \A k \in i .. O!FirstFrom(n, i) - 1 : o_rec[n][k].completed
<1>. DEFINE T == {o \in O!Offsets : o >= i /\ ~o_rec[n][o].completed}
<1>1. T \subseteq Nat /\ T # {}
  BY OsciConstants DEF O!AnyFrom
<1>. HIDE DEF T
<1>2. PICK x \in T : \A y \in T : ~(<<y, x>> \in OpToRel(<, Nat))
  BY <1>1, NatLessThanWellFounded, WFMin
<1>3. \A y \in T : ~(y < x)
  BY <1>1, <1>2 DEF OpToRel
<1>4. \A k \in i .. x - 1 : o_rec[n][k].completed
  <2>. SUFFICES ASSUME NEW k \in i .. x - 1, ~o_rec[n][k].completed PROVE FALSE
    OBVIOUS
  <2>1. x \in Nat /\ x \in O!Offsets
    BY <1>1 DEF T
  <2>2. k \in O!Offsets /\ k >= i /\ k < x
    BY <2>1, OsciConstants DEF O!Offsets
  <2>. QED
    BY <2>2, <1>3 DEF T
<1>5. /\ x \in O!Offsets /\ x >= i /\ ~o_rec[n][x].completed
      /\ \A k \in i .. x - 1 : o_rec[n][k].completed
  BY <1>4 DEF T
<1>. QED
  BY <1>5 DEF O!FirstFrom

-----------------------------------------------------------------------------
(* A combiner that stays in the loop, or behind it, with the same node.     *)
LEMMA OsciCombinerStep ==
  ASSUME OsciInv, NEW f \in O!Fibers, o_pc[f] \in O!Combining, o_pc'[f] \in O!Combining,
         Alone(f), OsciType', RecType(o_rec'),
         UNCHANGED <<o_tail, o_current_node, o_next, o_toggle>>,
         o_my'[f].cur = o_my[f].cur, o_my'[f].pred = o_my[f].pred, o_my'[f].p = o_my[f].p,
         o_pc'[f] \notin {"combine", "unlock"} => o_my'[f].i = 0,
         \A o \in O!Offsets :
           (o < o_my'[f].i \/ o_pc'[f] \notin {"combine", "unlock"}) =>
              o_rec'[o_my[f].p][o].completed,
         o_pc'[f] = "unlock" =>
           o_my'[f].i \in O!Offsets /\ o_rec'[o_my[f].p][o_my'[f].i].completed,
         o_pc'[f] \in {"more", "pass"} => o_next[o_my[f].p] # NULL,
         \A n \in O!Nodes, o \in O!Offsets :
           /\ o_rec[n][o].completed => o_rec'[n][o].completed
           /\ n # o_my[f].p => o_rec'[n][o] = o_rec[n][o]
           /\ ~o_rec'[n][o].completed => o_rec'[n][o] = o_rec[n][o]
  PROVE  OsciInv'
<1>1. OsciType /\ RecType(o_rec) /\ OwnFibers /\ CombiningPoints /\ Unserved /\ OsciPosition
      /\ OneIsGranted
  BY DEF OsciInv
<1>2. PICK q, lo, hi : NodeQueue(q, lo, hi)
  BY DEF OsciInv
<1>3. \A h \in O!Fibers : h # f => o_pc'[h] = o_pc[h] /\ o_my'[h] = o_my[h]
  BY DEF Alone
<1>4. \A h \in O!Fibers : O!cur(h)' = O!cur(h)
  BY <1>3 DEF O!cur
<1>5. \A h \in O!Fibers : o_pc[h] # "out" => O!cur(h) \in O!Nodes /\ O!offset(h) \in O!Offsets
  BY <1>1, OsciConstants DEF OwnFibers, OwnFiber
<1>6. \A h \in O!Fibers : (o_pc'[h] = "out" <=> o_pc[h] = "out")
                          /\ (o_pc'[h] \in O!Combining <=> o_pc[h] \in O!Combining)
  BY <1>3 DEF O!Combining
<1>7. ASSUME NEW h \in O!Fibers, o_pc[h] # "out"
      PROVE  /\ O!own(h)' = o_rec'[O!cur(h)][O!offset(h)]
             /\ O!own(h) = o_rec[O!cur(h)][O!offset(h)]
  BY <1>4 DEF O!own, O!offset
<1>8. ASSUME NEW h \in O!Fibers
      PROVE  Pending(h)' = (o_pc[h] # "out" /\ ~o_rec'[O!cur(h)][O!offset(h)].completed)
  BY <1>6, <1>7 DEF Pending
<1>9. ASSUME NEW h \in O!Fibers, Pending(h)'
      PROVE  Pending(h) /\ O!own(h)' = O!own(h)
  <2>1. o_pc[h] # "out" /\ ~o_rec'[O!cur(h)][O!offset(h)].completed
    BY <1>8, <1>9
  <2>2. o_rec'[O!cur(h)][O!offset(h)] = o_rec[O!cur(h)][O!offset(h)]
    BY <2>1, <1>5
  <2>. QED
    BY <2>1, <2>2, <1>7 DEF Pending
<1>10. ASSUME NEW h \in O!Fibers, Pending(h), O!cur(h) # o_my[f].p
       PROVE  Pending(h)' /\ O!own(h)' = O!own(h)
  <2>1. o_pc[h] # "out" /\ ~O!own(h).completed
    BY <1>10 DEF Pending
  <2>2. o_rec'[O!cur(h)][O!offset(h)] = o_rec[O!cur(h)][O!offset(h)]
    BY <2>1, <1>5, <1>10
  <2>. QED
    BY <2>1, <2>2, <1>7, <1>8
<1>11. ASSUME NEW h \in O!Fibers, Granted(h)' PROVE Granted(h)
  <2>1. Granted(h)' = (o_pc'[h] \in O!Combining \/ (Pending(h)' /\ ~O!own(h)'.locked))
    BY DEF Granted, O!Combining
  <2>2. CASE o_pc'[h] \in O!Combining
    BY <2>2, <1>6 DEF Granted
  <2>3. CASE Pending(h)' /\ ~O!own(h)'.locked
    BY <2>3, <1>9 DEF Granted
  <2>. QED
    BY <2>1, <2>2, <2>3, <1>11
<1>12. /\ QShape(q, lo, hi) /\ QLinks(q, lo, hi) /\ QFirst(q, lo, hi)
       /\ QPlaced(q, lo, hi) /\ QGranted(q, lo, hi)
  BY <1>2 DEF NodeQueue
<1>13. Granted(f) /\ lo <= hi /\ o_my[f].p = q[lo] /\ q[lo] \in O!Nodes
  BY <1>12 DEF QGranted, Granted, QShape
<1>14. \A h \in O!Fibers : LastNode(h)' = LastNode(h)
  BY DEF LastNode
<1>15. OwnFibers'
  <2>. SUFFICES ASSUME NEW h \in O!Fibers
       PROVE /\ o_pc'[h] = "out" => o_my'[h] = O!Fresh
             /\ o_pc'[h] # "out" => O!cur(h)' \in O!Nodes /\ O!group(O!cur(h)'[1]) = O!group(h)
             /\ o_pc'[h] \in {"release", "swap", "link"} =>
                  O!cur(h)' = LastNode(h)' /\ Pending(h)' /\ O!own(h)'.locked
             /\ o_pc'[h] \in {"release", "swap"} => o_next'[O!cur(h)'] = NULL
             /\ o_pc'[h] = "release" => o_current_node'[O!group(h)] = O!cur(h)'
             /\ o_pc'[h] = "return" => ~Pending(h)'
             /\ o_pc'[h] = "link" <=> o_my'[h].pred # NULL
             /\ o_pc'[h] \notin {"combine", "unlock"} => o_my'[h].i = 0
    BY DEF OwnFibers, OwnFiber, O!group, O!Fibers, O!Fresh
  <2>1. CASE h = f
    BY <2>1, <1>1, <1>4 DEF OwnFibers, OwnFiber, O!Combining
  <2>2. CASE h # f
    <3>1. o_pc'[h] = o_pc[h] /\ o_my'[h] = o_my[h] /\ O!cur(h)' = O!cur(h)
          /\ LastNode(h)' = LastNode(h)
      BY <2>2, <1>3, <1>4, <1>14
    <3>2. o_pc[h] \in {"release", "swap", "link"} => Pending(h)' /\ O!own(h)' = O!own(h)
      <4>1. o_pc[h] \in {"release", "swap", "link"} => Pending(h) /\ O!cur(h) # q[lo]
        BY <1>1, <1>12, <1>13 DEF OwnFibers, OwnFiber, QFirst
      <4>. QED
        BY <4>1, <1>10, <1>13
    <3>3. o_pc[h] = "return" => ~Pending(h)'
      BY <1>1, <1>9 DEF OwnFibers, OwnFiber
    <3>. QED
      BY <3>1, <3>2, <3>3, <1>1 DEF OwnFibers, OwnFiber
  <2>. QED
    BY <2>1, <2>2
<1>16. CombiningPoints'
  <2>1. \A h \in O!Fibers : o_pc[h] = "release" => o_pc'[h] = "release"
    BY <1>3 DEF O!Combining
  <2>2. \A g \in O!Groups : o_current_node[g] \in O!Nodes \cup {NULL}
    BY <1>1 DEF OsciType
  <2>. QED
    BY <1>1, <2>1, <2>2, OsciConstants DEF CombiningPoints, O!group, O!Groups,
       O!Fibers
<1>17. Unserved'
  <2>. SUFFICES ASSUME NEW n \in O!Nodes, NEW o \in O!Offsets, ~o_rec'[n][o].completed
       PROVE \E h \in O!Fibers : O!offset(h) = o /\ o_pc'[h] # "out" /\ O!cur(h)' = n
    BY DEF Unserved, O!offset, O!Fibers, O!Nodes, O!Offsets
  <2>1. PICK h \in O!Fibers : O!offset(h) = o /\ o_pc[h] # "out" /\ O!cur(h) = n
    BY <1>1 DEF Unserved
  <2>. QED
    BY <2>1, <1>4, <1>6
<1>18. OsciPosition'
  <2>. SUFFICES ASSUME NEW h \in O!Fibers PROVE Position(h)'
    BY DEF OsciPosition, O!Fibers
  <2>1. CASE h # f
    <3>1. o_pc'[h] \notin O!Combining
      BY <2>1, <1>1, <1>6, <1>13 DEF Granted, OneIsGranted
    <3>. QED
      BY <3>1 DEF Position, O!Combining
  <2>2. CASE h = f
    <3>1. Pending(f)' => o_my'[f].p = O!cur(f)'
      BY <1>1, <1>4, <1>9 DEF OsciPosition, Position
    <3>2. Position(f)'
      BY <3>1, <1>13 DEF Position, O!Combining, O!Offsets, O!Nodes
    <3>. QED
      BY <2>2, <3>2
  <2>. QED
    BY <2>1, <2>2
<1>19. OneIsGranted'
  BY <1>1, <1>11 DEF OneIsGranted, O!Fibers
<1>20. QShape(q, lo, hi)'
  BY <1>12 DEF QShape, O!Nodes
<1>21. QLinks(q, lo, hi)'
  <2>. SUFFICES ASSUME NEW i \in lo .. hi, i > lo
       PROVE /\ Opener(q[i])'
             /\ IF o_pc'[q[i][1]] = "link"
                THEN o_my'[q[i][1]].pred = q[i - 1] /\ o_next'[q[i - 1]] = NULL
                ELSE o_next'[q[i - 1]] = q[i]
    BY DEF QLinks
  <2>1. Opener(q[i]) /\ q[i] \in O!Nodes /\ q[i] # q[lo]
    BY <1>12, <1>13 DEF QLinks, QShape
  <2>2. q[i][1] \in O!Fibers /\ O!cur(q[i][1]) = q[i] /\ Pending(q[i][1])
        /\ q[i] = LastNode(q[i][1]) /\ o_pc[q[i][1]] \in {"link", "wait"}
    BY <2>1, OsciConstants DEF Opener
  <2>3. q[i][1] # f
    BY <2>2 DEF O!Combining
  <2>4. PICK w \in O!Fibers : w = q[i][1]
    BY <2>2
  <2>5. Pending(w)' /\ O!cur(w)' = q[i] /\ o_pc'[w] = o_pc[w] /\ o_my'[w] = o_my[w]
        /\ LastNode(w)' = q[i]
    BY <2>1, <2>2, <2>3, <2>4, <1>3, <1>4, <1>10, <1>13, <1>14
  <2>6. Opener(q[i])' = (q[i] = LastNode(w)' /\ o_pc'[w] \in {"link", "wait"} /\ O!cur(w)' = q[i]
                         /\ Pending(w)')
    BY <2>4 DEF Opener
  <2>7. IF o_pc[w] = "link" THEN o_my[w].pred = q[i - 1] /\ o_next[q[i - 1]] = NULL
        ELSE o_next[q[i - 1]] = q[i]
    BY <1>12, <2>4 DEF QLinks
  <2>. QED
    BY <2>2, <2>4, <2>5, <2>6, <2>7
<1>22. QFirst(q, lo, hi)'
  <2>1. PICK w \in O!Fibers : w = q[lo][1]
    BY <1>13, OsciConstants
  <2>2. q[lo] # LastNode(w) => Pending(w) /\ O!cur(w) = LastNode(w)
    BY <2>1, <1>12, <1>13 DEF QFirst
  <2>3. q[lo] # LastNode(w)' => Pending(w)' /\ O!cur(w)' = LastNode(w)'
    BY <2>2, <1>4, <1>10, <1>13, <1>14
  <2>4. \A h \in O!Fibers : o_pc'[h] \in {"release", "swap", "link"} => O!cur(h)' # q[lo]
    <3>1. \A h \in O!Fibers : o_pc'[h] \in {"release", "swap", "link"} => o_pc'[h] = o_pc[h]
      BY <1>3 DEF O!Combining
    <3>. QED
      BY <3>1, <1>4, <1>12, <1>13 DEF QFirst
  <2>. QED
    BY <2>1, <2>3, <2>4 DEF QFirst, O!Fibers
<1>23. QPlaced(q, lo, hi)'
  <2>. SUFFICES ASSUME NEW h \in O!Fibers, Pending(h)'
       PROVE \E n \in O!Nodes :
               n = O!cur(h)' /\ (Unswapped(n)' \/ \E i \in lo .. hi : q[i] = n)
    BY DEF QPlaced, O!Fibers, O!Nodes
  <2>1. PICK n \in O!Nodes :
          n = O!cur(h) /\ (Unswapped(n) \/ \E i \in lo .. hi : q[i] = n)
    BY <1>9, <1>12 DEF QPlaced
  <2>2. PICK w \in O!Fibers : w = n[1]
    BY OsciConstants
  <2>3. Unswapped(n) => Unswapped(n)'
    <3>1. Unswapped(n) = (o_pc[w] \in {"release", "swap"} /\ O!cur(w) = n)
      BY <2>2 DEF Unswapped
    <3>2. Unswapped(n)' = (o_pc'[w] \in {"release", "swap"} /\ O!cur(w)' = n)
      BY <2>2 DEF Unswapped
    <3>3. o_pc[w] \in {"release", "swap"} => o_pc'[w] = o_pc[w]
      BY <1>3 DEF O!Combining
    <3>. QED
      BY <3>1, <3>2, <3>3, <1>4
  <2>. QED
    BY <2>1, <2>3, <1>4
<1>24. QGranted(q, lo, hi)'
  <2>. SUFFICES ASSUME NEW h \in O!Fibers, Granted(h)'
       PROVE /\ lo <= hi
             /\ o_pc'[h] \in O!Combining => o_my'[h].p = q[lo]
             /\ o_pc'[h] \notin O!Combining => O!cur(h)' = q[lo]
    BY DEF QGranted, O!Fibers, O!Combining
  <2>1. h = f
    BY <1>1, <1>11, <1>13 DEF OneIsGranted
  <2>. QED
    BY <2>1, <1>13
<1>. QED
  BY <1>1, <1>15, <1>16, <1>17, <1>18, <1>19, <1>20, <1>21, <1>22, <1>23, <1>24
     DEF OsciInv, NodeQueue

(* door, state and running are nothing to the invariant.                    *)
LEMMA SameInv ==
  ASSUME OsciInv,
         UNCHANGED <<o_tail, o_current_node, o_next, o_toggle, o_result, o_rec, o_my, o_pc>>
  PROVE  OsciInv'
<1>. OsciType /\ RecType(o_rec) /\ OwnFibers /\ CombiningPoints /\ Unserved /\ OsciPosition
     /\ OneIsGranted
  BY DEF OsciInv
<1>1. OsciType' /\ RecType(o_rec')
  BY DEF OsciType, O!Groups, O!Fibers, O!Nodes, O!group, OsciPCs, O!Combining,
     OsciLocals
<1>2. OwnFibers'
  BY DEF OwnFibers, OwnFiber, LastNode, O!Fresh, O!cur, O!own, Pending,
     O!offset, O!group, O!Fibers, O!Nodes
<1>3. CombiningPoints'
  BY DEF CombiningPoints, O!Groups, O!group, O!Fibers
<1>4. Unserved'
  BY DEF Unserved, O!Nodes, O!Offsets, O!Fibers, O!offset, O!cur
<1>5. OsciPosition'
  BY DEF OsciPosition, Position, O!Fibers, O!Nodes, O!Offsets, O!Combining,
     Pending, O!own, O!cur,
     O!offset
<1>6. OneIsGranted'
  BY DEF OneIsGranted, Granted, O!Fibers, O!Combining, Pending, O!own, O!cur,
     O!offset
<1>7. PICK q, lo, hi : NodeQueue(q, lo, hi)
  BY DEF OsciInv
<1>8. QShape(q, lo, hi)'
  BY <1>7 DEF NodeQueue, QShape, O!Nodes
<1>9. QLinks(q, lo, hi)'
  BY <1>7 DEF NodeQueue, QLinks, Opener, LastNode, Pending, O!own, O!cur,
     O!offset
<1>10. QFirst(q, lo, hi)'
  BY <1>7 DEF NodeQueue, QFirst, LastNode, Pending, O!own, O!cur, O!offset,
     O!Fibers
<1>11. QPlaced(q, lo, hi)'
  BY <1>7 DEF NodeQueue, QPlaced, Unswapped, Pending, O!own, O!cur, O!offset,
     O!Fibers, O!Nodes
<1>12. QGranted(q, lo, hi)'
  BY <1>7 DEF NodeQueue, QGranted, Granted, O!Combining, Pending, O!own, O!cur,
     O!offset, O!Fibers
<1>. QED
  BY <1>1, <1>2, <1>3, <1>4, <1>5, <1>6, <1>8, <1>9, <1>10, <1>11, <1>12
     DEF OsciInv, NodeQueue

(* OsciType again, where the combining points and the toggles stay.         *)
LEMMA TypeKept ==
  ASSUME OsciType, UNCHANGED <<o_current_node, o_toggle, o_result>>,
         o_tail' \in O!Nodes \cup {NULL}, o_next' \in [O!Nodes -> O!Nodes \cup {NULL}],
         o_pc' \in [O!Fibers -> OsciPCs], o_my' \in [O!Fibers -> OsciLocals]
  PROVE  OsciType'
BY DEF OsciType, O!Groups, O!Fibers, O!Nodes, O!group, OsciPCs, O!Combining,
   OsciLocals

(* The same, where only the program counters and the locals change.         *)
LEMMA LocalType ==
  ASSUME OsciType, UNCHANGED <<o_tail, o_current_node, o_next, o_toggle, o_result>>,
         o_pc' \in [O!Fibers -> OsciPCs], o_my' \in [O!Fibers -> OsciLocals]
  PROVE  OsciType'
BY TypeKept DEF OsciType

-----------------------------------------------------------------------------
(* The steps of the combiner that keep its node.                            *)
LEMMA OsciServeStep ==
  ASSUME OsciInv, NEW f \in O!Fibers, O!Serve(f)
  PROVE  OsciInv'
<1>1. OsciType /\ RecType(o_rec) /\ OsciPosition
  BY Zenon DEF OsciInv
<1>2. /\ o_pc[f] = "combine" /\ o_pc' = [o_pc EXCEPT ![f] = "unlock"]
      /\ UNCHANGED <<o_tail, o_current_node, o_next, o_toggle, o_result>>
      /\ O!AnyFrom(o_my[f].p, o_my[f].i)
      /\ o_my' = [o_my EXCEPT ![f].i = O!FirstFrom(o_my[f].p, o_my[f].i)]
  BY DEF O!Serve, O!Goto
<1>3. PICK n \in O!Nodes : n = o_my[f].p
  BY <1>1, <1>2 DEF OsciPosition, Position, O!Combining
<1>4. PICK i \in Nat : i = o_my[f].i
  BY <1>1 DEF OsciType, OsciLocals
<1>5. PICK o \in O!Offsets :
        /\ o = O!FirstFrom(n, i) /\ o >= i
        /\ \A k \in i .. o - 1 : o_rec[n][k].completed
  <2>1. O!AnyFrom(n, i)
    BY <1>2, <1>3, <1>4
  <2>. QED
    BY ONLY <2>1, n \in O!Nodes, i \in Nat, FirstFromIs
<1>6. \E r : o_rec' = [o_rec EXCEPT ![n][o].arg_ret = r, ![n][o].completed = TRUE]
  BY <1>3, <1>4, <1>5 DEF O!Serve
<1>7. PICK r : o_rec' = [o_rec EXCEPT ![n][o] = r]
               /\ DOMAIN r = {"arg_ret", "locked", "completed"}
               /\ r.locked \in BOOLEAN /\ r.completed
  <2>1. PICK a : o_rec' = [o_rec EXCEPT ![n][o].arg_ret = a, ![n][o].completed = TRUE]
    BY <1>6
  <2>2. o_rec' = [o_rec EXCEPT ![n][o] = [o_rec[n][o] EXCEPT !.arg_ret = a, !.completed = TRUE]]
    BY <2>1, <1>1 DEF RecType
  <2>3. DOMAIN o_rec[n][o] = {"arg_ret", "locked", "completed"} /\ o_rec[n][o].locked \in BOOLEAN
    BY <1>1 DEF RecType
  <2>. DEFINE s == [o_rec[n][o] EXCEPT !.arg_ret = a, !.completed = TRUE]
  <2>4. DOMAIN s = {"arg_ret", "locked", "completed"} /\ s.locked = o_rec[n][o].locked
        /\ s.completed = TRUE
    BY <2>3
  <2>. QED
    BY <2>2, <2>3, <2>4
<1>8. /\ RecType(o_rec') /\ o_rec'[n][o] = r
      /\ \A m \in O!Nodes, x \in O!Offsets : m # n \/ x # o => o_rec'[m][x] = o_rec[m][x]
  <2>1. r.completed \in BOOLEAN
    BY <1>1, <1>6, <1>7 DEF RecType
  <2>. QED
    BY ONLY <2>1, <1>1, <1>7, n \in O!Nodes, o \in O!Offsets, WriteRecord
<1>9. o_pc'[f] = "unlock" /\ o_my'[f].cur = o_my[f].cur /\ o_my'[f].pred = o_my[f].pred
      /\ o_my'[f].p = n /\ o_my'[f].i = o
  BY <1>1, <1>2, <1>3, <1>4, <1>5 DEF OsciType
<1>10. Alone(f)
  BY <1>1, <1>2 DEF OsciType, Alone
<1>11. OsciType'
  <2>1. o_pc' \in [O!Fibers -> OsciPCs]
    BY <1>1, <1>2 DEF OsciType, OsciPCs, O!Combining
  <2>2. o \in Nat
    BY OsciConstants
  <2>3. o_my' \in [O!Fibers -> OsciLocals]
    BY <1>1, <1>2, <1>3, <1>4, <1>5, <2>2 DEF OsciType, OsciLocals
  <2>. QED
    BY <1>1, <1>2, <2>1, <2>3, LocalType
<1>12. \A x \in O!Offsets : x < o => o_rec'[n][x].completed
  <2>. SUFFICES ASSUME NEW x \in O!Offsets, x < o PROVE o_rec'[n][x].completed
    OBVIOUS
  <2>1. CASE x < i
    <3>1. o_rec[n][x].completed
      BY <2>1, <1>1, <1>2, <1>3, <1>4 DEF OsciPosition, Position, O!Combining
    <3>2. x # o => o_rec'[n][x] = o_rec[n][x]
      BY <1>8
    <3>. QED
      BY <3>1, <3>2, <1>7, <1>8
  <2>2. CASE ~(x < i)
    <3>1. x \in i .. o - 1
      BY <2>2, OsciConstants
    <3>. QED
      BY <3>1, <1>5, <1>8
  <2>. QED
    BY <2>1, <2>2
<1>13. \A m \in O!Nodes, x \in O!Offsets :
         /\ o_rec[m][x].completed => o_rec'[m][x].completed
         /\ m # n => o_rec'[m][x] = o_rec[m][x]
         /\ ~o_rec'[m][x].completed => o_rec'[m][x] = o_rec[m][x]
  BY <1>7, <1>8
<1>14. o_pc[f] \in O!Combining /\ o_pc'[f] \in O!Combining
  BY <1>2, <1>9 DEF O!Combining
<1>15. o_rec'[n][o].completed
  BY <1>7, <1>8
<1>. QED
  BY <1>2, <1>3, <1>8, <1>9, <1>10, <1>11, <1>12, <1>13, <1>14, <1>15,
     OsciCombinerStep

(* A served record is unlocked: its fiber is not granted anything.          *)
LEMMA OsciUnlockStep ==
  ASSUME OsciInv, NEW f \in O!Fibers, O!Unlock(f)
  PROVE  OsciInv'
<1>1. OsciType /\ RecType(o_rec) /\ OsciPosition
  BY DEF OsciInv
<1>2. /\ o_pc[f] = "unlock" /\ o_pc' = [o_pc EXCEPT ![f] = "combine"]
      /\ UNCHANGED <<o_tail, o_current_node, o_next, o_toggle, o_result>>
      /\ o_rec' = [o_rec EXCEPT ![o_my[f].p][o_my[f].i].locked = FALSE]
      /\ o_my' = [o_my EXCEPT ![f].i = @ + 1]
  BY DEF O!Unlock, O!Goto
<1>3. PICK n \in O!Nodes : n = o_my[f].p
  BY <1>1, <1>2 DEF OsciPosition, Position, O!Combining
<1>4. PICK o \in O!Offsets : o = o_my[f].i /\ o_rec[n][o].completed
  BY <1>1, <1>2, <1>3 DEF OsciPosition, Position, O!Combining
<1>5. PICK r : o_rec' = [o_rec EXCEPT ![n][o] = r]
               /\ DOMAIN r = {"arg_ret", "locked", "completed"}
               /\ r.locked \in BOOLEAN /\ r.completed /\ r.completed \in BOOLEAN
  <2>1. o_rec' = [o_rec EXCEPT ![n][o] = [o_rec[n][o] EXCEPT !.locked = FALSE]]
    BY <1>1, <1>2, <1>3, <1>4 DEF RecType
  <2>2. DOMAIN o_rec[n][o] = {"arg_ret", "locked", "completed"} /\ o_rec[n][o].completed \in BOOLEAN
    BY <1>1 DEF RecType
  <2>. DEFINE s == [o_rec[n][o] EXCEPT !.locked = FALSE]
  <2>3. DOMAIN s = {"arg_ret", "locked", "completed"} /\ s.completed = o_rec[n][o].completed
        /\ s.locked = FALSE
    BY <2>2
  <2>. QED
    BY <2>1, <2>2, <2>3, <1>4
<1>6. /\ RecType(o_rec') /\ o_rec'[n][o] = r
      /\ \A m \in O!Nodes, x \in O!Offsets : m # n \/ x # o => o_rec'[m][x] = o_rec[m][x]
  BY ONLY <1>1, <1>5, n \in O!Nodes, o \in O!Offsets, WriteRecord
<1>7. o_pc'[f] = "combine" /\ o_my'[f].cur = o_my[f].cur /\ o_my'[f].pred = o_my[f].pred
      /\ o_my'[f].p = n /\ o_my'[f].i = o + 1
  BY <1>1, <1>2, <1>3, <1>4 DEF OsciType
<1>8. Alone(f)
  BY <1>1, <1>2 DEF OsciType, Alone
<1>9. OsciType'
  <2>1. o_pc' \in [O!Fibers -> OsciPCs]
    BY <1>1, <1>2 DEF OsciType, OsciPCs, O!Combining
  <2>2. o_my' \in [O!Fibers -> OsciLocals]
    BY <1>1, <1>2 DEF OsciType, OsciLocals
  <2>. QED
    BY <1>1, <1>2, <2>1, <2>2, LocalType
<1>10. \A x \in O!Offsets : x < o => o_rec[n][x].completed
  BY <1>1, <1>2, <1>3, <1>4 DEF OsciPosition, Position, O!Combining
<1>11. \A x \in O!Offsets : x < o + 1 => o_rec'[n][x].completed
  <2>. SUFFICES ASSUME NEW x \in O!Offsets, x < o + 1, x # o PROVE o_rec'[n][x].completed
    BY <1>5, <1>6
  <2>1. x < o
    BY OsciConstants
  <2>. QED
    BY <2>1, <1>6, <1>10
<1>12. \A m \in O!Nodes, x \in O!Offsets :
         /\ o_rec[m][x].completed => o_rec'[m][x].completed
         /\ m # n => o_rec'[m][x] = o_rec[m][x]
         /\ ~o_rec'[m][x].completed => o_rec'[m][x] = o_rec[m][x]
  BY <1>5, <1>6
<1>. QED
  BY <1>2, <1>3, <1>6, <1>7, <1>8, <1>9, <1>11, <1>12, OsciCombinerStep
     DEF O!Combining

(* All records of p have been served.                                       *)
LEMMA OsciNodeDoneStep ==
  ASSUME OsciInv, NEW f \in O!Fibers, O!NodeDone(f)
  PROVE  OsciInv'
<1>1. OsciType /\ RecType(o_rec) /\ OsciPosition
  BY DEF OsciInv
<1>2. PICK to \in {"end", "more"} :
        to = IF o_next[o_my[f].p] = NULL THEN "end" ELSE "more"
  OBVIOUS
<1>3. /\ o_pc[f] = "combine" /\ o_pc' = [o_pc EXCEPT ![f] = to]
      /\ UNCHANGED <<o_tail, o_current_node, o_next, o_toggle, o_result, o_rec>>
      /\ ~O!AnyFrom(o_my[f].p, o_my[f].i)
      /\ o_my' = [o_my EXCEPT ![f].i = 0, ![f].counter = @ + fibers_per_thread]
  BY <1>2 DEF O!NodeDone, O!Goto, O!nodeVars
<1>4. o_pc'[f] = to /\ o_my'[f].cur = o_my[f].cur /\ o_my'[f].pred = o_my[f].pred
      /\ o_my'[f].p = o_my[f].p /\ o_my'[f].i = 0
  BY <1>1, <1>3 DEF OsciType
<1>5. Alone(f)
  BY <1>1, <1>3 DEF OsciType, Alone
<1>6. OsciType'
  <2>1. o_pc' \in [O!Fibers -> OsciPCs]
    BY <1>1, <1>2, <1>3 DEF OsciType, OsciPCs, O!Combining
  <2>2. \A k \in Nat : k + fibers_per_thread \in Nat
    BY OsciConstants
  <2>3. o_my' \in [O!Fibers -> OsciLocals]
    <3>1. o_my \in [O!Fibers -> OsciLocals]
      BY <1>1 DEF OsciType
    <3>2. o_my[f].counter + fibers_per_thread \in Nat
      BY <2>2, <3>1 DEF OsciLocals
    <3>3. PICK r \in OsciLocals, c \in Nat :
            r = o_my[f] /\ c = o_my[f].counter + fibers_per_thread
      BY <3>1, <3>2 DEF OsciType
    <3>4. [r EXCEPT !.i = 0, !.counter = c] \in OsciLocals
      BY DEF OsciLocals
    <3>5. o_my'[f] = [r EXCEPT !.i = 0, !.counter = c]
      BY <1>3, <3>1, <3>3
    <3>6. o_my'[f] \in OsciLocals
      BY Zenon, <3>4, <3>5
    <3>. QED
      BY <1>3, <3>1, <3>6
  <2>. QED
    BY <1>1, <1>3, <2>1, <2>3, LocalType
<1>7. \A o \in O!Offsets : o_rec[o_my[f].p][o].completed
  <2>1. \A o \in O!Offsets : o < o_my[f].i => o_rec[o_my[f].p][o].completed
    BY <1>1, <1>3 DEF OsciPosition, Position, O!Combining
  <2>2. \A o \in O!Offsets : o >= o_my[f].i => o_rec[o_my[f].p][o].completed
    BY <1>3 DEF O!AnyFrom
  <2>3. \A o \in O!Offsets : o < o_my[f].i \/ o >= o_my[f].i
    BY <1>1, OsciConstants DEF OsciType, OsciLocals
  <2>. QED
    BY <2>1, <2>2, <2>3
<1>8. RecType(o_rec')
  BY <1>1, <1>3
<1>. QED
  BY <1>2, <1>3, <1>4, <1>5, <1>6, <1>7, <1>8, OsciCombinerStep DEF O!Combining

(* End, CASTail that fails, WaitNext, and More that ends the loop.          *)
LEMMA OsciBehindLoopStep ==
  ASSUME OsciInv, NEW f \in O!Fibers, NEW to \in {"tailCAS", "late", "pass"},
         o_pc[f] \in {"more", "end", "tailCAS", "late"},
         o_pc' = [o_pc EXCEPT ![f] = to],
         to = "pass" => o_next[o_my[f].p] # NULL,
         UNCHANGED <<o_tail, o_current_node, o_next, o_toggle, o_result, o_rec, o_my>>
  PROVE  OsciInv'
<1>1. OsciType /\ RecType(o_rec) /\ OsciPosition /\ OwnFibers
  BY DEF OsciInv
<1>2. o_pc'[f] = to
  BY <1>1 DEF OsciType
<1>3. Alone(f)
  BY <1>1 DEF OsciType, Alone
<1>4. OsciType'
  <2>1. o_pc' \in [O!Fibers -> OsciPCs]
    BY <1>1 DEF OsciType, OsciPCs, O!Combining
  <2>. QED
    BY <1>1, <2>1, LocalType DEF OsciType
<1>5. \A o \in O!Offsets : o_rec[o_my[f].p][o].completed
  BY <1>1 DEF OsciPosition, Position, O!Combining
<1>6. o_my[f].i = 0
  BY <1>1 DEF OwnFibers, OwnFiber
<1>7. RecType(o_rec')
  BY <1>1
<1>. QED
  BY <1>2, <1>3, <1>4, <1>5, <1>6, <1>7, OsciCombinerStep DEF O!Combining

(* The loop over the records is over.                                       *)
LEMMA OsciEndStep ==
  ASSUME OsciInv, NEW f \in O!Fibers, O!End(f)
  PROVE  OsciInv'
<1>1. PICK to \in {"tailCAS", "late", "pass"} :
        to = IF o_next[o_my[f].p] = NULL THEN "tailCAS" ELSE "pass"
  OBVIOUS
<1>. QED
  BY <1>1, OsciBehindLoopStep DEF O!End, O!Goto, O!nodeVars

(* The combiner has seen the node behind p.                                 *)
LEMMA OsciWaitNextStep ==
  ASSUME OsciInv, NEW f \in O!Fibers, O!WaitNext(f)
  PROVE  OsciInv'
<1>1. PICK to \in {"tailCAS", "late", "pass"} :
        to = IF o_next[o_my[f].p] = NULL THEN "late" ELSE "pass"
  OBVIOUS
<1>. QED
  BY <1>1, OsciBehindLoopStep DEF O!WaitNext, O!Goto, O!nodeVars

(* A fiber yields, or spins on.                                             *)
LEMMA OsciYieldStep ==
  ASSUME OsciInv, NEW f \in O!Fibers, O!Yield(f) \/ O!Spin(f)
  PROVE  OsciInv'
<1>1. OsciType
  BY DEF OsciInv
<1>2. o_pc' = o_pc
  BY <1>1 DEF OsciType, O!Yield, O!Spin, O!Goto
<1>3. UNCHANGED <<o_tail, o_current_node, o_next, o_toggle, o_result, o_rec, o_my, o_pc>>
  BY <1>2 DEF O!Yield, O!Spin, O!nodeVars
<1>. QED
  BY <1>3, SameInv

-----------------------------------------------------------------------------
(* The second node of the queue, once it is linked: its fiber waits.        *)
LEMMA SecondNode ==
  ASSUME OwnFibers, NEW q, NEW lo, NEW hi, NodeQueue(q, lo, hi), lo < hi, o_next[q[lo]] # NULL
  PROVE  /\ o_next[q[lo]] = q[lo + 1] /\ q[lo + 1] \in O!Nodes /\ q[lo + 1] # q[lo]
         /\ Opener(q[lo + 1]) /\ o_pc[q[lo + 1][1]] = "wait"
         /\ \A h \in O!Fibers : o_pc[h] \in {"release", "swap", "link"} => O!cur(h) # q[lo + 1]
<1>1. lo + 1 \in lo .. hi /\ lo + 1 > lo /\ (lo + 1) - 1 = lo /\ lo \in lo .. hi /\ lo # lo + 1
  BY DEF NodeQueue, QShape
<1>2. q[lo + 1] \in O!Nodes /\ q[lo + 1] # q[lo]
  BY <1>1 DEF NodeQueue, QShape
<1>3. /\ Opener(q[lo + 1])
      /\ IF o_pc[q[lo + 1][1]] = "link"
         THEN o_my[q[lo + 1][1]].pred = q[lo] /\ o_next[q[lo]] = NULL
         ELSE o_next[q[lo]] = q[lo + 1]
  BY <1>1 DEF NodeQueue, QLinks
<1>4. o_next[q[lo]] = q[lo + 1] /\ o_pc[q[lo + 1][1]] = "wait"
  BY <1>3 DEF Opener
<1>5. ASSUME NEW h \in O!Fibers, o_pc[h] \in {"release", "swap", "link"}, O!cur(h) = q[lo + 1]
      PROVE  FALSE
  <2>1. q[lo + 1] = LastNode(h)
    BY <1>5 DEF OwnFibers, OwnFiber
  <2>2. q[lo + 1][1] = h
    BY <2>1 DEF LastNode
  <2>. QED
    BY <2>2, <1>4, <1>5
<1>. QED
  BY <1>2, <1>3, <1>4, <1>5

(* The combiner leaves the first node of the queue, served completely, for  *)
(* the second, passes the second to a fiber in it, or finds no second.      *)
LeavesFirst(f, q, lo, hi) ==
  /\ NodeQueue(q, lo, hi) /\ lo <= hi
  /\ o_pc[f] \in O!Combining /\ o_my[f].p = q[lo] /\ o_pc'[f] \in {"combine", "return"}
  /\ \A o \in O!Offsets : o_rec[q[lo]][o].completed
  /\ lo < hi => o_next[q[lo]] # NULL
  /\ Alone(f) /\ o_next' = [o_next EXCEPT ![q[lo]] = NULL]
  /\ o_tail' = IF lo = hi THEN NULL ELSE o_tail
  /\ UNCHANGED <<o_current_node, o_toggle>>
  /\ o_my'[f].cur = o_my[f].cur /\ o_my'[f].pred = o_my[f].pred /\ o_my'[f].i = 0
  /\ \A n \in O!Nodes, o \in O!Offsets : o_rec'[n][o].completed = o_rec[n][o].completed
  /\ \A n \in O!Nodes, o \in O!Offsets :
       (lo = hi \/ n # q[lo + 1]) => o_rec'[n][o] = o_rec[n][o]

(* The invariant is left, without its first node, by whoever pops it.       *)
LEMMA FirstLeaves ==
  ASSUME OsciInv, NEW f \in O!Fibers, NEW q, NEW lo, NEW hi, LeavesFirst(f, q, lo, hi)
  PROVE  /\ OwnFibers' /\ CombiningPoints' /\ Unserved'
         /\ QShape(q, lo + 1, hi)' /\ QLinks(q, lo + 1, hi)' /\ QFirst(q, lo + 1, hi)'
         /\ QPlaced(q, lo + 1, hi)'
         /\ ~Pending(f)
         /\ \A h \in O!Fibers : /\ O!cur(h)' = O!cur(h) /\ Pending(h)' = Pending(h)
                                /\ Pending(h) => O!cur(h) # q[lo]
<1>1. OsciType /\ RecType(o_rec) /\ OwnFibers /\ CombiningPoints /\ Unserved /\ OsciPosition
      /\ OneIsGranted
  BY DEF OsciInv
<1>. NodeQueue(q, lo, hi) /\ lo <= hi
  BY DEF LeavesFirst
<1>. o_pc[f] \in O!Combining /\ o_my[f].p = q[lo] /\ o_pc'[f] \in {"combine", "return"}
  BY DEF LeavesFirst
<1>. \A o \in O!Offsets : o_rec[q[lo]][o].completed
  BY DEF LeavesFirst
<1>. lo < hi => o_next[q[lo]] # NULL
  BY DEF LeavesFirst
<1>. o_next' = [o_next EXCEPT ![q[lo]] = NULL]
  BY DEF LeavesFirst
<1>. o_tail' = IF lo = hi THEN NULL ELSE o_tail
  BY DEF LeavesFirst
<1>. UNCHANGED <<o_current_node, o_toggle>>
  BY DEF LeavesFirst
<1>. o_my'[f].cur = o_my[f].cur /\ o_my'[f].pred = o_my[f].pred /\ o_my'[f].i = 0
  BY DEF LeavesFirst
<1>. \A n \in O!Nodes, o \in O!Offsets :
       /\ o_rec'[n][o].completed = o_rec[n][o].completed
       /\ (lo = hi \/ n # q[lo + 1]) => o_rec'[n][o] = o_rec[n][o]
  BY DEF LeavesFirst
<1>2. \A h \in O!Fibers : h # f => o_pc'[h] = o_pc[h] /\ o_my'[h] = o_my[h]
  BY DEF LeavesFirst, Alone
<1>3. \A h \in O!Fibers : O!cur(h)' = O!cur(h)
  BY <1>2 DEF O!cur
<1>4. \A h \in O!Fibers : o_pc[h] # "out" => O!cur(h) \in O!Nodes /\ O!offset(h) \in O!Offsets
  BY <1>1, OsciConstants DEF OwnFibers, OwnFiber
<1>5. \A h \in O!Fibers : o_pc'[h] = "out" <=> o_pc[h] = "out"
  BY <1>2 DEF O!Combining
<1>6. ASSUME NEW h \in O!Fibers
      PROVE  /\ O!own(h)' = o_rec'[O!cur(h)][O!offset(h)]
             /\ O!own(h) = o_rec[O!cur(h)][O!offset(h)]
  BY <1>3 DEF O!own, O!offset
<1>7. ASSUME NEW h \in O!Fibers PROVE Pending(h)' = Pending(h)
  <2>1. Pending(h)' = (o_pc[h] # "out" /\ ~o_rec'[O!cur(h)][O!offset(h)].completed)
    BY <1>5, <1>6 DEF Pending
  <2>2. Pending(h) = (o_pc[h] # "out" /\ ~o_rec[O!cur(h)][O!offset(h)].completed)
    BY <1>6 DEF Pending
  <2>. QED
    BY <2>1, <2>2, <1>4
<1>8. ASSUME NEW h \in O!Fibers, Pending(h) PROVE O!cur(h) # q[lo]
  <2>1. o_pc[h] # "out" /\ ~o_rec[O!cur(h)][O!offset(h)].completed
    BY <1>6, <1>8 DEF Pending
  <2>. QED
    BY <2>1, <1>4
<1>9. ~Pending(f)
  BY <1>1, <1>8 DEF OsciPosition, Position
<1>10. /\ QShape(q, lo, hi) /\ QLinks(q, lo, hi) /\ QFirst(q, lo, hi)
       /\ QPlaced(q, lo, hi) /\ QGranted(q, lo, hi)
  BY DEF NodeQueue
<1>11. lo \in Nat \ {0} /\ hi \in Nat /\ lo \in lo .. hi /\ q[lo] \in O!Nodes
  BY <1>10 DEF QShape
<1>12. \A h \in O!Fibers : LastNode(h)' = LastNode(h)
  BY DEF LastNode
<1>13. \A n \in O!Nodes : o_next'[n] = IF n = q[lo] THEN NULL ELSE o_next[n]
  BY <1>1 DEF OsciType
<1>14. lo < hi => /\ q[lo + 1] \in O!Nodes /\ Opener(q[lo + 1])
                  /\ \A h \in O!Fibers :
                       o_pc[h] \in {"release", "swap", "link"} => O!cur(h) # q[lo + 1]
  BY <1>1, SecondNode
<1>15. \A h \in O!Fibers :
         o_pc'[h] \in {"release", "swap", "link"} => h # f /\ o_pc'[h] = o_pc[h]
  BY <1>2
<1>16. OwnFibers'
  <2>. SUFFICES ASSUME NEW h \in O!Fibers
       PROVE /\ o_pc'[h] = "out" => o_my'[h] = O!Fresh
             /\ o_pc'[h] # "out" => O!cur(h)' \in O!Nodes /\ O!group(O!cur(h)'[1]) = O!group(h)
             /\ o_pc'[h] \in {"release", "swap", "link"} =>
                  O!cur(h)' = LastNode(h)' /\ Pending(h)' /\ O!own(h)'.locked
             /\ o_pc'[h] \in {"release", "swap"} => o_next'[O!cur(h)'] = NULL
             /\ o_pc'[h] = "release" => o_current_node'[O!group(h)] = O!cur(h)'
             /\ o_pc'[h] = "return" => ~Pending(h)'
             /\ o_pc'[h] = "link" <=> o_my'[h].pred # NULL
             /\ o_pc'[h] \notin {"combine", "unlock"} => o_my'[h].i = 0
    BY DEF OwnFibers, OwnFiber, O!group, O!Fibers, O!Fresh
  <2>1. CASE h = f
    BY <2>1, <1>1, <1>3, <1>7, <1>9 DEF OwnFibers, OwnFiber, O!Combining
  <2>2. CASE h # f
    <3>1. o_pc'[h] = o_pc[h] /\ o_my'[h] = o_my[h] /\ O!cur(h)' = O!cur(h)
          /\ LastNode(h)' = LastNode(h) /\ Pending(h)' = Pending(h)
      BY <2>2, <1>2, <1>3, <1>7, <1>12
    <3>2. o_pc[h] \in {"release", "swap", "link"} => O!own(h)'.locked
      <4>. SUFFICES ASSUME o_pc[h] \in {"release", "swap", "link"} PROVE O!own(h)'.locked
        OBVIOUS
      <4>1. O!cur(h) \in O!Nodes /\ O!offset(h) \in O!Offsets /\ O!own(h).locked
        BY <1>1, <1>4 DEF OwnFibers, OwnFiber
      <4>2. lo = hi \/ O!cur(h) # q[lo + 1]
        BY <1>11, <1>14
      <4>. QED
        BY <4>1, <4>2, <1>6
    <3>3. o_pc[h] \in {"release", "swap"} => o_next'[O!cur(h)] = NULL
      BY <1>1, <1>4, <1>13 DEF OwnFibers, OwnFiber
    <3>. QED
      BY <3>1, <3>2, <3>3, <1>1 DEF OwnFibers, OwnFiber
  <2>. QED
    BY <2>1, <2>2
<1>17. CombiningPoints'
  <2>1. \A h \in O!Fibers : o_pc[h] = "release" => o_pc'[h] = "release"
    BY <1>2 DEF O!Combining
  <2>2. \A g \in O!Groups : o_current_node[g] \in O!Nodes \cup {NULL}
    BY <1>1 DEF OsciType
  <2>. QED
    BY <1>1, <2>1, <2>2, OsciConstants DEF CombiningPoints, O!group, O!Groups,
       O!Fibers
<1>18. Unserved'
  <2>. SUFFICES ASSUME NEW n \in O!Nodes, NEW o \in O!Offsets, ~o_rec'[n][o].completed
       PROVE \E h \in O!Fibers : O!offset(h) = o /\ o_pc'[h] # "out" /\ O!cur(h)' = n
    BY DEF Unserved, O!offset, O!Fibers, O!Nodes, O!Offsets
  <2>1. PICK h \in O!Fibers : O!offset(h) = o /\ o_pc[h] # "out" /\ O!cur(h) = n
    BY <1>1 DEF Unserved
  <2>. QED
    BY <2>1, <1>3, <1>5
<1>19. QShape(q, lo + 1, hi)'
  <2>1. o_tail' = IF lo + 1 > hi THEN NULL ELSE q[hi]
    BY <1>10, <1>11 DEF QShape
  <2>2. /\ \A i \in lo + 1 .. hi : q[i] \in O!Nodes
        /\ \A i, j \in lo + 1 .. hi : q[i] = q[j] => i = j
    <3>1. \A i \in lo + 1 .. hi : i \in lo .. hi
      BY <1>11
    <3>. QED
      BY <3>1, <1>10 DEF QShape
  <2>3. lo + 1 <= hi => o_next'[q[hi]] = NULL
    <3>1. lo <= hi => hi \in lo .. hi
      BY <1>11
    <3>. QED
      BY <3>1, <1>10, <1>13 DEF QShape
  <2>. QED
    BY <2>1, <2>2, <2>3, <1>11 DEF QShape, O!Nodes
<1>20. QLinks(q, lo + 1, hi)'
  <2>. SUFFICES ASSUME NEW i \in lo + 1 .. hi, i > lo + 1
       PROVE /\ Opener(q[i])'
             /\ IF o_pc'[q[i][1]] = "link"
                THEN o_my'[q[i][1]].pred = q[i - 1] /\ o_next'[q[i - 1]] = NULL
                ELSE o_next'[q[i - 1]] = q[i]
    BY DEF QLinks
  <2>1. i \in lo .. hi /\ i > lo /\ i - 1 \in lo .. hi /\ i - 1 # lo
    BY <1>11
  <2>2. Opener(q[i]) /\ q[i] \in O!Nodes /\ q[i - 1] \in O!Nodes /\ q[i - 1] # q[lo]
    BY <2>1, <1>10, <1>11 DEF QLinks, QShape
  <2>3. PICK w \in O!Fibers : w = q[i][1]
    BY <2>2, OsciConstants
  <2>4. O!cur(w) = q[i] /\ Pending(w) /\ q[i] = LastNode(w) /\ o_pc[w] \in {"link", "wait"}
    BY <2>2, <2>3 DEF Opener
  <2>5. Pending(w)' /\ O!cur(w)' = q[i] /\ o_pc'[w] = o_pc[w] /\ o_my'[w] = o_my[w]
        /\ LastNode(w)' = q[i]
    BY <2>4, <1>2, <1>3, <1>7, <1>9, <1>12
  <2>6. Opener(q[i])' = (q[i] = LastNode(w)' /\ o_pc'[w] \in {"link", "wait"} /\ O!cur(w)' = q[i]
                         /\ Pending(w)')
    BY <2>3 DEF Opener
  <2>7. IF o_pc[w] = "link" THEN o_my[w].pred = q[i - 1] /\ o_next[q[i - 1]] = NULL
        ELSE o_next[q[i - 1]] = q[i]
    BY <1>10, <2>1, <2>3 DEF QLinks
  <2>8. o_next'[q[i - 1]] = o_next[q[i - 1]]
    BY <2>2, <1>13
  <2>. QED
    BY <2>3, <2>4, <2>5, <2>6, <2>7, <2>8
<1>21. QFirst(q, lo + 1, hi)'
  <2>. SUFFICES ASSUME lo + 1 <= hi
       PROVE /\ \E w \in O!Fibers :
                  w = q[lo + 1][1] /\ q[lo + 1] = LastNode(w)'
             /\ \A h \in O!Fibers :
                  o_pc'[h] \in {"release", "swap", "link"} => O!cur(h)' # q[lo + 1]
    BY DEF QFirst, O!Fibers
  <2>1. lo < hi
    BY <1>11
  <2>2. q[lo + 1] \in O!Nodes /\ Opener(q[lo + 1])
    BY <2>1, <1>14
  <2>3. PICK w \in O!Fibers : w = q[lo + 1][1]
    BY <2>2, OsciConstants
  <2>4. q[lo + 1] = LastNode(w)
    BY <2>2, <2>3 DEF Opener
  <2>. QED
    BY <2>1, <2>3, <2>4, <1>3, <1>12, <1>14, <1>15
<1>22. QPlaced(q, lo + 1, hi)'
  <2>. SUFFICES ASSUME NEW h \in O!Fibers, Pending(h)'
       PROVE \E n \in O!Nodes :
               n = O!cur(h)' /\ (Unswapped(n)' \/ \E i \in lo + 1 .. hi : q[i] = n)
    BY DEF QPlaced, O!Fibers, O!Nodes
  <2>1. PICK n \in O!Nodes :
          n = O!cur(h) /\ (Unswapped(n) \/ \E i \in lo .. hi : q[i] = n)
    BY <1>7, <1>10 DEF QPlaced
  <2>2. PICK w \in O!Fibers : w = n[1]
    BY OsciConstants
  <2>3. Unswapped(n) => Unswapped(n)'
    <3>1. Unswapped(n) = (o_pc[w] \in {"release", "swap"} /\ O!cur(w) = n)
      BY <2>2 DEF Unswapped
    <3>2. Unswapped(n)' = (o_pc'[w] \in {"release", "swap"} /\ O!cur(w)' = n)
      BY <2>2 DEF Unswapped
    <3>3. o_pc[w] \in {"release", "swap"} => o_pc'[w] = o_pc[w]
      BY <1>2 DEF O!Combining
    <3>. QED
      BY <3>1, <3>2, <3>3, <1>3
  <2>4. \A i \in lo .. hi : q[i] = n => i \in lo + 1 .. hi
    BY <2>1, <1>7, <1>8, <1>11
  <2>. QED
    BY <2>1, <2>3, <2>4, <1>3
<1>. QED
  BY <1>3, <1>7, <1>8, <1>9, <1>16, <1>17, <1>18, <1>19, <1>20, <1>21, <1>22

(* A combiner has the first node of the queue.                              *)
LEMMA TheCombiner ==
  ASSUME OsciInv, NEW f \in O!Fibers, o_pc[f] \in O!Combining
  PROVE  /\ Granted(f) /\ \A h \in O!Fibers : Granted(h) => h = f
         /\ \E q, lo, hi : /\ NodeQueue(q, lo, hi) /\ lo \in Nat \ {0} /\ hi \in Nat /\ lo <= hi
                           /\ o_my[f].p = q[lo] /\ q[lo] \in O!Nodes
<1>1. Granted(f)
  BY DEF Granted
<1>2. \A h \in O!Fibers : Granted(h) => h = f
  BY <1>1 DEF OsciInv, OneIsGranted
<1>3. PICK q, lo, hi : NodeQueue(q, lo, hi)
  BY DEF OsciInv
<1>4. lo <= hi /\ o_my[f].p = q[lo]
  BY <1>1, <1>3 DEF NodeQueue, QGranted
<1>5. lo \in Nat \ {0} /\ hi \in Nat /\ q[lo] \in O!Nodes
  BY <1>3, <1>4 DEF NodeQueue, QShape
<1>. QED
  BY <1>1, <1>2, <1>3, <1>4, <1>5

(* The combiner goes on to the next node.                                   *)
LEMMA OsciMoreStep ==
  ASSUME OsciInv, NEW f \in O!Fibers, O!More(f)
  PROVE  OsciInv'
<1>1. OsciType /\ RecType(o_rec) /\ OwnFibers /\ OsciPosition
  BY DEF OsciInv
<1>2. /\ o_pc[f] = "more" /\ UNCHANGED <<o_tail, o_current_node, o_rec, o_toggle, o_result>>
      /\ \/ /\ o_pc' = [o_pc EXCEPT ![f] = "pass"]
            /\ o_my' = [o_my EXCEPT ![f].p = @]
            /\ o_next' = [o_next EXCEPT ![o_my[f].p] = @]
         \/ /\ o_pc' = [o_pc EXCEPT ![f] = "combine"]
            /\ o_my' = [o_my EXCEPT ![f].p = o_next[o_my[f].p]]
            /\ o_next' = [o_next EXCEPT ![o_my[f].p] = NULL]
  <2>. DEFINE n == o_next[o_my[f].p]
              stop == o_next[n] = NULL \/ o_my[f].counter >= O!help_bound
  <2>1. /\ O!Goto(f, "more", IF stop THEN "pass" ELSE "combine")
        /\ o_my' = [o_my EXCEPT ![f].p = IF stop THEN @ ELSE n]
        /\ o_next' = [o_next EXCEPT ![o_my[f].p] = IF stop THEN @ ELSE NULL]
        /\ UNCHANGED <<o_tail, o_current_node, o_rec, o_toggle, o_result>>
    BY DEF O!More
  <2>. HIDE DEF stop
  <2>2. CASE stop
    BY <2>1, <2>2 DEF O!Goto
  <2>3. CASE ~stop
    BY <2>1, <2>3 DEF O!Goto
  <2>. QED
    BY <2>2, <2>3
<1>3. /\ o_pc[f] \in O!Combining /\ o_my[f].p \in O!Nodes /\ o_next[o_my[f].p] # NULL
      /\ \A o \in O!Offsets : o_rec[o_my[f].p][o].completed
  BY <1>1, <1>2 DEF OsciPosition, Position, O!Combining
<1>4. CASE o_pc' = [o_pc EXCEPT ![f] = "pass"] /\ o_my' = [o_my EXCEPT ![f].p = @]
           /\ o_next' = [o_next EXCEPT ![o_my[f].p] = @]
  <2>1. o_my' = o_my /\ o_next' = o_next
    BY <1>1, <1>4 DEF OsciType, OsciLocals
  <2>. QED
    BY <2>1, <1>2, <1>3, <1>4, OsciBehindLoopStep
<1>5. CASE o_pc' = [o_pc EXCEPT ![f] = "combine"]
           /\ o_my' = [o_my EXCEPT ![f].p = o_next[o_my[f].p]]
           /\ o_next' = [o_next EXCEPT ![o_my[f].p] = NULL]
  <2>1. PICK q, lo, hi : /\ NodeQueue(q, lo, hi) /\ lo \in Nat \ {0} /\ hi \in Nat /\ lo <= hi
                         /\ o_my[f].p = q[lo] /\ q[lo] \in O!Nodes
    BY <1>3, TheCombiner
  <2>2. \A h \in O!Fibers : Granted(h) => h = f
    BY <1>3, TheCombiner
  <2>3. lo < hi
    BY <2>1, <1>3 DEF NodeQueue, QShape
  <2>4. o_next[q[lo]] = q[lo + 1] /\ q[lo + 1] \in O!Nodes
    BY <2>1, <2>3, <1>1, <1>3, SecondNode
  <2>5. Alone(f) /\ o_pc'[f] = "combine" /\ o_my'[f].p = q[lo + 1]
        /\ o_my'[f].cur = o_my[f].cur /\ o_my'[f].pred = o_my[f].pred /\ o_my'[f].i = 0
    <3>1. o_my[f].i = 0
      BY <1>1, <1>2 DEF OwnFibers, OwnFiber
    <3>2. o_my[f] \in OsciLocals /\ DOMAIN o_my = O!Fibers /\ DOMAIN o_pc = O!Fibers
      BY <1>1 DEF OsciType
    <3>. QED
      BY <1>5, <2>1, <2>4, <3>1, <3>2 DEF Alone, OsciLocals
  <2>6. /\ OwnFibers' /\ CombiningPoints' /\ Unserved'
        /\ QShape(q, lo + 1, hi)' /\ QLinks(q, lo + 1, hi)' /\ QFirst(q, lo + 1, hi)'
        /\ QPlaced(q, lo + 1, hi)'
        /\ ~Pending(f)
        /\ \A h \in O!Fibers : /\ O!cur(h)' = O!cur(h) /\ Pending(h)' = Pending(h)
                               /\ Pending(h) => O!cur(h) # q[lo]
    <3>1. /\ lo = hi <=> FALSE
          /\ \A o \in O!Offsets : o_rec[q[lo]][o].completed
      BY <1>3, <2>1, <2>3
    <3>2. LeavesFirst(f, q, lo, hi)
      BY <1>2, <1>3, <1>5, <2>1, <2>3, <2>5, <3>1 DEF LeavesFirst
    <3>. QED
      BY <3>2, FirstLeaves
  <2>7. OsciType' /\ RecType(o_rec')
    <3>1. o_pc' \in [O!Fibers -> OsciPCs]
      BY <1>1, <1>5 DEF OsciType, OsciPCs, O!Combining
    <3>2. o_my' \in [O!Fibers -> OsciLocals]
      <4>1. o_my \in [O!Fibers -> OsciLocals]
        BY <1>1 DEF OsciType
      <4>2. \A r \in OsciLocals, n \in O!Nodes : [r EXCEPT !.p = n] \in OsciLocals
        BY DEF OsciLocals
      <4>3. [o_my[f] EXCEPT !.p = q[lo + 1]] \in OsciLocals
        BY <4>1, <4>2, <2>4
      <4>. QED
        BY <4>1, <4>3, <1>5, <2>1, <2>4
    <3>3. o_next' \in [O!Nodes -> O!Nodes \cup {NULL}]
      BY <1>1, <1>5 DEF OsciType
    <3>. QED
      BY <1>1, <1>2, <3>1, <3>2, <3>3, TypeKept DEF OsciType
  <2>8. \A h \in O!Fibers : Granted(h)' => h = f
    <3>. SUFFICES ASSUME NEW h \in O!Fibers, h # f PROVE Granted(h)' = Granted(h)
      BY <2>2
    <3>1. \A x \in O!Fibers : O!own(x)' = O!own(x)
      BY <1>2, <2>6 DEF O!own, O!offset
    <3>. QED
      BY <3>1, <2>5, OthersSame
  <2>9. OsciPosition'
    <3>. SUFFICES ASSUME NEW h \in O!Fibers PROVE Position(h)'
      BY DEF OsciPosition, O!Fibers
    <3>1. CASE h # f
      <4>1. o_pc'[h] \notin O!Combining
        BY <3>1, <2>8 DEF Granted, O!Combining
      <4>. QED
        BY <4>1 DEF Position, O!Combining
    <3>2. CASE h = f
      <4>1. ~Pending(f)'
        BY <2>6
      <4>2. \A o \in O!Offsets : ~(o < o_my'[f].i)
        BY <2>5, OsciConstants
      <4>3. Position(f)'
        BY <2>4, <2>5, <4>1, <4>2 DEF Position, O!Combining, O!Offsets, O!Nodes
      <4>. QED
        BY <3>2, <4>3
    <3>. QED
      BY <3>1, <3>2
  <2>10. OneIsGranted'
    BY <2>8 DEF OneIsGranted, O!Fibers
  <2>11. QGranted(q, lo + 1, hi)'
    <3>. SUFFICES ASSUME NEW h \in O!Fibers, Granted(h)'
         PROVE /\ lo + 1 <= hi
               /\ o_pc'[h] \in O!Combining => o_my'[h].p = q[lo + 1]
               /\ o_pc'[h] \notin O!Combining => O!cur(h)' = q[lo + 1]
      BY DEF QGranted, O!Fibers, O!Combining
    <3>1. h = f
      BY <2>8
    <3>. QED
      BY <3>1, <2>1, <2>3, <2>5 DEF O!Combining
  <2>. QED
    BY <2>6, <2>7, <2>9, <2>10, <2>11 DEF OsciInv, NodeQueue
<1>. QED
  BY <1>2, <1>4, <1>5

(* The queue is empty again: its last node has been served.                 *)
LEMMA OsciCASTailStep ==
  ASSUME OsciInv, NEW f \in O!Fibers, O!CASTail(f)
  PROVE  OsciInv'
<1>1. OsciType /\ RecType(o_rec) /\ OwnFibers /\ OsciPosition
  BY DEF OsciInv
<1>2. /\ o_pc[f] = "tailCAS"
      /\ UNCHANGED <<o_current_node, o_next, o_rec, o_toggle, o_result, o_my>>
      /\ \/ o_tail # o_my[f].p /\ o_pc' = [o_pc EXCEPT ![f] = "late"] /\ o_tail' = o_tail
         \/ o_tail = o_my[f].p /\ o_pc' = [o_pc EXCEPT ![f] = "return"] /\ o_tail' = NULL
  BY DEF O!CASTail, O!Goto, O!nodeVars
<1>3. /\ o_pc[f] \in O!Combining /\ o_my[f].p \in O!Nodes
      /\ \A o \in O!Offsets : o_rec[o_my[f].p][o].completed
  BY <1>1, <1>2 DEF OsciPosition, Position, O!Combining
<1>4. CASE o_pc' = [o_pc EXCEPT ![f] = "late"] /\ o_tail' = o_tail
  BY <1>2, <1>4, OsciBehindLoopStep
<1>5. CASE o_tail = o_my[f].p /\ o_pc' = [o_pc EXCEPT ![f] = "return"] /\ o_tail' = NULL
  <2>1. PICK q, lo, hi : /\ NodeQueue(q, lo, hi) /\ lo \in Nat \ {0} /\ hi \in Nat /\ lo <= hi
                         /\ o_my[f].p = q[lo] /\ q[lo] \in O!Nodes
    BY <1>3, TheCombiner
  <2>2. \A h \in O!Fibers : Granted(h) => h = f
    BY <1>3, TheCombiner
  <2>3. lo = hi /\ o_next[q[lo]] = NULL
    BY <2>1, <1>5 DEF NodeQueue, QShape
  <2>4. o_next' = [o_next EXCEPT ![q[lo]] = NULL]
    BY <2>1, <2>3, <1>1, <1>2 DEF OsciType
  <2>5. Alone(f) /\ o_pc'[f] = "return" /\ o_my'[f] = o_my[f] /\ o_my'[f].i = 0
    <3>1. o_my[f].i = 0
      BY <1>1, <1>2 DEF OwnFibers, OwnFiber
    <3>2. DOMAIN o_pc = O!Fibers
      BY <1>1 DEF OsciType
    <3>. QED
      BY <1>2, <1>5, <3>1, <3>2 DEF Alone
  <2>6. /\ OwnFibers' /\ CombiningPoints' /\ Unserved'
        /\ QShape(q, lo + 1, hi)' /\ QLinks(q, lo + 1, hi)' /\ QFirst(q, lo + 1, hi)'
        /\ QPlaced(q, lo + 1, hi)'
        /\ ~Pending(f)
        /\ \A h \in O!Fibers : /\ O!cur(h)' = O!cur(h) /\ Pending(h)' = Pending(h)
                               /\ Pending(h) => O!cur(h) # q[lo]
    <3>1. \A o \in O!Offsets : o_rec[q[lo]][o].completed
      BY <1>3, <2>1
    <3>2. o_tail' = IF lo = hi THEN NULL ELSE o_tail
      BY <1>5, <2>3
    <3>3. o_my'[f].cur = o_my[f].cur /\ o_my'[f].pred = o_my[f].pred /\ o_my'[f].i = 0
      BY <2>5
    <3>4. /\ UNCHANGED <<o_current_node, o_toggle, o_rec>> /\ (lo < hi => o_next[q[lo]] # NULL)
          /\ o_pc'[f] \in {"combine", "return"}
      BY <1>2, <2>1, <2>3, <2>5
    <3>5. LeavesFirst(f, q, lo, hi)
      BY <1>3, <2>1, <2>4, <2>5, <3>1, <3>2, <3>3, <3>4 DEF LeavesFirst
    <3>. QED
      BY <3>5, FirstLeaves
  <2>7. OsciType' /\ RecType(o_rec')
    <3>1. o_pc' \in [O!Fibers -> OsciPCs]
      BY <1>1, <1>5 DEF OsciType, OsciPCs, O!Combining
    <3>2. o_next' \in [O!Nodes -> O!Nodes \cup {NULL}] /\ o_my' \in [O!Fibers -> OsciLocals]
      BY <1>1, <1>2 DEF OsciType
    <3>. QED
      BY <1>1, <1>2, <1>5, <3>1, <3>2, TypeKept
  <2>8. \A h \in O!Fibers : ~Granted(h)'
    <3>1. \A x \in O!Fibers : O!own(x)' = O!own(x)
      BY <1>2, <2>6 DEF O!own, O!offset
    <3>2. \A h \in O!Fibers : h # f => Granted(h)' = Granted(h)
      BY <3>1, <2>5, OthersSame
    <3>3. ~Granted(f)'
      <4>1. ~Pending(f)'
        BY <2>6
      <4>. QED
        BY <4>1, <2>5 DEF Granted, O!Combining
    <3>. QED
      BY <2>2, <3>2, <3>3
  <2>9. \A h \in O!Fibers : o_pc'[h] \notin O!Combining
    BY <2>8 DEF Granted, O!Combining
  <2>10. OsciPosition'
    BY <2>9 DEF OsciPosition, Position, O!Combining, O!Fibers
  <2>11. OneIsGranted' /\ QGranted(q, lo + 1, hi)'
    BY <2>8 DEF OneIsGranted, QGranted, O!Fibers
  <2>. QED
    BY <2>6, <2>7, <2>10, <2>11 DEF OsciInv, NodeQueue
<1>. QED
  BY <1>2, <1>4, <1>5

(* The next node is unlocked: the fiber that opened it combines.            *)
LEMMA OsciPassStep ==
  ASSUME OsciInv, NEW f \in O!Fibers, O!Pass(f)
  PROVE  OsciInv'
<1>1. OsciType /\ RecType(o_rec) /\ OwnFibers /\ OsciPosition /\ Unserved
  BY DEF OsciInv
<1>2. /\ o_pc[f] = "pass" /\ o_pc' = [o_pc EXCEPT ![f] = "return"]
      /\ UNCHANGED <<o_tail, o_current_node, o_toggle, o_result, o_my>>
      /\ o_next' = [o_next EXCEPT ![o_my[f].p] = NULL]
  BY DEF O!Pass, O!Goto
<1>3. /\ o_pc[f] \in O!Combining /\ o_my[f].p \in O!Nodes /\ o_next[o_my[f].p] # NULL
      /\ \A o \in O!Offsets : o_rec[o_my[f].p][o].completed
  BY <1>1, <1>2 DEF OsciPosition, Position, O!Combining
<1>4. PICK q, lo, hi : /\ NodeQueue(q, lo, hi) /\ lo \in Nat \ {0} /\ hi \in Nat /\ lo <= hi
                       /\ o_my[f].p = q[lo] /\ q[lo] \in O!Nodes
  BY <1>3, TheCombiner
<1>5. \A h \in O!Fibers : Granted(h) => h = f
  BY <1>3, TheCombiner
<1>6. lo < hi
  BY <1>3, <1>4 DEF NodeQueue, QShape
<1>7. PICK n \in O!Nodes : n = q[lo + 1] /\ n = o_next[o_my[f].p]
  BY <1>1, <1>3, <1>4, <1>6, SecondNode
<1>8. /\ n # q[lo] /\ Opener(n) /\ o_pc[n[1]] = "wait"
      /\ \A h \in O!Fibers : o_pc[h] \in {"release", "swap", "link"} => O!cur(h) # n
  BY <1>1, <1>3, <1>4, <1>6, <1>7, SecondNode
<1>9. O!AnyFrom(n, 0)
  <2>1. PICK v \in O!Fibers : v = n[1]
    BY OsciConstants
  <2>2. O!cur(v) = n /\ Pending(v)
    BY <2>1, <1>8 DEF Opener
  <2>3. O!offset(v) \in O!Offsets /\ O!offset(v) >= 0
    BY OsciConstants DEF O!Offsets
  <2>. QED
    BY <2>2, <2>3 DEF Pending, O!own, O!AnyFrom
<1>10. PICK o \in O!Offsets : o = O!FirstFrom(n, 0) /\ ~o_rec[n][o].completed
  BY <1>9, FirstFromIs
<1>11. PICK r : /\ o_rec' = [o_rec EXCEPT ![n][o] = r]
                /\ DOMAIN r = {"arg_ret", "locked", "completed"} /\ ~r.completed
                /\ r.locked \in BOOLEAN /\ r.completed \in BOOLEAN /\ r.locked = FALSE
                /\ r.completed = o_rec[n][o].completed
  <2>1. o_rec' = [o_rec EXCEPT ![n][o].locked = FALSE]
    BY <1>7, <1>9, <1>10 DEF O!Pass
  <2>2. o_rec' = [o_rec EXCEPT ![n][o] = [o_rec[n][o] EXCEPT !.locked = FALSE]]
    BY <2>1, <1>1 DEF RecType
  <2>3. DOMAIN o_rec[n][o] = {"arg_ret", "locked", "completed"} /\ o_rec[n][o].completed \in BOOLEAN
    BY <1>1 DEF RecType
  <2>. DEFINE s == [o_rec[n][o] EXCEPT !.locked = FALSE]
  <2>4. DOMAIN s = {"arg_ret", "locked", "completed"} /\ s.completed = o_rec[n][o].completed
        /\ s.locked = FALSE
    BY <2>3
  <2>. QED
    BY <2>2, <2>3, <2>4, <1>10
<1>12. /\ RecType(o_rec') /\ o_rec'[n][o] = r
       /\ \A m \in O!Nodes, x \in O!Offsets : m # n \/ x # o => o_rec'[m][x] = o_rec[m][x]
  BY <1>1, <1>11, WriteRecord
<1>13. Alone(f) /\ o_pc'[f] = "return" /\ o_my'[f] = o_my[f] /\ o_my'[f].i = 0
  <2>1. o_my[f].i = 0
    BY <1>1, <1>2 DEF OwnFibers, OwnFiber
  <2>2. DOMAIN o_pc = O!Fibers
    BY <1>1 DEF OsciType
  <2>. QED
    BY <1>2, <2>1, <2>2 DEF Alone
<1>14. \A m \in O!Nodes, x \in O!Offsets :
         /\ o_rec'[m][x].completed = o_rec[m][x].completed
         /\ (lo = hi \/ m # q[lo + 1]) => o_rec'[m][x] = o_rec[m][x]
  <2>1. \A m \in O!Nodes, x \in O!Offsets : o_rec'[m][x].completed = o_rec[m][x].completed
    BY <1>11, <1>12
  <2>2. \A m \in O!Nodes, x \in O!Offsets :
          (lo = hi \/ m # q[lo + 1]) => o_rec'[m][x] = o_rec[m][x]
    BY <1>4, <1>6, <1>7, <1>12
  <2>. QED
    BY <2>1, <2>2
<1>15. o_tail' = IF lo = hi THEN NULL ELSE o_tail
  BY <1>2, <1>4, <1>6
<1>16. o_next' = [o_next EXCEPT ![q[lo]] = NULL] /\ (lo < hi => o_next[q[lo]] # NULL)
       /\ \A x \in O!Offsets : o_rec[q[lo]][x].completed
  BY <1>2, <1>3, <1>4
<1>17. /\ OwnFibers' /\ CombiningPoints' /\ Unserved'
       /\ QShape(q, lo + 1, hi)' /\ QLinks(q, lo + 1, hi)' /\ QFirst(q, lo + 1, hi)'
       /\ QPlaced(q, lo + 1, hi)'
       /\ ~Pending(f)
       /\ \A h \in O!Fibers : /\ O!cur(h)' = O!cur(h) /\ Pending(h)' = Pending(h)
                              /\ Pending(h) => O!cur(h) # q[lo]
  <2>1. LeavesFirst(f, q, lo, hi)
    BY <1>2, <1>3, <1>4, <1>13, <1>14, <1>15, <1>16 DEF LeavesFirst
  <2>. QED
    BY <2>1, FirstLeaves
<1>18. OsciType'
  <2>1. o_pc' \in [O!Fibers -> OsciPCs]
    BY <1>1, <1>2 DEF OsciType, OsciPCs, O!Combining
  <2>2. o_next' \in [O!Nodes -> O!Nodes \cup {NULL}] /\ o_my' \in [O!Fibers -> OsciLocals]
    BY <1>1, <1>2, <1>3 DEF OsciType
  <2>. QED
    BY <1>1, <1>2, <2>1, <2>2, TypeKept DEF OsciType
(* The fiber whose record is unlocked. *)
<1>19. PICK w \in O!Fibers : O!offset(w) = o /\ o_pc[w] # "out" /\ O!cur(w) = n
  BY <1>1, <1>10 DEF Unserved
<1>20. \A h \in O!Fibers : o_pc'[h] \notin O!Combining
  <2>1. \A h \in O!Fibers : h # f => o_pc[h] \notin O!Combining
    BY <1>5 DEF Granted
  <2>. QED
    BY <2>1, <1>13 DEF Alone, O!Combining
<1>21. ASSUME NEW h \in O!Fibers, Granted(h)' PROVE h = w
  <2>1. Pending(h)' /\ ~O!own(h)'.locked
    BY <1>20, <1>21 DEF Granted, O!Combining
  <2>2. Pending(h) /\ h # f
    BY <2>1, <1>17
  <2>3. O!own(h).locked
    BY <2>2, <1>1, <1>5 DEF Granted, RecType
  <2>4. o_pc[h] # "out" /\ O!cur(h) \in O!Nodes /\ O!offset(h) \in O!Offsets
    BY <2>2, <1>1, OsciConstants DEF Pending, OwnFibers, OwnFiber
  <2>5. O!own(h) = o_rec[O!cur(h)][O!offset(h)] /\ O!own(h)' = o_rec'[O!cur(h)][O!offset(h)]
    BY <1>17 DEF O!own, O!offset
  <2>6. O!cur(h) = n /\ O!offset(h) = o
    BY <2>1, <2>3, <2>4, <2>5, <1>12
  <2>. QED
    BY <2>4, <2>6, <1>1, <1>19, RecordOwner
<1>22. OneIsGranted'
  BY <1>21 DEF OneIsGranted, O!Fibers
<1>23. QGranted(q, lo + 1, hi)'
  <2>. SUFFICES ASSUME NEW h \in O!Fibers, Granted(h)'
       PROVE /\ lo + 1 <= hi
             /\ o_pc'[h] \notin O!Combining /\ O!cur(h)' = q[lo + 1]
    BY DEF QGranted, O!Fibers, O!Combining
  <2>. QED
    BY <1>4, <1>6, <1>7, <1>17, <1>19, <1>20, <1>21
<1>24. OsciPosition'
  BY <1>20 DEF OsciPosition, Position, O!Combining, O!Fibers
<1>. QED
  BY <1>12, <1>17, <1>18, <1>22, <1>23, <1>24 DEF OsciInv, NodeQueue

-----------------------------------------------------------------------------
(* What is left alone by a step of f that changes no record of others.      *)
Others(f) ==
  /\ Alone(f)
  /\ \A h \in O!Fibers : h # f /\ o_pc[h] # "out" => O!own(h)' = O!own(h)
  /\ \A h \in O!Fibers : h # f => o_toggle'[h] = o_toggle[h]

(* What Others says of one fiber.                                           *)
LEMMA OthersFacts ==
  ASSUME NEW f \in O!Fibers, Others(f), NEW h \in O!Fibers, h # f
  PROVE  /\ o_pc'[h] = o_pc[h] /\ o_my'[h] = o_my[h] /\ O!cur(h)' = O!cur(h)
         /\ Pending(h)' = Pending(h) /\ Granted(h)' = Granted(h)
         /\ LastNode(h)' = LastNode(h) /\ NextNode(h)' = NextNode(h)
         /\ o_pc[h] # "out" => O!own(h)' = O!own(h)
  BY OthersSame DEF Others, Alone, LastNode, NextNode

(* The parts of the invariant, where a step of f changes those of f only.   *)
(* First, what the other fibers know.                                       *)
LEMMA OwnKept ==
  ASSUME OwnFibers, NEW f \in O!Fibers, Others(f), OwnFiber(f)',
         \A h \in O!Fibers : h # f =>
           /\ o_pc[h] \in {"release", "swap"} => o_next'[O!cur(h)] = NULL
           /\ o_pc[h] = "release" => o_current_node'[O!group(h)] = O!cur(h)
  PROVE  OwnFibers'
<1>. SUFFICES ASSUME NEW h \in O!Fibers, h # f PROVE OwnFiber(h)'
  BY DEF OwnFibers, O!Fibers
<1>1. /\ o_pc'[h] = o_pc[h] /\ o_my'[h] = o_my[h] /\ O!cur(h)' = O!cur(h)
      /\ Pending(h)' = Pending(h) /\ LastNode(h)' = LastNode(h)
      /\ o_pc[h] # "out" => O!own(h)' = O!own(h)
  BY OthersFacts
<1>2. OwnFiber(h)
  BY DEF OwnFibers
<1>. QED
  BY <1>1, <1>2 DEF OwnFiber, O!group, O!Nodes, O!Fibers, O!Fresh

(* Requests not served are those of fibers in a call.                       *)
LEMMA UnservedKept ==
  ASSUME Unserved, NEW f \in O!Fibers, Others(f),
         \A n \in O!Nodes, o \in O!Offsets : ~o_rec'[n][o].completed =>
           \/ n = O!cur(f)' /\ o = O!offset(f) /\ o_pc'[f] # "out"
           \/ ~o_rec[n][o].completed /\ (o_pc[f] = "out" \/ n # O!cur(f) \/ o # O!offset(f))
  PROVE  Unserved'
<1>. SUFFICES ASSUME NEW n \in O!Nodes, NEW o \in O!Offsets, ~o_rec'[n][o].completed
     PROVE \E h \in O!Fibers : O!offset(h) = o /\ o_pc'[h] # "out" /\ O!cur(h)' = n
  BY DEF Unserved, O!offset, O!Fibers, O!Nodes, O!Offsets
<1>1. CASE n = O!cur(f)' /\ o = O!offset(f) /\ o_pc'[f] # "out"
  BY <1>1
<1>2. CASE ~o_rec[n][o].completed /\ (o_pc[f] = "out" \/ n # O!cur(f) \/ o # O!offset(f))
  <2>1. PICK h \in O!Fibers : O!offset(h) = o /\ o_pc[h] # "out" /\ O!cur(h) = n
    BY <1>2 DEF Unserved
  <2>2. h # f
    BY <2>1, <1>2
  <2>. QED
    BY <2>1, <2>2, OthersFacts
<1>. QED
  BY <1>1, <1>2

(* What combiners know, where no record of their node is opened again.      *)
LEMMA PositionKept ==
  ASSUME OsciPosition, NEW f \in O!Fibers, Others(f), Position(f)',
         \A h \in O!Fibers : h # f /\ o_pc[h] \in O!Combining =>
           /\ \A o \in O!Offsets :
                o_rec[o_my[h].p][o].completed => o_rec'[o_my[h].p][o].completed
           /\ o_next[o_my[h].p] # NULL => o_next'[o_my[h].p] # NULL
  PROVE  OsciPosition'
<1>. SUFFICES ASSUME NEW h \in O!Fibers, h # f PROVE Position(h)'
  BY DEF OsciPosition, O!Fibers
<1>1. /\ o_pc'[h] = o_pc[h] /\ o_my'[h] = o_my[h] /\ O!cur(h)' = O!cur(h)
      /\ Pending(h)' = Pending(h)
  BY OthersFacts
<1>2. Position(h)
  BY DEF OsciPosition
<1>. QED
  BY <1>1, <1>2 DEF Position, O!Combining, O!Offsets, O!Nodes

(* The queue behind its first node.                                         *)
LEMMA LinksKept ==
  ASSUME NEW f \in O!Fibers, Others(f), NEW q, NEW lo, NEW hi, QShape(q, lo, hi),
         QLinks(q, lo, hi),
         \A i \in lo .. hi : i > lo => q[i][1] # f /\ o_next'[q[i - 1]] = o_next[q[i - 1]]
  PROVE  QLinks(q, lo, hi)'
<1>. SUFFICES ASSUME NEW i \in lo .. hi, i > lo
     PROVE /\ Opener(q[i])'
           /\ IF o_pc'[q[i][1]] = "link"
              THEN o_my'[q[i][1]].pred = q[i - 1] /\ o_next'[q[i - 1]] = NULL
              ELSE o_next'[q[i - 1]] = q[i]
  BY DEF QLinks
<1>1. Opener(q[i]) /\ q[i] \in O!Nodes
  BY DEF QLinks, QShape
<1>2. PICK w \in O!Fibers : w = q[i][1]
  BY <1>1, OsciConstants
<1>3. O!cur(w) = q[i] /\ Pending(w) /\ q[i] = LastNode(w) /\ o_pc[w] \in {"link", "wait"}
  BY <1>1, <1>2 DEF Opener
<1>4. Pending(w)' /\ O!cur(w)' = q[i] /\ o_pc'[w] = o_pc[w] /\ o_my'[w] = o_my[w]
      /\ LastNode(w)' = q[i]
  BY <1>2, <1>3, OthersFacts
<1>5. Opener(q[i])' = (q[i] = LastNode(w)' /\ o_pc'[w] \in {"link", "wait"} /\ O!cur(w)' = q[i]
                       /\ Pending(w)')
  BY <1>2 DEF Opener
<1>6. IF o_pc[w] = "link" THEN o_my[w].pred = q[i - 1] /\ o_next[q[i - 1]] = NULL
      ELSE o_next[q[i - 1]] = q[i]
  BY <1>2 DEF QLinks
<1>7. o_next'[q[i - 1]] = o_next[q[i - 1]]
  OBVIOUS
<1>. QED
  BY <1>2, <1>3, <1>4, <1>5, <1>6, <1>7

(* Its first node.                                                          *)
LEMMA FirstKept ==
  ASSUME NEW f \in O!Fibers, Others(f), NEW q, NEW lo, NEW hi, QShape(q, lo, hi),
         QFirst(q, lo, hi),
         lo <= hi /\ o_pc'[f] \in {"release", "swap", "link"} => O!cur(f)' # q[lo],
         lo <= hi /\ q[lo][1] = f /\ q[lo] # LastNode(f)' =>
           Pending(f)' /\ O!cur(f)' = LastNode(f)'
  PROVE  QFirst(q, lo, hi)'
<1>. SUFFICES ASSUME lo <= hi
     PROVE \E w \in O!Fibers :
             /\ w = q[lo][1]
             /\ q[lo] # LastNode(w)' => Pending(w)' /\ O!cur(w)' = LastNode(w)'
             /\ \A h \in O!Fibers : o_pc'[h] \in {"release", "swap", "link"} => O!cur(h)' # q[lo]
  BY DEF QFirst, O!Fibers
<1>1. q[lo] \in O!Nodes
  BY DEF QShape
<1>2. PICK w \in O!Fibers : w = q[lo][1]
  BY <1>1, OsciConstants
<1>3. q[lo] # LastNode(w) => Pending(w) /\ O!cur(w) = LastNode(w)
  BY <1>2 DEF QFirst
<1>4. q[lo] # LastNode(w)' => Pending(w)' /\ O!cur(w)' = LastNode(w)'
  BY <1>2, <1>3, OthersFacts
<1>5. \A h \in O!Fibers : o_pc'[h] \in {"release", "swap", "link"} => O!cur(h)' # q[lo]
  BY OthersFacts DEF QFirst
<1>. QED
  BY <1>2, <1>4, <1>5

(* Where the nodes of fibers to be served are.                              *)
LEMMA PlacedKept ==
  ASSUME NEW f \in O!Fibers, Others(f), NEW q, NEW lo, NEW hi, QPlaced(q, lo, hi),
         NEW q2, NEW lo2, NEW hi2,
         \A i \in lo .. hi : \E j \in lo2 .. hi2 : q2[j] = q[i],
         \A n \in O!Nodes : n[1] = f /\ Unswapped(n) =>
           Unswapped(n)' \/ \E j \in lo2 .. hi2 : q2[j] = n,
         Pending(f)' => \E n \in O!Nodes :
           n = O!cur(f)' /\ (Unswapped(n)' \/ \E j \in lo2 .. hi2 : q2[j] = n)
  PROVE  QPlaced(q2, lo2, hi2)'
<1>. SUFFICES ASSUME NEW h \in O!Fibers, h # f, Pending(h)'
     PROVE \E n \in O!Nodes :
             n = O!cur(h)' /\ (Unswapped(n)' \/ \E j \in lo2 .. hi2 : q2[j] = n)
  BY DEF QPlaced, O!Fibers, O!Nodes
<1>1. Pending(h) /\ O!cur(h)' = O!cur(h)
  BY OthersFacts
<1>2. PICK n \in O!Nodes :
        n = O!cur(h) /\ (Unswapped(n) \/ \E i \in lo .. hi : q[i] = n)
  BY <1>1 DEF QPlaced
<1>3. PICK w \in O!Fibers : w = n[1]
  BY OsciConstants
<1>4. Unswapped(n) => Unswapped(n)' \/ \E j \in lo2 .. hi2 : q2[j] = n
  <2>1. Unswapped(n) = (o_pc[w] \in {"release", "swap"} /\ O!cur(w) = n)
    BY <1>3 DEF Unswapped
  <2>2. Unswapped(n)' = (o_pc'[w] \in {"release", "swap"} /\ O!cur(w)' = n)
    BY <1>3 DEF Unswapped
  <2>3. w # f => o_pc'[w] = o_pc[w] /\ O!cur(w)' = O!cur(w)
    BY OthersFacts
  <2>. QED
    BY <2>1, <2>2, <2>3, <1>3
<1>. QED
  BY <1>1, <1>2, <1>4

(* And who may combine.                                                     *)
LEMMA GrantedKept ==
  ASSUME OneIsGranted, NEW f \in O!Fibers, Others(f), NEW q, NEW lo, NEW hi, QGranted(q, lo, hi),
         Granted(f)' => /\ Granted(f)
                        /\ o_pc'[f] \in O!Combining => o_my'[f].p = q[lo]
                        /\ o_pc'[f] \notin O!Combining => O!cur(f)' = q[lo]
  PROVE  OneIsGranted' /\ QGranted(q, lo, hi)'
<1>1. \A h \in O!Fibers : Granted(h)' => Granted(h)
  BY OthersFacts
<1>2. OneIsGranted'
  BY <1>1 DEF OneIsGranted, O!Fibers
<1>. SUFFICES ASSUME NEW h \in O!Fibers, Granted(h)'
     PROVE /\ lo <= hi
           /\ o_pc'[h] \in O!Combining => o_my'[h].p = q[lo]
           /\ o_pc'[h] \notin O!Combining => O!cur(h)' = q[lo]
  BY <1>2 DEF QGranted, O!Fibers, O!Combining
<1>3. Granted(h) /\ lo <= hi
  BY <1>1 DEF QGranted
<1>4. CASE h = f
  BY <1>3, <1>4
<1>5. CASE h # f
  BY <1>3, <1>5, OthersFacts DEF QGranted
<1>. QED
  BY <1>4, <1>5

(* A step of f that writes no record. *)
LEMMA SameRecords ==
  ASSUME OsciInv, NEW f \in O!Fibers, Alone(f), UNCHANGED <<o_rec, o_toggle>>,
         o_pc[f] # "out", o_pc'[f] # "out", o_my'[f].cur = o_my[f].cur
  PROVE  /\ Others(f) /\ Unserved' /\ O!cur(f)' = O!cur(f) /\ O!own(f)' = O!own(f)
         /\ Pending(f)' = Pending(f) /\ LastNode(f)' = LastNode(f)
<1>1. O!cur(f)' = O!cur(f) /\ LastNode(f)' = LastNode(f)
  BY DEF O!cur, LastNode
<1>2. O!own(f)' = O!own(f)
  BY <1>1 DEF O!own, O!offset
<1>3. Pending(f)' = Pending(f)
  BY <1>2 DEF Pending
<1>4. \A h \in O!Fibers : h # f => O!own(h)' = O!own(h)
  BY DEF Alone, O!own, O!offset, O!cur
<1>5. Others(f)
  BY <1>4 DEF Others
<1>6. Unserved
  BY DEF OsciInv
<1>7. Unserved'
  BY <1>1, <1>5, <1>6, UnservedKept
<1>. QED
  BY <1>1, <1>2, <1>3, <1>5, <1>7

-----------------------------------------------------------------------------
(* The combining point of the group is free again.                          *)
LEMMA OsciReleaseStep ==
  ASSUME OsciInv, NEW f \in O!Fibers, O!Release(f)
  PROVE  OsciInv'
<1>1. OsciType /\ RecType(o_rec) /\ OwnFibers /\ CombiningPoints /\ OsciPosition /\ OneIsGranted
  BY DEF OsciInv
<1>2. /\ o_pc[f] = "release" /\ o_pc' = [o_pc EXCEPT ![f] = "swap"]
      /\ UNCHANGED <<o_tail, o_next, o_rec, o_toggle, o_my, o_result>>
      /\ o_current_node' = [o_current_node EXCEPT ![O!group(f)] = NULL]
  BY DEF O!Release, O!Goto
<1>3. PICK q, lo, hi : NodeQueue(q, lo, hi)
  BY DEF OsciInv
<1>4. /\ QShape(q, lo, hi) /\ QLinks(q, lo, hi) /\ QFirst(q, lo, hi)
      /\ QPlaced(q, lo, hi) /\ QGranted(q, lo, hi)
  BY <1>3 DEF NodeQueue
<1>5. o_pc'[f] = "swap" /\ Alone(f)
  BY <1>1, <1>2 DEF Alone, OsciType
<1>6. /\ Others(f) /\ Unserved' /\ O!cur(f)' = O!cur(f) /\ O!own(f)' = O!own(f)
      /\ Pending(f)' = Pending(f) /\ LastNode(f)' = LastNode(f)
  BY <1>2, <1>5, SameRecords
<1>7. /\ O!cur(f) \in O!Nodes /\ O!cur(f) = LastNode(f) /\ Pending(f) /\ O!own(f).locked
      /\ O!group(O!cur(f)[1]) = O!group(f) /\ o_next[O!cur(f)] = NULL
      /\ o_current_node[O!group(f)] = O!cur(f) /\ o_my[f].i = 0 /\ o_my[f].pred = NULL
      /\ O!cur(f)[1] = f /\ O!group(f) \in O!Groups
  BY <1>1, <1>2, OsciConstants DEF OwnFibers, OwnFiber, LastNode
<1>8. OsciType' /\ RecType(o_rec')
  <2>1. o_pc' \in [O!Fibers -> OsciPCs]
    BY <1>1, <1>2 DEF OsciType, OsciPCs
  <2>2. o_current_node' \in [O!Groups -> O!Nodes \cup {NULL}]
    BY <1>1, <1>2 DEF OsciType
  <2>. QED
    BY <1>1, <1>2, <2>1, <2>2 DEF OsciType, O!Groups, O!Fibers, O!Nodes,
       O!group, OsciPCs,
       O!Combining, OsciLocals
<1>9. \A h \in O!Fibers : h # f /\ o_pc[h] = "release" => O!group(h) # O!group(f)
  <2>. SUFFICES ASSUME NEW h \in O!Fibers, o_pc[h] = "release", O!group(h) = O!group(f)
       PROVE h = f
    OBVIOUS
  <2>1. O!cur(h) = LastNode(h) /\ O!cur(h) = O!cur(f)
    BY <1>1, <1>7 DEF OwnFibers, OwnFiber
  <2>. QED
    BY <2>1, <1>7 DEF LastNode
<1>10. OwnFibers'
  <2>1. OwnFiber(f)'
    BY <1>2, <1>5, <1>6, <1>7 DEF OwnFiber, O!group, O!Nodes, O!Fibers, O!Fresh
  <2>2. \A h \in O!Fibers : h # f =>
          /\ o_pc[h] \in {"release", "swap"} => o_next'[O!cur(h)] = NULL
          /\ o_pc[h] = "release" => o_current_node'[O!group(h)] = O!cur(h)
    BY <1>1, <1>2, <1>9, OsciConstants DEF OwnFibers, OwnFiber, OsciType
  <2>. QED
    BY <1>1, <1>6, <2>1, <2>2, OwnKept
<1>11. CombiningPoints'
  <2>. SUFFICES ASSUME NEW g \in O!Groups, o_current_node'[g] # NULL
       PROVE \E w \in O!Fibers : w = o_current_node'[g][1] /\ O!group(w) = g /\ o_pc'[w] = "release"
    BY DEF CombiningPoints, O!Groups, O!group, O!Fibers
  <2>1. g # O!group(f) /\ o_current_node'[g] = o_current_node[g]
    BY <1>1, <1>2 DEF OsciType
  <2>2. o_current_node[g] \in O!Nodes
    BY <2>1, <1>1 DEF OsciType
  <2>3. PICK w \in O!Fibers : w = o_current_node[g][1]
    BY <2>2, OsciConstants
  <2>4. O!group(w) = g /\ o_pc[w] = "release"
    BY <2>1, <2>3, <1>1 DEF CombiningPoints
  <2>. QED
    BY <2>1, <2>3, <2>4, <1>5 DEF Alone
<1>12. OsciPosition'
  <2>1. Position(f)'
    BY <1>5 DEF Position, O!Combining
  <2>. QED
    BY <2>1, <1>1, <1>2, <1>6, PositionKept
<1>13. OneIsGranted' /\ QGranted(q, lo, hi)'
  <2>1. ~Granted(f)'
    BY <1>5, <1>6, <1>7 DEF Granted, O!Combining
  <2>. QED
    BY <2>1, <1>1, <1>4, <1>6, GrantedKept
<1>14. QShape(q, lo, hi)'
  BY <1>2, <1>4 DEF QShape, O!Nodes
<1>15. QLinks(q, lo, hi)'
  <2>1. \A i \in lo .. hi : i > lo => q[i][1] # f
    BY <1>2, <1>4 DEF QLinks, Opener
  <2>. QED
    BY <2>1, <1>2, <1>4, <1>6, LinksKept
<1>16. QFirst(q, lo, hi)'
  <2>1. lo <= hi => O!cur(f) # q[lo]
    BY <1>2, <1>4 DEF QFirst
  <2>2. lo <= hi /\ q[lo][1] = f /\ q[lo] # LastNode(f)' => Pending(f)' /\ O!cur(f)' = LastNode(f)'
    BY <1>6, <1>7
  <2>. QED
    BY <2>1, <2>2, <1>4, <1>6, FirstKept
<1>17. QPlaced(q, lo, hi)'
  <2>1. \A n \in O!Nodes : n[1] = f /\ Unswapped(n) => Unswapped(n)'
    <3>. SUFFICES ASSUME NEW n \in O!Nodes, n[1] = f, Unswapped(n) PROVE Unswapped(n)'
      OBVIOUS
    <3>1. O!cur(f) = n
      BY DEF Unswapped
    <3>2. Unswapped(n)' = (o_pc'[f] \in {"release", "swap"} /\ O!cur(f)' = n)
      BY DEF Unswapped
    <3>. QED
      BY <3>1, <3>2, <1>5, <1>6
  <2>2. Pending(f)' => \E n \in O!Nodes :
          n = O!cur(f)' /\ (Unswapped(n)' \/ \E j \in lo .. hi : q[j] = n)
    <3>1. PICK n \in O!Nodes : n = O!cur(f)
      BY <1>7
    <3>2. Unswapped(n)' = (o_pc'[f] \in {"release", "swap"} /\ O!cur(f)' = n)
      BY <3>1, <1>7 DEF Unswapped
    <3>. QED
      BY <3>1, <3>2, <1>5, <1>6
  <2>3. \A i \in lo .. hi : \E j \in lo .. hi : q[j] = q[i]
    OBVIOUS
  <2>. QED
    BY <2>1, <2>2, <2>3, <1>4, <1>6, PlacedKept
<1>. QED
  BY <1>6, <1>8, <1>10, <1>11, <1>12, <1>13, <1>14, <1>15, <1>16, <1>17
     DEF OsciInv, NodeQueue

(* CombiningPoints again, where the points stay and nobody leaves one.      *)
LEMMA PointsKept ==
  ASSUME CombiningPoints, OsciType, o_current_node' = o_current_node,
         \A h \in O!Fibers : o_pc[h] = "release" => o_pc'[h] = "release"
  PROVE  CombiningPoints'
<1>. SUFFICES ASSUME NEW g \in O!Groups, o_current_node'[g] # NULL
     PROVE \E w \in O!Fibers : w = o_current_node'[g][1] /\ O!group(w) = g /\ o_pc'[w] = "release"
  BY DEF CombiningPoints, O!Groups, O!group, O!Fibers
<1>1. o_current_node[g] \in O!Nodes
  BY DEF OsciType
<1>2. PICK w \in O!Fibers : w = o_current_node[g][1]
  BY <1>1, OsciConstants
<1>3. O!group(w) = g /\ o_pc[w] = "release"
  BY <1>2 DEF CombiningPoints
<1>. QED
  BY <1>2, <1>3

(* The queue was empty: f combines.                                         *)
LEMMA OsciSwapFirstStep ==
  ASSUME OsciInv, NEW f \in O!Fibers, O!SwapTail(f), o_tail = NULL
  PROVE  OsciInv'
<1>1. OsciType /\ RecType(o_rec) /\ OwnFibers /\ CombiningPoints /\ OsciPosition /\ OneIsGranted
  BY DEF OsciInv
<1>2. /\ o_pc[f] = "swap" /\ o_pc' = [o_pc EXCEPT ![f] = "combine"]
      /\ UNCHANGED <<o_current_node, o_next, o_rec, o_toggle, o_result>>
      /\ o_tail' = O!cur(f)
      /\ o_my' = [o_my EXCEPT ![f].pred = NULL, ![f].p = O!cur(f)]
  BY DEF O!SwapTail, O!Goto, O!nodeVars
<1>3. PICK q, lo, hi : NodeQueue(q, lo, hi)
  BY DEF OsciInv
<1>4. QPlaced(q, lo, hi) /\ QGranted(q, lo, hi) /\ lo > hi
  <2>1. QShape(q, lo, hi) /\ QPlaced(q, lo, hi) /\ QGranted(q, lo, hi)
    BY <1>3 DEF NodeQueue
  <2>2. lo \in Nat /\ hi \in Nat /\ (lo <= hi => hi \in lo .. hi)
    BY <2>1 DEF QShape
  <2>. QED
    BY <2>1, <2>2, OsciConstants DEF QShape
<1>5. \A h \in O!Fibers : ~Granted(h)
  <2>1. lo \in Nat /\ hi \in Nat
    BY <1>3 DEF NodeQueue, QShape
  <2>. QED
    BY <1>4, <2>1 DEF QGranted
<1>6. /\ O!cur(f) \in O!Nodes /\ O!cur(f) = LastNode(f) /\ Pending(f) /\ O!own(f).locked
      /\ O!group(O!cur(f)[1]) = O!group(f) /\ o_next[O!cur(f)] = NULL /\ o_my[f].i = 0
      /\ O!cur(f)[1] = f
  BY <1>1, <1>2 DEF OwnFibers, OwnFiber, LastNode
<1>7. o_pc'[f] = "combine" /\ Alone(f) /\ o_my'[f].cur = o_my[f].cur /\ o_my'[f].pred = NULL
      /\ o_my'[f].p = O!cur(f) /\ o_my'[f].i = 0
  <2>1. o_my[f] \in OsciLocals /\ DOMAIN o_my = O!Fibers /\ DOMAIN o_pc = O!Fibers
    BY <1>1 DEF OsciType
  <2>. QED
    BY <1>2, <1>6, <2>1 DEF Alone, OsciLocals
<1>8. /\ Others(f) /\ Unserved' /\ O!cur(f)' = O!cur(f) /\ O!own(f)' = O!own(f)
      /\ Pending(f)' = Pending(f) /\ LastNode(f)' = LastNode(f)
  BY <1>2, <1>7, SameRecords
<1>9. OsciType' /\ RecType(o_rec')
  <2>1. o_pc' \in [O!Fibers -> OsciPCs]
    BY <1>1, <1>2 DEF OsciType, OsciPCs, O!Combining
  <2>2. o_my' \in [O!Fibers -> OsciLocals]
    <3>1. \A h \in O!Fibers : o_my'[h] \in OsciLocals
      <4>1. o_my[f] \in OsciLocals /\ DOMAIN o_my = O!Fibers
        BY <1>1 DEF OsciType
      <4>2. o_my'[f] = [o_my[f] EXCEPT !.pred = NULL, !.p = O!cur(f)]
        BY <1>2, <4>1
      <4>. QED
        <5>1. o_my'[f] \in OsciLocals
          <6>1. PICK n \in O!Nodes : n = O!cur(f)
            BY <1>6
          <6>2. PICK r \in OsciLocals : r = o_my[f]
            BY <4>1
          <6>3. [r EXCEPT !.pred = NULL, !.p = n] \in OsciLocals
            BY DEF OsciLocals
          <6>4. o_my'[f] = [r EXCEPT !.pred = NULL, !.p = n]
            BY Zenon, <4>2, <6>1, <6>2
          <6>. QED
            BY Zenon, <6>3, <6>4
        <5>. QED
          BY <5>1, <1>1, <1>7 DEF Alone, OsciType
    <3>. QED
      BY <3>1, <1>1, <1>2 DEF OsciType
  <2>. QED
    BY <1>1, <1>2, <1>6, <2>1, <2>2, TypeKept DEF OsciType
<1>10. OwnFibers'
  <2>1. OwnFiber(f)'
    BY <1>7, <1>8, <1>6 DEF OwnFiber, O!group, O!Nodes, O!Fibers, O!Fresh
  <2>. QED
    BY <1>1, <1>2, <1>8, <2>1, OwnKept DEF OwnFibers, OwnFiber
<1>11. CombiningPoints'
  BY <1>1, <1>2, <1>7, PointsKept DEF Alone
<1>12. OsciPosition'
  <2>1. Position(f)'
    <3>1. \A o \in O!Offsets : ~(o < o_my'[f].i)
      BY <1>7, OsciConstants DEF O!Offsets
    <3>. QED
      BY <3>1, <1>6, <1>7, <1>8 DEF Position, O!Offsets, O!Nodes
  <2>. QED
    BY <2>1, <1>1, <1>2, <1>8, PositionKept
<1>13. \A h \in O!Fibers : Granted(h)' => h = f
  BY <1>5, <1>8, OthersFacts
<1>14. PICK n \in O!Nodes : n = O!cur(f)
  BY <1>6
<1>15. QShape(<<n>>, 1, 1)' /\ QLinks(<<n>>, 1, 1)'
  BY <1>2, <1>6, <1>14 DEF QShape, QLinks, O!Nodes
<1>16. QFirst(<<n>>, 1, 1)'
  <2>1. \A h \in O!Fibers : o_pc'[h] \in {"release", "swap", "link"} => O!cur(h)' # n
    <3>. SUFFICES ASSUME NEW h \in O!Fibers, h # f, o_pc[h] \in {"release", "swap", "link"}
         PROVE O!cur(h)' # n
      BY <1>7, <1>8, OthersFacts
    <3>1. O!cur(h) = LastNode(h) /\ O!cur(h)' = O!cur(h)
      BY <1>1, <1>8, OthersFacts DEF OwnFibers, OwnFiber
    <3>. QED
      BY <3>1, <1>6, <1>14 DEF LastNode
  <2>2. n[1] = f /\ n = LastNode(f)'
    BY <1>6, <1>8, <1>14
  <2>. QED
    BY <2>1, <2>2 DEF QFirst, O!Fibers
<1>17. QPlaced(<<n>>, 1, 1)'
  <2>1. \E j \in 1 .. 1 : <<n>>[j] = n
    OBVIOUS
  <2>2. \A m \in O!Nodes : m[1] = f /\ Unswapped(m) => m = n
    BY <1>14 DEF Unswapped
  <2>3. \A i \in lo .. hi : \E j \in 1 .. 1 : <<n>>[j] = q[i]
    <3>1. lo \in Nat /\ hi \in Nat
      BY <1>3 DEF NodeQueue, QShape
    <3>. QED
      BY <3>1, <1>4
  <2>. QED
    BY <2>1, <2>2, <2>3, <1>4, <1>8, <1>14, PlacedKept
<1>18. OneIsGranted' /\ QGranted(<<n>>, 1, 1)'
  <2>1. OneIsGranted'
    BY <1>13 DEF OneIsGranted, O!Fibers
  <2>2. <<n>>[1] = n
    OBVIOUS
  <2>. QED
    BY <2>1, <2>2, <1>7, <1>8, <1>13, <1>14 DEF QGranted, O!Fibers, O!Combining
<1>. QED
  BY <1>8, <1>9, <1>10, <1>11, <1>12, <1>15, <1>16, <1>17, <1>18 DEF OsciInv,
     NodeQueue

(* f is behind the others, and will link its node.                          *)
LEMMA OsciSwapNextStep ==
  ASSUME OsciInv, NEW f \in O!Fibers, O!SwapTail(f), o_tail # NULL
  PROVE  OsciInv'
<1>1. OsciType /\ RecType(o_rec) /\ OwnFibers /\ CombiningPoints /\ OsciPosition /\ OneIsGranted
  BY DEF OsciInv
<1>2. /\ o_pc[f] = "swap" /\ o_pc' = [o_pc EXCEPT ![f] = "link"]
      /\ UNCHANGED <<o_current_node, o_next, o_rec, o_toggle, o_result>>
      /\ o_tail' = O!cur(f)
      /\ o_my' = [o_my EXCEPT ![f].pred = o_tail, ![f].p = NULL]
  BY DEF O!SwapTail, O!Goto, O!nodeVars
<1>3. PICK q, lo, hi : NodeQueue(q, lo, hi)
  BY DEF OsciInv
<1>4. /\ QShape(q, lo, hi) /\ QLinks(q, lo, hi) /\ QFirst(q, lo, hi)
      /\ QPlaced(q, lo, hi) /\ QGranted(q, lo, hi)
  BY <1>3 DEF NodeQueue
<1>5. /\ lo \in Nat \ {0} /\ hi \in Nat /\ lo <= hi /\ o_tail = q[hi] /\ q[hi] \in O!Nodes
      /\ o_next[q[hi]] = NULL /\ q[lo] \in O!Nodes
  BY <1>4 DEF QShape
<1>6. /\ O!cur(f) \in O!Nodes /\ O!cur(f) = LastNode(f) /\ Pending(f) /\ O!own(f).locked
      /\ O!group(O!cur(f)[1]) = O!group(f) /\ o_next[O!cur(f)] = NULL /\ o_my[f].i = 0
      /\ O!cur(f)[1] = f
  BY <1>1, <1>2 DEF OwnFibers, OwnFiber, LastNode
<1>7. o_pc'[f] = "link" /\ Alone(f) /\ o_my'[f].cur = o_my[f].cur /\ o_my'[f].pred = q[hi]
      /\ o_my'[f].i = 0 /\ o_my'[f] \in OsciLocals
  <2>1. o_my[f] \in OsciLocals /\ DOMAIN o_my = O!Fibers /\ DOMAIN o_pc = O!Fibers
    BY <1>1 DEF OsciType
  <2>2. o_my'[f] = [o_my[f] EXCEPT !.pred = q[hi], !.p = NULL]
    BY <1>2, <1>5, <2>1
  <2>. QED
    BY <1>2, <1>5, <1>6, <2>1, <2>2 DEF Alone, OsciLocals
<1>8. /\ Others(f) /\ Unserved' /\ O!cur(f)' = O!cur(f) /\ O!own(f)' = O!own(f)
      /\ Pending(f)' = Pending(f) /\ LastNode(f)' = LastNode(f)
  BY <1>2, <1>7, SameRecords
<1>9. OsciType' /\ RecType(o_rec')
  <2>1. o_pc' \in [O!Fibers -> OsciPCs]
    BY <1>1, <1>2 DEF OsciType, OsciPCs
  <2>2. o_my' \in [O!Fibers -> OsciLocals]
    BY <1>1, <1>2, <1>7 DEF OsciType, Alone
  <2>. QED
    BY <1>1, <1>2, <1>6, <2>1, <2>2, TypeKept DEF OsciType
<1>10. OwnFibers'
  <2>1. OwnFiber(f)'
    BY <1>5, <1>7, <1>8, <1>6, OsciConstants DEF OwnFiber, O!group, O!Nodes,
       O!Fibers, O!Fresh
  <2>. QED
    BY <1>1, <1>2, <1>8, <2>1, OwnKept DEF OwnFibers, OwnFiber
<1>11. CombiningPoints'
  BY <1>1, <1>2, <1>7, PointsKept DEF Alone
<1>12. OsciPosition'
  <2>1. Position(f)'
    BY <1>7 DEF Position, O!Combining
  <2>. QED
    BY <2>1, <1>1, <1>2, <1>8, PositionKept
<1>13. PICK n \in O!Nodes : n = O!cur(f)
  BY <1>6
<1>14. \A i \in lo .. hi : q[i] # n /\ (i > lo => q[i][1] # f)
  <2>. SUFFICES ASSUME NEW i \in lo .. hi PROVE q[i] # n /\ (i > lo => q[i][1] # f)
    OBVIOUS
  <2>1. CASE i > lo
    <3>1. Opener(q[i])
      BY <2>1, <1>4 DEF QLinks
    <3>2. q[i][1] # f
      BY <3>1, <1>2 DEF Opener
    <3>. QED
      BY <3>2, <1>6, <1>13
  <2>2. CASE ~(i > lo)
    <3>1. i = lo
      BY <2>2, <1>5
    <3>. QED
      BY <3>1, <1>2, <1>4, <1>13, <1>5 DEF QFirst
  <2>. QED
    BY <2>1, <2>2
<1>. DEFINE r == [i \in lo .. hi + 1 |-> IF i <= hi THEN q[i] ELSE n]
<1>15. PICK q2 : q2 = r
  OBVIOUS
<1>16. /\ \A i \in lo .. hi : q2[i] = q[i] /\ i \in lo .. hi + 1
       /\ q2[hi + 1] = n /\ q2[lo] = q[lo] /\ hi + 1 \in lo .. hi + 1
       /\ \A i \in lo .. hi + 1 : i \in lo .. hi \/ i = hi + 1
  BY <1>5, <1>15
<1>. HIDE DEF r
<1>17. QShape(q2, lo, hi + 1)'
  <2>1. \A i \in lo .. hi + 1 : q2[i] \in O!Nodes
    BY <1>4, <1>16 DEF QShape
  <2>2. \A i, j \in lo .. hi + 1 : q2[i] = q2[j] => i = j
    BY <1>4, <1>14, <1>16 DEF QShape
  <2>3. o_tail' = q2[hi + 1] /\ o_next'[q2[hi + 1]] = NULL
    BY <1>2, <1>6, <1>13, <1>16
  <2>. QED
    BY <2>1, <2>2, <2>3, <1>5 DEF QShape, O!Nodes
<1>18. QShape(q2, lo, hi) /\ QLinks(q2, lo, hi)
  <2>1. QShape(q2, lo, hi)
    BY <1>4, <1>16 DEF QShape
  <2>2. QLinks(q2, lo, hi)
    <3>1. \A i \in lo .. hi : i > lo => q2[i - 1] = q[i - 1] /\ q2[i] = q[i]
      BY <1>5, <1>16
    <3>. QED
      BY <3>1, <1>4 DEF QLinks
  <2>. QED
    BY <2>1, <2>2
<1>19. QLinks(q2, lo, hi)'
  BY <1>2, <1>8, <1>14, <1>16, <1>18, LinksKept
<1>20. QLinks(q2, lo, hi + 1)'
  <2>. SUFFICES ASSUME NEW i \in lo .. hi + 1, i > lo
       PROVE /\ Opener(q2[i])'
             /\ IF o_pc'[q2[i][1]] = "link"
                THEN o_my'[q2[i][1]].pred = q2[i - 1] /\ o_next'[q2[i - 1]] = NULL
                ELSE o_next'[q2[i - 1]] = q2[i]
    BY DEF QLinks
  <2>1. CASE i \in lo .. hi
    BY <2>1, <1>19 DEF QLinks
  <2>2. CASE i = hi + 1
    <3>1. q2[i] = n /\ q2[i - 1] = q[hi]
      BY <2>2, <1>5, <1>16
    <3>2. Opener(n)'
      <4>1. n[1] = f /\ n = LastNode(f)' /\ o_pc'[f] \in {"link", "wait"} /\ O!cur(f)' = n
            /\ Pending(f)'
        BY <1>6, <1>7, <1>8, <1>13
      <4>2. Opener(n)' = (n = LastNode(f)' /\ o_pc'[f] \in {"link", "wait"} /\ O!cur(f)' = n
                          /\ Pending(f)')
        BY <4>1 DEF Opener
      <4>. QED
        BY <4>1, <4>2
    <3>3. n[1] = f /\ o_next'[q[hi]] = NULL
      BY <1>2, <1>5, <1>6, <1>13
    <3>. QED
      BY <3>1, <3>2, <3>3, <1>7
  <2>. QED
    BY <2>1, <2>2, <1>16
<1>21. QFirst(q2, lo, hi + 1)'
  <2>1. O!cur(f)' # q[lo]
    BY <1>2, <1>4, <1>5, <1>8 DEF QFirst
  <2>2. QFirst(q, lo, hi)'
    BY <2>1, <1>4, <1>6, <1>8, FirstKept
  <2>. QED
    BY <2>2, <1>5, <1>16 DEF QFirst
<1>22. QPlaced(q2, lo, hi + 1)'
  <2>1. \A m \in O!Nodes : m[1] = f /\ Unswapped(m) => m = n
    BY <1>13 DEF Unswapped
  <2>2. \A i \in lo .. hi : \E j \in lo .. hi + 1 : q2[j] = q[i]
    BY <1>16
  <2>3. \E j \in lo .. hi + 1 : q2[j] = n
    BY <1>16
  <2>. QED
    BY <2>1, <2>2, <2>3, <1>4, <1>8, <1>13, PlacedKept
<1>23. OneIsGranted' /\ QGranted(q2, lo, hi + 1)'
  <2>1. ~Granted(f)'
    BY <1>6, <1>7, <1>8 DEF Granted, O!Combining
  <2>2. OneIsGranted' /\ QGranted(q, lo, hi)'
    BY <2>1, <1>1, <1>4, <1>8, GrantedKept
  <2>. QED
    BY <2>2, <1>5, <1>16 DEF QGranted
<1>. QED
  BY <1>8, <1>9, <1>10, <1>11, <1>12, <1>17, <1>20, <1>21, <1>22, <1>23
     DEF OsciInv, NodeQueue

(* pred->next is set.                                                       *)
LEMMA OsciLinkStep ==
  ASSUME OsciInv, NEW f \in O!Fibers, O!Link(f)
  PROVE  OsciInv'
<1>1. OsciType /\ RecType(o_rec) /\ OwnFibers /\ CombiningPoints /\ OsciPosition /\ OneIsGranted
  BY DEF OsciInv
<1>2. /\ o_pc[f] = "link" /\ o_pc' = [o_pc EXCEPT ![f] = "wait"]
      /\ UNCHANGED <<o_tail, o_current_node, o_rec, o_toggle, o_result>>
      /\ o_next' = [o_next EXCEPT ![o_my[f].pred] = O!cur(f)]
      /\ o_my' = [o_my EXCEPT ![f].pred = NULL]
  BY DEF O!Link, O!Goto, O!nodeVars
<1>3. PICK q, lo, hi : NodeQueue(q, lo, hi)
  BY DEF OsciInv
<1>4. /\ QShape(q, lo, hi) /\ QLinks(q, lo, hi) /\ QFirst(q, lo, hi)
      /\ QPlaced(q, lo, hi) /\ QGranted(q, lo, hi)
  BY <1>3 DEF NodeQueue
<1>5. lo \in Nat \ {0} /\ hi \in Nat
  BY <1>4 DEF QShape
<1>6. /\ O!cur(f) \in O!Nodes /\ O!cur(f) = LastNode(f) /\ Pending(f) /\ O!own(f).locked
      /\ O!group(O!cur(f)[1]) = O!group(f) /\ o_my[f].i = 0 /\ O!cur(f)[1] = f
  BY <1>1, <1>2 DEF OwnFibers, OwnFiber, LastNode
<1>7. o_pc'[f] = "wait" /\ Alone(f) /\ o_my'[f].cur = o_my[f].cur /\ o_my'[f].pred = NULL
      /\ o_my'[f].i = 0 /\ o_my'[f] \in OsciLocals
  <2>1. o_my[f] \in OsciLocals /\ DOMAIN o_my = O!Fibers /\ DOMAIN o_pc = O!Fibers
    BY <1>1 DEF OsciType
  <2>2. o_my'[f] = [o_my[f] EXCEPT !.pred = NULL]
    BY <1>2, <2>1
  <2>. QED
    BY <1>2, <1>6, <2>1, <2>2 DEF Alone, OsciLocals
<1>8. /\ Others(f) /\ Unserved' /\ O!cur(f)' = O!cur(f) /\ O!own(f)' = O!own(f)
      /\ Pending(f)' = Pending(f) /\ LastNode(f)' = LastNode(f)
  BY <1>2, <1>7, SameRecords
<1>9. PICK n \in O!Nodes : n = O!cur(f)
  BY <1>6
<1>10. PICK k \in lo .. hi : q[k] = n /\ k > lo
  <2>1. ~Unswapped(n)
    BY <1>2, <1>6, <1>9 DEF Unswapped
  <2>2. PICK k \in lo .. hi : q[k] = n
    BY <2>1, <1>4, <1>6, <1>9 DEF QPlaced
  <2>3. k # lo
    <3>1. lo <= hi
      BY <2>2, <1>5
    <3>. QED
      BY <3>1, <2>2, <1>2, <1>4, <1>9 DEF QFirst
  <2>. QED
    BY <2>2, <2>3, <1>5
<1>11. o_my[f].pred = q[k - 1] /\ o_next[q[k - 1]] = NULL
  BY <1>2, <1>4, <1>6, <1>9, <1>10 DEF QLinks
<1>12. k \in Nat /\ k - 1 \in lo .. hi /\ k - 1 # hi
  BY <1>5, <1>10
<1>13. q[k - 1] \in O!Nodes
  BY <1>4, <1>12 DEF QShape
<1>14. \A m \in O!Nodes : o_next'[m] = IF m = q[k - 1] THEN n ELSE o_next[m]
  BY <1>1, <1>2, <1>9, <1>11, <1>13 DEF OsciType
<1>15. OsciType' /\ RecType(o_rec')
  <2>1. o_pc' \in [O!Fibers -> OsciPCs]
    BY <1>1, <1>2 DEF OsciType, OsciPCs
  <2>2. o_my' \in [O!Fibers -> OsciLocals]
    BY <1>1, <1>2, <1>7 DEF OsciType, Alone
  <2>3. o_next' \in [O!Nodes -> O!Nodes \cup {NULL}]
    BY <1>1, <1>2, <1>6, <1>11, <1>13 DEF OsciType
  <2>. QED
    BY <1>1, <1>2, <2>1, <2>2, <2>3, TypeKept DEF OsciType
<1>16. ASSUME NEW h \in O!Fibers, h # f, o_pc[h] \in {"release", "swap"}
       PROVE  o_next'[O!cur(h)] = NULL
  <2>1. O!cur(h) \in O!Nodes /\ O!cur(h) = LastNode(h) /\ o_next[O!cur(h)] = NULL
        /\ O!cur(h)[1] = h
    BY <1>1, <1>16 DEF OwnFibers, OwnFiber, LastNode
  <2>2. O!cur(h) # q[k - 1]
    <3>1. CASE k - 1 = lo
      <4>1. lo <= hi
        BY <1>5, <1>10
      <4>. QED
        BY <3>1, <4>1, <1>4, <1>16 DEF QFirst
    <3>2. CASE k - 1 > lo
      BY <3>2, <2>1, <1>4, <1>12, <1>16 DEF QLinks, Opener
    <3>. QED
      BY <3>1, <3>2, <1>5, <1>12
  <2>. QED
    BY <2>1, <2>2, <1>14
<1>17. OwnFibers'
  <2>1. OwnFiber(f)'
    BY <1>7, <1>8, <1>6 DEF OwnFiber, O!group, O!Nodes, O!Fibers, O!Fresh
  <2>2. \A h \in O!Fibers : h # f /\ o_pc[h] = "release" =>
          o_current_node'[O!group(h)] = O!cur(h)
    BY <1>1, <1>2 DEF OwnFibers, OwnFiber
  <2>. QED
    BY <1>1, <1>8, <1>16, <2>1, <2>2, OwnKept
<1>18. CombiningPoints'
  BY <1>1, <1>2, <1>7, PointsKept DEF Alone
<1>19. OsciPosition'
  <2>1. Position(f)'
    BY <1>7 DEF Position, O!Combining
  <2>2. \A h \in O!Fibers : o_pc[h] \in O!Combining => o_my[h].p \in O!Nodes
    BY <1>1 DEF OsciPosition, Position
  <2>3. \A h \in O!Fibers : h # f /\ o_pc[h] \in O!Combining =>
           /\ \A o \in O!Offsets :
                o_rec[o_my[h].p][o].completed => o_rec'[o_my[h].p][o].completed
           /\ o_next[o_my[h].p] # NULL => o_next'[o_my[h].p] # NULL
    BY <2>2, <1>2, <1>14, OsciConstants
  <2>. QED
    BY <2>1, <2>3, <1>1, <1>8, PositionKept
<1>20. OneIsGranted' /\ QGranted(q, lo, hi)'
  <2>1. ~Granted(f)'
    BY <1>6, <1>7, <1>8 DEF Granted, O!Combining
  <2>. QED
    BY <2>1, <1>1, <1>4, <1>8, GrantedKept
<1>21. QShape(q, lo, hi)'
  <2>1. lo <= hi => hi \in lo .. hi
    BY <1>5
  <2>2. lo <= hi => q[hi] # q[k - 1]
    BY <2>1, <1>4, <1>12 DEF QShape
  <2>3. lo <= hi => o_next'[q[hi]] = NULL
    BY <2>1, <2>2, <1>4, <1>14 DEF QShape
  <2>. QED
    BY <2>3, <1>2, <1>4 DEF QShape, O!Nodes
<1>22. QLinks(q, lo, hi)'
  <2>. SUFFICES ASSUME NEW i \in lo .. hi, i > lo
       PROVE /\ Opener(q[i])'
             /\ IF o_pc'[q[i][1]] = "link"
                THEN o_my'[q[i][1]].pred = q[i - 1] /\ o_next'[q[i - 1]] = NULL
                ELSE o_next'[q[i - 1]] = q[i]
    BY DEF QLinks
  <2>1. i \in Nat /\ i - 1 \in lo .. hi /\ q[i - 1] \in O!Nodes /\ q[i] \in O!Nodes
    BY <1>4, <1>5 DEF QShape
  <2>2. PICK w \in O!Fibers : w = q[i][1]
    BY <2>1, OsciConstants
  <2>3. O!cur(w) = q[i] /\ Pending(w) /\ q[i] = LastNode(w) /\ o_pc[w] \in {"link", "wait"}
    BY <2>2, <1>4 DEF Opener, QLinks
  <2>4. Opener(q[i])' = (q[i] = LastNode(w)' /\ o_pc'[w] \in {"link", "wait"} /\ O!cur(w)' = q[i]
                         /\ Pending(w)')
    BY <2>2 DEF Opener
  <2>5. IF o_pc[w] = "link" THEN o_my[w].pred = q[i - 1] /\ o_next[q[i - 1]] = NULL
        ELSE o_next[q[i - 1]] = q[i]
    BY <2>2, <1>4 DEF QLinks
  <2>6. CASE w = f
    <3>1. q[i] = n /\ i = k
      BY <2>3, <2>6, <1>4, <1>9, <1>10 DEF QShape
    <3>. QED
      BY <3>1, <2>1, <2>2, <2>3, <2>4, <2>6, <1>7, <1>8, <1>14
  <2>7. CASE w # f
    <3>1. o_pc'[w] = o_pc[w] /\ o_my'[w] = o_my[w] /\ O!cur(w)' = O!cur(w)
          /\ Pending(w)' = Pending(w) /\ LastNode(w)' = LastNode(w)
      BY <2>7, <1>8, OthersFacts
    <3>2. i # k
      BY <2>3, <2>2, <2>7, <1>6, <1>9, <1>10
    <3>3. i - 1 # k - 1
      BY <3>2, <2>1, <1>12
    <3>4. q[i - 1] # q[k - 1]
      BY <3>3, <2>1, <1>4, <1>12 DEF QShape
    <3>5. o_next'[q[i - 1]] = o_next[q[i - 1]]
      BY <3>4, <2>1, <1>14
    <3>. QED
      BY <3>1, <3>5, <2>2, <2>3, <2>4, <2>5
  <2>. QED
    BY <2>6, <2>7
<1>23. QFirst(q, lo, hi)'
  <2>1. lo <= hi /\ q[lo][1] = f /\ q[lo] # LastNode(f)' =>
          Pending(f)' /\ O!cur(f)' = LastNode(f)'
    BY <1>6, <1>8
  <2>. QED
    BY <2>1, <1>4, <1>7, <1>8, FirstKept
<1>24. QPlaced(q, lo, hi)'
  <2>1. \A m \in O!Nodes : ~(m[1] = f /\ Unswapped(m))
    BY <1>2 DEF Unswapped
  <2>2. \A i \in lo .. hi : \E j \in lo .. hi : q[j] = q[i]
    OBVIOUS
  <2>3. \E m \in O!Nodes : m = O!cur(f)' /\ \E j \in lo .. hi : q[j] = m
    BY <1>8, <1>9, <1>10
  <2>. QED
    BY <2>1, <2>2, <2>3, <1>4, <1>8, PlacedKept
<1>. QED
  BY <1>8, <1>15, <1>17, <1>18, <1>19, <1>20, <1>21, <1>22, <1>23, <1>24
     DEF OsciInv, NodeQueue

(* Unlocked, f has been served, or combines from now on.                    *)
LEMMA OsciStopSpinningStep ==
  ASSUME OsciInv, NEW f \in O!Fibers, O!StopSpinning(f)
  PROVE  OsciInv'
<1>1. OsciType /\ RecType(o_rec) /\ OwnFibers /\ CombiningPoints /\ OsciPosition /\ OneIsGranted
  BY DEF OsciInv
<1>2. PICK to \in {"return", "combine"} : to = IF O!own(f).completed THEN "return" ELSE "combine"
  OBVIOUS
<1>3. PICK to_p : to_p = IF O!own(f).completed THEN NULL ELSE O!cur(f)
  OBVIOUS
<1>4. /\ o_pc[f] = "wait" /\ o_pc' = [o_pc EXCEPT ![f] = to]
      /\ ~O!own(f).locked
      /\ UNCHANGED <<o_tail, o_current_node, o_next, o_rec, o_toggle, o_result>>
      /\ o_my' = [o_my EXCEPT ![f].p = to_p]
  BY <1>2, <1>3 DEF O!StopSpinning, O!Goto, O!nodeVars
<1>5. PICK q, lo, hi : NodeQueue(q, lo, hi)
  BY DEF OsciInv
<1>6. /\ QShape(q, lo, hi) /\ QLinks(q, lo, hi) /\ QFirst(q, lo, hi)
      /\ QPlaced(q, lo, hi) /\ QGranted(q, lo, hi)
  BY <1>5 DEF NodeQueue
<1>7. /\ O!cur(f) \in O!Nodes /\ O!group(O!cur(f)[1]) = O!group(f) /\ o_my[f].i = 0
      /\ o_my[f].pred = NULL
  BY <1>1, <1>4 DEF OwnFibers, OwnFiber
<1>8. o_pc'[f] = to /\ Alone(f) /\ o_my'[f].cur = o_my[f].cur /\ o_my'[f].pred = NULL
      /\ o_my'[f].p = to_p /\ o_my'[f].i = 0 /\ o_my'[f] \in OsciLocals
  <2>1. o_my[f] \in OsciLocals /\ DOMAIN o_my = O!Fibers /\ DOMAIN o_pc = O!Fibers
    BY <1>1 DEF OsciType
  <2>2. o_my'[f] = [o_my[f] EXCEPT !.p = to_p]
    BY <1>4, <2>1
  <2>3. to_p \in O!Nodes \cup {NULL}
    BY <1>3, <1>7
  <2>. QED
    BY <1>4, <1>7, <2>1, <2>2, <2>3 DEF Alone, OsciLocals
<1>9. /\ Others(f) /\ Unserved' /\ O!cur(f)' = O!cur(f) /\ O!own(f)' = O!own(f)
      /\ Pending(f)' = Pending(f) /\ LastNode(f)' = LastNode(f)
  BY <1>2, <1>4, <1>8, SameRecords
<1>10. \/ to = "return" /\ ~Pending(f) /\ ~Granted(f)
       \/ to = "combine" /\ to_p = O!cur(f) /\ Pending(f) /\ Granted(f)
  BY <1>2, <1>3, <1>4 DEF Pending, Granted, O!Combining
<1>11. OsciType' /\ RecType(o_rec')
  <2>1. o_pc' \in [O!Fibers -> OsciPCs]
    BY <1>1, <1>2, <1>4 DEF OsciType, OsciPCs, O!Combining
  <2>2. o_my' \in [O!Fibers -> OsciLocals]
    BY <1>1, <1>4, <1>8 DEF OsciType, Alone
  <2>. QED
    BY <1>1, <1>4, <2>1, <2>2, LocalType
<1>12. OwnFibers'
  <2>1. OwnFiber(f)'
    BY <1>2, <1>8, <1>9, <1>7, <1>10 DEF OwnFiber, O!group, O!Nodes, O!Fibers,
       O!Fresh
  <2>. QED
    BY <1>1, <1>4, <1>9, <2>1, OwnKept DEF OwnFibers, OwnFiber
<1>13. CombiningPoints'
  BY <1>1, <1>4, <1>8, PointsKept DEF Alone
<1>14. OsciPosition'
  <2>1. Position(f)'
    <3>1. CASE to = "return"
      BY <3>1, <1>8 DEF Position, O!Combining
    <3>2. CASE to = "combine"
      <4>1. \A o \in O!Offsets : ~(o < o_my'[f].i)
        BY <1>8, OsciConstants DEF O!Offsets
      <4>. QED
        BY <4>1, <3>2, <1>7, <1>8, <1>9, <1>10 DEF Position, O!Offsets, O!Nodes
    <3>. QED
      BY <3>1, <3>2, <1>2
  <2>. QED
    BY <2>1, <1>1, <1>4, <1>9, PositionKept
<1>15. OneIsGranted' /\ QGranted(q, lo, hi)'
  <2>1. CASE to = "return"
    <3>1. ~Granted(f)'
      BY <2>1, <1>8, <1>9, <1>10 DEF Granted, O!Combining
    <3>. QED
      BY <3>1, <1>1, <1>6, <1>9, GrantedKept
  <2>2. CASE to = "combine"
    <3>1. o_my'[f].p = q[lo] /\ O!cur(f)' = q[lo] /\ Granted(f)
      BY <2>2, <1>4, <1>6, <1>8, <1>9, <1>10 DEF QGranted, O!Combining
    <3>. QED
      BY <3>1, <1>1, <1>6, <1>9, GrantedKept
  <2>. QED
    BY <2>1, <2>2, <1>2
<1>16. QShape(q, lo, hi)'
  BY <1>4, <1>6 DEF QShape, O!Nodes
<1>17. QLinks(q, lo, hi)'
  <2>1. \A i \in lo .. hi : i > lo => q[i][1] # f
    <3>. SUFFICES ASSUME NEW i \in lo .. hi, i > lo, q[i][1] = f PROVE FALSE
      OBVIOUS
    <3>1. O!cur(f) = q[i] /\ Pending(f)
      BY <1>6 DEF QLinks, Opener
    <3>2. q[i] = q[lo]
      BY <3>1, <1>4, <1>6, <1>10 DEF QGranted, O!Combining
    <3>3. lo \in lo .. hi /\ lo # i
      BY <1>6 DEF QShape
    <3>. QED
      BY <3>2, <3>3, <1>6 DEF QShape
  <2>. QED
    BY <2>1, <1>4, <1>6, <1>9, LinksKept
<1>18. QFirst(q, lo, hi)'
  <2>1. lo <= hi /\ q[lo][1] = f /\ q[lo] # LastNode(f)' =>
          Pending(f)' /\ O!cur(f)' = LastNode(f)'
    BY <1>6, <1>9 DEF QFirst
  <2>. QED
    BY <2>1, <1>2, <1>6, <1>8, <1>9, FirstKept
<1>19. QPlaced(q, lo, hi)'
  <2>1. \A m \in O!Nodes : ~(m[1] = f /\ Unswapped(m))
    BY <1>4 DEF Unswapped
  <2>2. \A i \in lo .. hi : \E j \in lo .. hi : q[j] = q[i]
    OBVIOUS
  <2>3. Pending(f)' => \E m \in O!Nodes : m = O!cur(f)' /\ \E j \in lo .. hi : q[j] = m
    <3>1. Pending(f) => Granted(f)
      BY <1>10
    <3>2. Granted(f) => lo <= hi /\ O!cur(f) = q[lo]
      BY <1>4, <1>6 DEF QGranted, O!Combining
    <3>3. lo <= hi => lo \in lo .. hi
      BY <1>6 DEF QShape
    <3>. QED
      BY <3>1, <3>2, <3>3, <1>7, <1>9
  <2>. QED
    BY <2>1, <2>2, <2>3, <1>6, <1>9, PlacedKept
<1>. QED
  BY <1>9, <1>11, <1>12, <1>13, <1>14, <1>15, <1>16, <1>17, <1>18, <1>19
     DEF OsciInv, NodeQueue

-----------------------------------------------------------------------------
(* f takes its answer, and leaves.                                          *)
LEMMA OsciReturnStep ==
  ASSUME OsciInv, NEW f \in O!Fibers, O!Return(f)
  PROVE  OsciInv'
<1>1. OsciType /\ RecType(o_rec) /\ OwnFibers /\ CombiningPoints /\ OsciPosition /\ OneIsGranted
      /\ Unserved
  BY DEF OsciInv
<1>2. /\ o_pc[f] = "return" /\ o_pc' = [o_pc EXCEPT ![f] = "out"]
      /\ UNCHANGED <<o_tail, o_current_node, o_next, o_toggle>>
      /\ \E r : o_result' = [o_result EXCEPT ![f] = r]
      /\ o_my' = [o_my EXCEPT ![f] = O!Fresh]
      /\ o_rec' = [o_rec EXCEPT ![O!cur(f)][O!offset(f)] = O!Unused]
  BY DEF O!Return, O!Goto
<1>3. PICK q, lo, hi : NodeQueue(q, lo, hi)
  BY DEF OsciInv
<1>4. /\ QShape(q, lo, hi) /\ QLinks(q, lo, hi) /\ QFirst(q, lo, hi)
      /\ QPlaced(q, lo, hi) /\ QGranted(q, lo, hi)
  BY <1>3 DEF NodeQueue
<1>5. PICK n \in O!Nodes : n = O!cur(f) /\ O!group(n[1]) = O!group(f)
  BY <1>1, <1>2 DEF OwnFibers, OwnFiber
<1>6. PICK o \in O!Offsets : o = O!offset(f)
  BY OsciConstants
<1>7. o_rec[n][o].completed /\ ~Pending(f)
  BY <1>1, <1>2, <1>5, <1>6 DEF OwnFibers, OwnFiber, Pending, O!own
<1>8. o_pc'[f] = "out" /\ Alone(f) /\ o_my'[f] = O!Fresh /\ O!Fresh \in OsciLocals
  BY <1>1, <1>2 DEF OsciType, Alone, O!Fresh, OsciLocals
<1>9. /\ RecType(o_rec') /\ o_rec'[n][o] = O!Unused
      /\ \A m \in O!Nodes, x \in O!Offsets : m # n \/ x # o => o_rec'[m][x] = o_rec[m][x]
  <2>1. DOMAIN O!Unused = {"arg_ret", "locked", "completed"} /\ O!Unused.locked \in BOOLEAN
        /\ O!Unused.completed \in BOOLEAN
    BY DEF O!Unused
  <2>2. o_rec' = [o_rec EXCEPT ![n][o] = O!Unused]
    BY <1>2, <1>5, <1>6
  <2>. QED
    BY <2>1, <2>2, <1>1, WriteRecord
<1>10. O!Unused.completed
  BY DEF O!Unused
<1>11. Others(f) /\ ~Pending(f)' /\ ~Granted(f)'
  <2>1. \A h \in O!Fibers : h # f /\ o_pc[h] # "out" => O!own(h)' = O!own(h)
    BY <1>1, <1>5, <1>6, <1>8, <1>9, OwnSame DEF Alone
  <2>2. ~Pending(f)'
    BY <1>8 DEF Pending
  <2>. QED
    BY <2>1, <2>2, <1>2, <1>8 DEF Others, Granted, O!Combining
<1>12. OsciType'
  <2>1. o_pc' \in [O!Fibers -> OsciPCs]
    BY <1>1, <1>2 DEF OsciType, OsciPCs
  <2>2. o_my' \in [O!Fibers -> OsciLocals]
    BY <1>1, <1>2, <1>8 DEF OsciType
  <2>3. DOMAIN o_result' = O!Fibers
    BY <1>1, <1>2 DEF OsciType
  <2>. QED
    BY <1>1, <1>2, <2>1, <2>2, <2>3 DEF OsciType, O!Groups, O!Fibers, O!Nodes,
       O!group, OsciPCs,
       O!Combining, OsciLocals
<1>13. OwnFibers'
  <2>1. OwnFiber(f)'
    BY <1>8 DEF OwnFiber, O!Fresh
  <2>. QED
    BY <1>1, <1>2, <1>11, <2>1, OwnKept DEF OwnFibers, OwnFiber
<1>14. CombiningPoints'
  BY <1>1, <1>2, <1>8, PointsKept DEF Alone
<1>15. \A m \in O!Nodes, x \in O!Offsets :
         /\ o_rec[m][x].completed => o_rec'[m][x].completed
         /\ ~o_rec'[m][x].completed =>
              ~o_rec[m][x].completed /\ (m # O!cur(f) \/ x # O!offset(f))
  BY <1>5, <1>6, <1>9, <1>10
<1>16. Unserved'
  BY <1>1, <1>11, <1>15, UnservedKept
<1>17. OsciPosition'
  <2>1. Position(f)'
    BY <1>8 DEF Position, O!Combining
  <2>2. \A h \in O!Fibers : o_pc[h] \in O!Combining => o_my[h].p \in O!Nodes
    BY <1>1 DEF OsciPosition, Position
  <2>. QED
    BY <2>1, <2>2, <1>1, <1>2, <1>11, <1>15, PositionKept
<1>18. OneIsGranted' /\ QGranted(q, lo, hi)'
  BY <1>1, <1>4, <1>11, GrantedKept
<1>19. QShape(q, lo, hi)'
  BY <1>2, <1>4 DEF QShape, O!Nodes
<1>20. QLinks(q, lo, hi)'
  <2>1. \A i \in lo .. hi : i > lo => q[i][1] # f
    BY <1>2, <1>4 DEF QLinks, Opener
  <2>. QED
    BY <2>1, <1>2, <1>4, <1>11, LinksKept
<1>21. QFirst(q, lo, hi)'
  <2>1. LastNode(f)' = LastNode(f)
    BY <1>2 DEF LastNode
  <2>2. lo <= hi /\ q[lo][1] = f => q[lo] = LastNode(f)
    BY <1>4, <1>7 DEF QFirst
  <2>. QED
    BY <2>1, <2>2, <1>4, <1>8, <1>11, FirstKept
<1>22. QPlaced(q, lo, hi)'
  <2>1. \A m \in O!Nodes : ~(m[1] = f /\ Unswapped(m))
    BY <1>2 DEF Unswapped
  <2>2. \A i \in lo .. hi : \E j \in lo .. hi : q[j] = q[i]
    OBVIOUS
  <2>. QED
    BY <2>1, <2>2, <1>4, <1>11, PlacedKept
<1>. QED
  BY <1>9, <1>12, <1>13, <1>14, <1>16, <1>17, <1>18, <1>19, <1>20, <1>21, <1>22
     DEF OsciInv, NodeQueue

(* Of the two nodes of a fiber outside a call, nobody has the next one.     *)
LEMMA NextNodeIsFree ==
  ASSUME OsciInv, NEW f \in O!Fibers, o_pc[f] = "out", NEW q, NEW lo, NEW hi,
         NodeQueue(q, lo, hi)
  PROVE  /\ \A i \in lo .. hi : q[i] # NextNode(f)
         /\ lo <= hi /\ q[lo][1] = f => q[lo] = LastNode(f)
         /\ \A h \in O!Fibers : Pending(h) => O!cur(h) # NextNode(f)
         /\ \A o \in O!Offsets : o_rec[NextNode(f)][o].completed
<1>1. OsciType /\ Unserved
  BY DEF OsciInv
<1>2. /\ QShape(q, lo, hi) /\ QLinks(q, lo, hi) /\ QFirst(q, lo, hi) /\ QPlaced(q, lo, hi)
  BY DEF NodeQueue
<1>3. LastNode(f) # NextNode(f) /\ NextNode(f)[1] = f /\ NextNode(f) \in O!Nodes
  BY <1>1, TwoNodes
<1>4. ~Pending(f)
  BY DEF Pending
<1>5. lo <= hi /\ q[lo][1] = f => q[lo] = LastNode(f)
  BY <1>2, <1>4 DEF QFirst
<1>6. ASSUME NEW i \in lo .. hi PROVE q[i] # NextNode(f)
  <2>1. CASE i > lo
    BY <2>1, <1>2, <1>3 DEF QLinks, Opener
  <2>2. CASE ~(i > lo)
    <3>1. i = lo /\ lo <= hi
      BY <2>2, <1>2 DEF QShape
    <3>. QED
      BY <3>1, <1>3, <1>5
  <2>. QED
    BY <2>1, <2>2
<1>7. ASSUME NEW h \in O!Fibers, Pending(h) PROVE O!cur(h) # NextNode(f)
  <2>1. PICK n \in O!Nodes : n = O!cur(h) /\ (Unswapped(n) \/ \E i \in lo .. hi : q[i] = n)
    BY <1>2, <1>7 DEF QPlaced
  <2>2. n = NextNode(f) => ~Unswapped(n)
    BY <1>3 DEF Unswapped
  <2>. QED
    BY <2>1, <2>2, <1>6
<1>8. ASSUME NEW o \in O!Offsets PROVE o_rec[NextNode(f)][o].completed
  <2>. SUFFICES ASSUME ~o_rec[NextNode(f)][o].completed PROVE FALSE
    OBVIOUS
  <2>1. PICK h \in O!Fibers : O!offset(h) = o /\ o_pc[h] # "out" /\ O!cur(h) = NextNode(f)
    BY <1>1, <1>3 DEF Unserved
  <2>2. Pending(h)
    BY <2>1 DEF Pending, O!own
  <2>. QED
    BY <2>1, <2>2, <1>7
<1>. QED
  BY <1>5, <1>6, <1>7, <1>8

(* What Open and Join have in common: f announces its request in a node     *)
(* that is not in the queue.                                                *)
LEMMA AnnounceRequest ==
  ASSUME OsciInv, NEW f \in O!Fibers, o_pc[f] = "out", Alone(f), o_pc'[f] # "out",
         NEW n \in O!Nodes, O!group(n[1]) = O!group(f), o_my'[f].cur = n,
         NEW a, o_rec' = [o_rec EXCEPT ![n][O!offset(f)] =
                           [arg_ret |-> a, locked |-> TRUE, completed |-> FALSE]],
         \A h \in O!Fibers : h # f => o_toggle'[h] = o_toggle[h],
         o_pc'[f] \notin O!Combining,
         NEW q, NEW lo, NEW hi, NodeQueue(q, lo, hi), \A i \in lo .. hi : q[i] # n
  PROVE  /\ Others(f) /\ RecType(o_rec') /\ Unserved'
         /\ O!cur(f)' = n /\ Pending(f)' /\ ~Granted(f)' /\ O!own(f)'.locked
         /\ OneIsGranted' /\ QGranted(q, lo, hi)'
         /\ \A h \in O!Fibers : h # f /\ o_pc[h] \in O!Combining =>
              /\ o_my[h].p \in O!Nodes /\ o_my[h].p # n
              /\ \A o \in O!Offsets : o_rec'[o_my[h].p][o] = o_rec[o_my[h].p][o]
<1>1. RecType(o_rec) /\ OwnFibers /\ Unserved /\ OsciPosition /\ OneIsGranted
  BY DEF OsciInv
<1>2. PICK o \in O!Offsets : o = O!offset(f)
  BY OsciConstants
<1>3. o_rec' = [o_rec EXCEPT ![n][o] = [arg_ret |-> a, locked |-> TRUE, completed |-> FALSE]]
  BY <1>2
<1>5. /\ RecType(o_rec') /\ o_rec'[n][o].locked /\ ~o_rec'[n][o].completed
      /\ \A m \in O!Nodes, x \in O!Offsets : m # n \/ x # o => o_rec'[m][x] = o_rec[m][x]
  BY ONLY <1>1, <1>3, WriteRequest, n \in O!Nodes, o \in O!Offsets
<1>6. Others(f)
  <2>1. \A h \in O!Fibers : h # f /\ o_pc[h] # "out" => O!own(h)' = O!own(h)
    BY <1>1, <1>2, <1>5, OwnSame DEF Alone
  <2>. QED
    BY <2>1 DEF Others
<1>7. O!cur(f)' = n
  BY DEF O!cur
<1>8. O!own(f)' = o_rec'[n][o]
  <2>1. O!own(f)' = o_rec'[O!cur(f)'][o]
    BY <1>2 DEF O!own, O!offset
  <2>. QED
    BY <2>1, <1>7
<1>9. Pending(f)' /\ ~Granted(f)' /\ O!own(f)'.locked
  <2>1. Pending(f)'
    BY <1>5, <1>8 DEF Pending
  <2>. QED
    BY <2>1, <1>5, <1>8 DEF Granted, O!Combining
<1>10. Unserved'
  <2>1. \A m \in O!Nodes, x \in O!Offsets : ~o_rec'[m][x].completed =>
           \/ m = O!cur(f)' /\ x = O!offset(f) /\ o_pc'[f] # "out"
           \/ ~o_rec[m][x].completed
    BY <1>2, <1>5, <1>7
  <2>. QED
    BY <2>1, <1>1, <1>6, UnservedKept
<1>11. QGranted(q, lo, hi) /\ QShape(q, lo, hi)
  BY DEF NodeQueue
<1>12. OneIsGranted' /\ QGranted(q, lo, hi)'
  BY <1>1, <1>6, <1>9, <1>11, GrantedKept
<1>13. ASSUME NEW h \in O!Fibers, h # f, o_pc[h] \in O!Combining
       PROVE /\ o_my[h].p \in O!Nodes /\ o_my[h].p # n
             /\ \A x \in O!Offsets : o_rec'[o_my[h].p][x] = o_rec[o_my[h].p][x]
  <2>1. lo <= hi /\ o_my[h].p = q[lo]
    BY <1>11, <1>13 DEF QGranted, Granted
  <2>2. lo \in lo .. hi
    BY <2>1, <1>11 DEF QShape
  <2>3. o_my[h].p \in O!Nodes /\ o_my[h].p # n
    BY <2>1, <2>2, <1>11 DEF QShape
  <2>. QED
    BY <2>3, <1>5
<1>. QED
  BY <1>5, <1>6, <1>7, <1>9, <1>10, <1>12, <1>13

(* The node of f goes to the combining point.                               *)
LEMMA OsciOpenStep ==
  ASSUME OsciInv, NEW f \in O!Fibers, NEW a \in Args, O!Open(f, a)
  PROVE  OsciInv'
<1>1. OsciType /\ RecType(o_rec) /\ OwnFibers /\ CombiningPoints /\ OsciPosition
  BY DEF OsciInv
<1>2. PICK n \in O!Nodes : n = NextNode(f) /\ n[1] = f /\ n # LastNode(f)
  BY <1>1, TwoNodes
<1>3. /\ o_pc[f] = "out" /\ o_pc' = [o_pc EXCEPT ![f] = "release"]
      /\ o_current_node[O!group(f)] = NULL
      /\ o_current_node' = [o_current_node EXCEPT ![O!group(f)] = n]
      /\ o_rec' = [o_rec EXCEPT ![n][O!offset(f)] =
                     [arg_ret |-> a, locked |-> TRUE, completed |-> FALSE]]
      /\ o_next' = [o_next EXCEPT ![n] = NULL]
      /\ o_my' = [o_my EXCEPT ![f].cur = n]
      /\ o_toggle' = [o_toggle EXCEPT ![f] = 1 - @]
      /\ o_result' = [o_result EXCEPT ![f] = NULL]
      /\ o_tail' = o_tail
  BY <1>2 DEF O!Open, O!Goto, O!Request, O!mynode, NextNode
<1>4. PICK q, lo, hi : NodeQueue(q, lo, hi)
  BY DEF OsciInv
<1>5. /\ QShape(q, lo, hi) /\ QLinks(q, lo, hi) /\ QFirst(q, lo, hi)
      /\ QPlaced(q, lo, hi) /\ QGranted(q, lo, hi)
  BY <1>4 DEF NodeQueue
<1>6. (\A i \in lo .. hi : q[i] # n) /\ (lo <= hi /\ q[lo][1] = f => q[lo] = LastNode(f))
  BY <1>2, <1>3, <1>4, NextNodeIsFree
<1>7. o_pc'[f] = "release" /\ Alone(f) /\ o_my'[f].cur = n /\ o_my'[f].pred = NULL
      /\ o_my'[f].i = 0 /\ o_my'[f] \in OsciLocals
  <2>1. o_my[f] \in OsciLocals /\ DOMAIN o_my = O!Fibers /\ DOMAIN o_pc = O!Fibers
    BY <1>1 DEF OsciType
  <2>2. o_my'[f] = [o_my[f] EXCEPT !.cur = n]
    BY <1>3, <2>1
  <2>3. o_my[f].pred = NULL /\ o_my[f].i = 0
    BY <1>1, <1>3 DEF OwnFibers, OwnFiber
  <2>. QED
    BY <1>3, <2>1, <2>2, <2>3 DEF Alone, OsciLocals
<1>8. (\A h \in O!Fibers : h # f => o_toggle'[h] = o_toggle[h])
      /\ o_toggle'[f] = 1 - o_toggle[f] /\ o_toggle[f] \in {0, 1}
  BY <1>1, <1>3 DEF OsciType
<1>9. /\ Others(f) /\ RecType(o_rec') /\ Unserved'
      /\ O!cur(f)' = n /\ Pending(f)' /\ ~Granted(f)' /\ O!own(f)'.locked
      /\ OneIsGranted' /\ QGranted(q, lo, hi)'
      /\ \A h \in O!Fibers : h # f /\ o_pc[h] \in O!Combining =>
           /\ o_my[h].p \in O!Nodes /\ o_my[h].p # n
           /\ \A o \in O!Offsets : o_rec'[o_my[h].p][o] = o_rec[o_my[h].p][o]
  <2>1. o_pc'[f] \notin O!Combining /\ o_pc'[f] # "out" /\ O!group(n[1]) = O!group(f)
    BY <1>2, <1>7 DEF O!Combining
  <2>2. o_pc[f] = "out"
        /\ o_rec' = [o_rec EXCEPT ![n][O!offset(f)] =
                       [arg_ret |-> a, locked |-> TRUE, completed |-> FALSE]]
    BY <1>3
  <2>3. /\ Alone(f) /\ o_my'[f].cur = n /\ \A i \in lo .. hi : q[i] # n
        /\ \A h \in O!Fibers : h # f => o_toggle'[h] = o_toggle[h]
    BY <1>6, <1>7, <1>8
  <2>. QED
    BY <2>1, <2>2, <2>3, <1>4, AnnounceRequest
<1>10. LastNode(f)' = n
  BY <1>2, <1>8 DEF LastNode, NextNode
<1>11. \A m \in O!Nodes : m # n => o_next'[m] = o_next[m]
  BY <1>1, <1>3 DEF OsciType
<1>12. o_next'[n] = NULL
  BY <1>1, <1>3 DEF OsciType
<1>13. O!group(f) \in O!Groups
  BY OsciConstants
<1>14. OsciType'
  <2>1. o_pc' \in [O!Fibers -> OsciPCs]
    BY <1>1, <1>3 DEF OsciType, OsciPCs
  <2>2. o_my' \in [O!Fibers -> OsciLocals]
    BY <1>1, <1>3, <1>7 DEF OsciType, Alone
  <2>3. DOMAIN o_result' = O!Fibers /\ o_next' \in [O!Nodes -> O!Nodes \cup {NULL}]
        /\ o_current_node' \in [O!Groups -> O!Nodes \cup {NULL}]
    BY <1>1, <1>3 DEF OsciType
  <2>4. o_toggle' \in [O!Fibers -> {0, 1}]
    BY <1>1, <1>3, <1>8 DEF OsciType
  <2>. QED
    BY <1>1, <1>3, <2>1, <2>2, <2>3, <2>4 DEF OsciType, O!Groups, O!Fibers,
       O!Nodes, O!group,
       OsciPCs, O!Combining, OsciLocals
<1>15. OwnFibers'
  <2>1. o_current_node'[O!group(f)] = n
    BY <1>1, <1>3, <1>13 DEF OsciType
  <2>2. OwnFiber(f)'
    BY <2>1, <1>2, <1>7, <1>9, <1>10, <1>12 DEF OwnFiber, O!group, O!Nodes,
       O!Fibers, O!Fresh
  <2>3. ASSUME NEW h \in O!Fibers, h # f, o_pc[h] \in {"release", "swap"}
        PROVE  o_next'[O!cur(h)] = NULL
    <3>1. O!cur(h) \in O!Nodes /\ o_next[O!cur(h)] = NULL
      BY <2>3, <1>1 DEF OwnFibers, OwnFiber
    <3>. QED
      BY <3>1, <1>11, <1>12
  <2>4. ASSUME NEW h \in O!Fibers, h # f, o_pc[h] = "release"
        PROVE  o_current_node'[O!group(h)] = O!cur(h)
    <3>1. o_current_node[O!group(h)] = O!cur(h) /\ O!cur(h) \in O!Nodes /\ O!group(h) \in O!Groups
      BY <2>4, <1>1, OsciConstants DEF OwnFibers, OwnFiber
    <3>2. O!group(h) # O!group(f)
      BY <3>1, <1>3, OsciConstants
    <3>. QED
      BY <3>1, <3>2, <1>1, <1>3 DEF OsciType
  <2>. QED
    BY <1>1, <1>9, <2>2, <2>3, <2>4, OwnKept
<1>16. CombiningPoints'
  <2>. SUFFICES ASSUME NEW g \in O!Groups, o_current_node'[g] # NULL
       PROVE \E w \in O!Fibers : w = o_current_node'[g][1] /\ O!group(w) = g /\ o_pc'[w] = "release"
    BY DEF CombiningPoints, O!Groups, O!group, O!Fibers
  <2>1. CASE g = O!group(f)
    <3>1. o_current_node'[g] = n
      BY <2>1, <1>1, <1>3, <1>13 DEF OsciType
    <3>. QED
      BY <3>1, <2>1, <1>2, <1>7
  <2>2. CASE g # O!group(f)
    <3>1. o_current_node'[g] = o_current_node[g] /\ o_current_node[g] \in O!Nodes
      BY <2>2, <1>1, <1>3 DEF OsciType
    <3>2. PICK w \in O!Fibers : w = o_current_node[g][1]
      BY <3>1, OsciConstants
    <3>3. O!group(w) = g /\ o_pc[w] = "release"
      BY <3>1, <3>2, <1>1 DEF CombiningPoints
    <3>. QED
      BY <3>1, <3>2, <3>3, <1>3, <1>7 DEF Alone
  <2>. QED
    BY <2>1, <2>2
<1>17. OsciPosition'
  <2>1. Position(f)'
    BY <1>7 DEF Position, O!Combining
  <2>. QED
    BY <2>1, <1>1, <1>9, <1>11, PositionKept
<1>18. QShape(q, lo, hi)'
  <2>1. lo <= hi => o_next'[q[hi]] = NULL
    <3>1. lo <= hi => hi \in lo .. hi
      BY <1>5 DEF QShape
    <3>. QED
      BY <3>1, <1>5, <1>6, <1>11 DEF QShape
  <2>. QED
    BY <2>1, <1>3, <1>5 DEF QShape, O!Nodes
<1>19. QLinks(q, lo, hi)'
  <2>1. \A i \in lo .. hi : i > lo => q[i][1] # f
    BY <1>3, <1>5 DEF QLinks, Opener
  <2>2. \A i \in lo .. hi : i > lo => o_next'[q[i - 1]] = o_next[q[i - 1]]
    <3>1. \A i \in lo .. hi : i > lo => i - 1 \in lo .. hi
      BY <1>5 DEF QShape
    <3>. QED
      BY <3>1, <1>5, <1>6, <1>11 DEF QShape
  <2>. QED
    BY <2>1, <2>2, <1>5, <1>9, LinksKept
<1>20. QFirst(q, lo, hi)'
  <2>1. lo <= hi => lo \in lo .. hi
    BY <1>5 DEF QShape
  <2>2. lo <= hi => q[lo] # n
    BY <2>1, <1>6
  <2>. QED
    BY <2>2, <1>5, <1>9, <1>10, FirstKept
<1>21. QPlaced(q, lo, hi)'
  <2>1. \A m \in O!Nodes : ~(m[1] = f /\ Unswapped(m))
    BY <1>3 DEF Unswapped
  <2>2. \A i \in lo .. hi : \E j \in lo .. hi : q[j] = q[i]
    OBVIOUS
  <2>3. Unswapped(n)'
    <3>1. Unswapped(n)' = (o_pc'[f] \in {"release", "swap"} /\ O!cur(f)' = n)
      BY <1>2 DEF Unswapped
    <3>. QED
      BY <3>1, <1>7, <1>9
  <2>. QED
    BY <2>1, <2>2, <2>3, <1>5, <1>9, PlacedKept
<1>. QED
  BY <1>9, <1>14, <1>15, <1>16, <1>17, <1>18, <1>19, <1>20, <1>21 DEF OsciInv,
     NodeQueue

(* f finds the node of another one there, and joins it.                     *)
LEMMA OsciJoinStep ==
  ASSUME OsciInv, NEW f \in O!Fibers, NEW a \in Args, O!Join(f, a)
  PROVE  OsciInv'
<1>1. OsciType /\ RecType(o_rec) /\ OwnFibers /\ CombiningPoints /\ OsciPosition
  BY DEF OsciInv
<1>2. /\ o_current_node[O!group(f)] # NULL /\ O!group(f) \in O!Groups
  BY OsciConstants DEF O!Join
<1>3. PICK n \in O!Nodes : n = o_current_node[O!group(f)]
  BY <1>1, <1>2 DEF OsciType
<1>4. /\ o_pc[f] = "out" /\ o_pc' = [o_pc EXCEPT ![f] = "wait"]
      /\ o_rec' = [o_rec EXCEPT ![n][O!offset(f)] =
                     [arg_ret |-> a, locked |-> TRUE, completed |-> FALSE]]
      /\ o_my' = [o_my EXCEPT ![f].cur = n]
      /\ o_result' = [o_result EXCEPT ![f] = NULL]
      /\ UNCHANGED <<o_tail, o_current_node, o_next, o_toggle>>
  BY <1>3 DEF O!Join, O!Goto, O!Request
<1>5. PICK w \in O!Fibers : w = n[1]
  BY OsciConstants
<1>6. O!group(w) = O!group(f) /\ o_pc[w] = "release" /\ w # f
  BY <1>1, <1>2, <1>3, <1>4, <1>5 DEF CombiningPoints
<1>7. O!cur(w) = n
  BY <1>1, <1>3, <1>6 DEF OwnFibers, OwnFiber
<1>8. PICK q, lo, hi : NodeQueue(q, lo, hi)
  BY DEF OsciInv
<1>9. /\ QShape(q, lo, hi) /\ QLinks(q, lo, hi) /\ QFirst(q, lo, hi)
      /\ QPlaced(q, lo, hi) /\ QGranted(q, lo, hi)
  BY <1>8 DEF NodeQueue
<1>10. ASSUME NEW i \in lo .. hi PROVE q[i] # n
  <2>1. CASE i > lo
    BY <2>1, <1>5, <1>6, <1>9 DEF QLinks, Opener
  <2>2. CASE ~(i > lo)
    <3>1. i = lo /\ lo <= hi
      BY <2>2, <1>9 DEF QShape
    <3>. QED
      BY <3>1, <1>6, <1>7, <1>9 DEF QFirst
  <2>. QED
    BY <2>1, <2>2
<1>11. o_pc'[f] = "wait" /\ Alone(f) /\ o_my'[f].cur = n /\ o_my'[f].pred = NULL
       /\ o_my'[f].i = 0 /\ o_my'[f] \in OsciLocals
  <2>1. o_my[f] \in OsciLocals /\ DOMAIN o_my = O!Fibers /\ DOMAIN o_pc = O!Fibers
    BY <1>1 DEF OsciType
  <2>2. o_my'[f] = [o_my[f] EXCEPT !.cur = n]
    BY <1>4, <2>1
  <2>3. o_my[f].pred = NULL /\ o_my[f].i = 0
    BY <1>1, <1>4 DEF OwnFibers, OwnFiber
  <2>. QED
    BY <1>4, <2>1, <2>2, <2>3 DEF Alone, OsciLocals
<1>12. /\ Others(f) /\ RecType(o_rec') /\ Unserved'
       /\ O!cur(f)' = n /\ Pending(f)' /\ ~Granted(f)' /\ O!own(f)'.locked
       /\ OneIsGranted' /\ QGranted(q, lo, hi)'
       /\ \A h \in O!Fibers : h # f /\ o_pc[h] \in O!Combining =>
            /\ o_my[h].p \in O!Nodes /\ o_my[h].p # n
            /\ \A o \in O!Offsets : o_rec'[o_my[h].p][o] = o_rec[o_my[h].p][o]
  <2>1. o_pc'[f] \notin O!Combining /\ o_pc'[f] # "out" /\ O!group(n[1]) = O!group(f)
    BY <1>5, <1>6, <1>11 DEF O!Combining
  <2>2. \A h \in O!Fibers : o_toggle'[h] = o_toggle[h]
    BY <1>4
  <2>. QED
    BY <2>1, <2>2, <1>4, <1>8, <1>10, <1>11, AnnounceRequest
<1>13. OsciType'
  <2>1. o_pc' \in [O!Fibers -> OsciPCs]
    BY <1>1, <1>4 DEF OsciType, OsciPCs
  <2>2. o_my' \in [O!Fibers -> OsciLocals]
    BY <1>1, <1>4, <1>11 DEF OsciType, Alone
  <2>3. DOMAIN o_result' = O!Fibers
    BY <1>1, <1>4 DEF OsciType
  <2>. QED
    BY <1>1, <1>4, <2>1, <2>2, <2>3 DEF OsciType, O!Groups, O!Fibers, O!Nodes,
       O!group,
       OsciPCs, O!Combining, OsciLocals
<1>14. OwnFibers'
  <2>1. OwnFiber(f)'
    BY <1>5, <1>6, <1>11, <1>12 DEF OwnFiber, O!group, O!Nodes, O!Fibers,
       O!Fresh
  <2>. QED
    BY <1>1, <1>4, <1>12, <2>1, OwnKept DEF OwnFibers, OwnFiber
<1>15. CombiningPoints'
  BY <1>1, <1>4, <1>11, PointsKept DEF Alone
<1>16. OsciPosition'
  <2>1. Position(f)'
    BY <1>11 DEF Position, O!Combining
  <2>. QED
    BY <2>1, <1>1, <1>4, <1>12, PositionKept
<1>17. QShape(q, lo, hi)'
  BY <1>4, <1>9 DEF QShape, O!Nodes
<1>18. QLinks(q, lo, hi)'
  <2>1. \A i \in lo .. hi : i > lo => q[i][1] # f
    BY <1>4, <1>9 DEF QLinks, Opener
  <2>. QED
    BY <2>1, <1>4, <1>9, <1>12, LinksKept
<1>19. QFirst(q, lo, hi)'
  <2>1. LastNode(f)' = LastNode(f)
    BY <1>4 DEF LastNode
  <2>2. lo <= hi /\ q[lo][1] = f => q[lo] = LastNode(f)
    BY <1>4, <1>8, NextNodeIsFree
  <2>. QED
    BY <2>1, <2>2, <1>9, <1>11, <1>12, FirstKept
<1>20. QPlaced(q, lo, hi)'
  <2>1. \A m \in O!Nodes : ~(m[1] = f /\ Unswapped(m))
    BY <1>4 DEF Unswapped
  <2>2. \A i \in lo .. hi : \E j \in lo .. hi : q[j] = q[i]
    OBVIOUS
  <2>3. Unswapped(n)'
    <3>1. Unswapped(n)' = (o_pc'[w] \in {"release", "swap"} /\ O!cur(w)' = n)
      BY <1>5 DEF Unswapped
    <3>2. o_pc'[w] = o_pc[w] /\ O!cur(w)' = O!cur(w)
      BY <1>6, <1>12, OthersFacts
    <3>. QED
      BY <3>1, <3>2, <1>6, <1>7
  <2>. QED
    BY <2>1, <2>2, <2>3, <1>9, <1>12, PlacedKept
<1>. QED
  BY <1>12, <1>13, <1>14, <1>15, <1>16, <1>17, <1>18, <1>19, <1>20 DEF OsciInv,
     NodeQueue

(* Tail was empty or not.                                                   *)
LEMMA OsciSwapTailStep ==
  ASSUME OsciInv, NEW f \in O!Fibers, O!SwapTail(f)
  PROVE  OsciInv'
  BY OsciSwapFirstStep, OsciSwapNextStep

(* Every step of Osci preserves its invariant.                              *)
LEMMA NextOsci == OsciInv /\ [O!Next]_o_vars => OsciInv'
<1>. SUFFICES ASSUME OsciInv, [O!Next]_o_vars PROVE OsciInv'
  OBVIOUS
<1>1. CASE O!Next
  <2>. SUFFICES ASSUME NEW f \in O!Fibers,
                       \/ O!Yield(f)
                       \/ \E a \in Args : O!Open(f, a) \/ O!Join(f, a)
                       \/ O!Step(f)
       PROVE OsciInv'
    BY <1>1 DEF O!Next
  <2>1. CASE O!Yield(f)
    BY <2>1, OsciYieldStep
  <2>2. ASSUME NEW a \in Args, O!Open(f, a) PROVE OsciInv'
    BY <2>2, OsciOpenStep
  <2>3. ASSUME NEW a \in Args, O!Join(f, a) PROVE OsciInv'
    BY <2>3, OsciJoinStep
  <2>4. CASE O!Step(f)
    BY <2>4, OsciReleaseStep, OsciSwapTailStep, OsciLinkStep, OsciYieldStep,
       OsciStopSpinningStep, OsciServeStep,
       OsciUnlockStep, OsciNodeDoneStep, OsciMoreStep, OsciEndStep, OsciCASTailStep, OsciWaitNextStep, OsciPassStep,
       OsciReturnStep DEF O!Step
  <2>. QED
    BY <2>1, <2>2, <2>3, <2>4
<1>2. CASE UNCHANGED o_vars
  BY <1>2, SameInv DEF o_vars
<1>. QED
  BY <1>1, <1>2

(* Only the granted fiber combines.                                         *)
LEMMA OsciSingleCombiner == OsciInv => O!SingleCombiner
  BY DEF OsciInv, OneIsGranted, Granted, O!SingleCombiner

(* A fiber outside a call opens a node that is out of reach.                *)
LEMMA OsciReusedNodeIsFree == OsciInv => O!ReusedNodeIsFree
<1>. SUFFICES ASSUME OsciInv, NEW f \in O!Fibers, o_pc[f] = "out"
     PROVE LET n == NextNode(f)
           IN  /\ o_tail # n /\ o_current_node[O!group(f)] # n
               /\ \A g \in O!Fibers :
                    /\ o_my[g].pred # n
                    /\ o_pc[g] \in O!Combining => o_my[g].p # n /\ o_next[o_my[g].p] # n
                    /\ o_pc[g] \notin {"out", "return"} /\ O!cur(g) = n => O!own(g).completed
  BY DEF O!ReusedNodeIsFree, O!mynode, NextNode
<1>1. OsciType /\ OwnFibers /\ CombiningPoints
  BY DEF OsciInv
<1>2. PICK n \in O!Nodes : n = NextNode(f) /\ n[1] = f
  BY <1>1, TwoNodes
<1>3. PICK q, lo, hi : NodeQueue(q, lo, hi)
  BY DEF OsciInv
<1>4. /\ QShape(q, lo, hi) /\ QLinks(q, lo, hi) /\ QPlaced(q, lo, hi) /\ QGranted(q, lo, hi)
  BY <1>3 DEF NodeQueue
<1>5. (\A i \in lo .. hi : q[i] # n) /\ \A h \in O!Fibers : Pending(h) => O!cur(h) # n
  BY <1>2, <1>3, NextNodeIsFree
<1>6. lo \in Nat \ {0} /\ hi \in Nat
  BY <1>4 DEF QShape
<1>7. o_tail # n
  <2>1. lo <= hi => hi \in lo .. hi
    BY <1>6
  <2>. QED
    BY <2>1, <1>4, <1>5, <1>6, OsciConstants DEF QShape
<1>8. o_current_node[O!group(f)] # n
  BY <1>1, <1>2, OsciConstants DEF CombiningPoints
<1>9. ASSUME NEW g \in O!Fibers PROVE o_my[g].pred # n
  <2>. SUFFICES ASSUME o_my[g].pred = n PROVE FALSE
    OBVIOUS
  <2>1. o_pc[g] = "link"
    BY <1>1, OsciConstants DEF OwnFibers, OwnFiber
  <2>2. O!cur(g) = LastNode(g) /\ Pending(g) /\ O!cur(g) \in O!Nodes /\ O!cur(g)[1] = g
    BY <2>1, <1>1 DEF OwnFibers, OwnFiber, LastNode
  <2>3. PICK m \in O!Nodes : m = O!cur(g) /\ (Unswapped(m) \/ \E i \in lo .. hi : q[i] = m)
    BY <2>2, <1>4 DEF QPlaced
  <2>4. ~Unswapped(m)
    BY <2>1, <2>2, <2>3 DEF Unswapped
  <2>5. PICK i \in lo .. hi : q[i] = m
    BY <2>3, <2>4
  <2>6. i > lo
    <3>1. i # lo
      <4>1. lo <= hi
        BY <1>6
      <4>. QED
        BY <4>1, <2>1, <2>3, <2>5, <1>3 DEF NodeQueue, QFirst
    <3>. QED
      BY <3>1, <1>6
  <2>7. o_my[g].pred = q[i - 1] /\ i - 1 \in lo .. hi
    BY <2>1, <2>2, <2>3, <2>5, <2>6, <1>4, <1>6 DEF QLinks
  <2>. QED
    BY <2>7, <1>5
<1>10. ASSUME NEW g \in O!Fibers, o_pc[g] \in O!Combining
       PROVE  o_my[g].p # n /\ o_next[o_my[g].p] # n
  <2>1. lo <= hi /\ o_my[g].p = q[lo]
    BY <1>4, <1>10 DEF QGranted, Granted
  <2>2. lo \in lo .. hi
    BY <2>1, <1>6
  <2>3. o_next[q[lo]] # n
    <3>1. CASE o_next[q[lo]] = NULL
      BY <3>1, OsciConstants
    <3>2. CASE o_next[q[lo]] # NULL
      <4>1. lo < hi
        BY <3>2, <2>1, <1>4, <1>6 DEF QShape
      <4>2. o_next[q[lo]] = q[lo + 1] /\ lo + 1 \in lo .. hi
        BY <4>1, <3>2, <1>1, <1>3, <1>6, SecondNode
      <4>. QED
        BY <4>2, <1>5
    <3>. QED
      BY <3>1, <3>2
  <2>. QED
    BY <2>1, <2>2, <2>3, <1>5
<1>11. ASSUME NEW g \in O!Fibers, o_pc[g] # "out", O!cur(g) = n PROVE O!own(g).completed
  BY <1>5, <1>11 DEF Pending
<1>. QED
  BY <1>2, <1>7, <1>8, <1>9, <1>10, <1>11

-----------------------------------------------------------------------------
(* Osci implements the atomic object.                                       *)

(* The abstract operation of a fiber whose record and place are the same.   *)
LEMMA OpKept ==
  ASSUME NEW h, o_pc'[h] = "out" <=> o_pc[h] = "out",
         o_pc[h] # "out" =>
           O!own(h)'.completed = O!own(h).completed /\ O!own(h)'.arg_ret = O!own(h).arg_ret
  PROVE  O!AbstractOp(h)' = O!AbstractOp(h)
<1>1. O!AbstractOp(h)' =
        IF o_pc'[h] = "out" THEN [status |-> "idle"]
        ELSE IF O!own(h)'.completed THEN [status |-> "done", ret |-> O!own(h)'.arg_ret]
        ELSE [status |-> "pending", arg |-> O!own(h)'.arg_ret]
  BY DEF O!AbstractOp
<1>2. O!AbstractOp(h) =
        IF o_pc[h] = "out" THEN [status |-> "idle"]
        ELSE IF O!own(h).completed THEN [status |-> "done", ret |-> O!own(h).arg_ret]
        ELSE [status |-> "pending", arg |-> O!own(h).arg_ret]
  BY DEF O!AbstractOp
<1>. QED
  BY <1>1, <1>2

(* With state and results, the operations are all there is to the object.   *)
LEMMA ObStutter ==
  ASSUME UNCHANGED <<o_state, o_result>>,
         \A h \in O!Fibers : O!AbstractOp(h)' = O!AbstractOp(h)
  PROVE  UNCHANGED O!Ob!vars
  BY DEF O!Ob!vars, O!Fibers

(* Of the records only the locks change, if anything.                       *)
LEMMA SameRequests ==
  ASSUME OsciInv, UNCHANGED <<o_state, o_result>>,
         \A h \in O!Fibers : (o_pc'[h] = "out" <=> o_pc[h] = "out") /\ o_my'[h].cur = o_my[h].cur,
         \A n \in O!Nodes, o \in O!Offsets :
           o_rec'[n][o].completed = o_rec[n][o].completed /\ o_rec'[n][o].arg_ret = o_rec[n][o].arg_ret
  PROVE  UNCHANGED O!Ob!vars
<1>. SUFFICES ASSUME NEW h \in O!Fibers PROVE O!AbstractOp(h)' = O!AbstractOp(h)
  BY ObStutter
<1>. SUFFICES ASSUME o_pc[h] # "out"
     PROVE O!own(h)'.completed = O!own(h).completed /\ O!own(h)'.arg_ret = O!own(h).arg_ret
  BY OpKept
<1>1. O!cur(h) \in O!Nodes /\ O!offset(h) \in O!Offsets
  BY OsciConstants DEF OsciInv, OwnFibers, OwnFiber
<1>2. O!own(h) = o_rec[O!cur(h)][O!offset(h)] /\ O!own(h)' = o_rec'[O!cur(h)][O!offset(h)]
  BY DEF O!own, O!cur, O!offset
<1>. QED
  BY <1>1, <1>2

(* Most steps are stutters.                                                 *)
LEMMA QuietStep ==
  ASSUME OsciInv, NEW f \in O!Fibers,
         \/ O!Yield(f) \/ O!Release(f) \/ O!SwapTail(f) \/ O!Link(f) \/ O!Spin(f)
         \/ O!StopSpinning(f) \/ O!NodeDone(f) \/ O!More(f) \/ O!End(f) \/ O!CASTail(f)
         \/ O!WaitNext(f)
  PROVE  UNCHANGED O!Ob!vars
<1>. OsciType
  BY DEF OsciInv
<1>1. UNCHANGED <<o_state, o_result, o_rec>>
  BY DEF O!Yield, O!Release, O!SwapTail, O!Link, O!Spin, O!StopSpinning,
     O!NodeDone, O!More,
     O!End, O!CASTail, O!WaitNext, O!nodeVars
<1>2. \E from, to : O!Goto(f, from, to) /\ (from = "out" <=> to = "out")
  <2>1. CASE O!Yield(f) \/ O!Spin(f)
    BY <2>1 DEF O!Yield, O!Spin
  <2>2. CASE O!Release(f) \/ O!Link(f)
    BY <2>2 DEF O!Release, O!Link
  <2>3. CASE O!SwapTail(f)
    <3>1. (IF o_tail = NULL THEN "combine" ELSE "link") # "out"
      OBVIOUS
    <3>. QED
      BY <2>3, <3>1 DEF O!SwapTail
  <2>4. CASE O!StopSpinning(f)
    <3>1. (IF O!own(f).completed THEN "return" ELSE "combine") # "out"
      OBVIOUS
    <3>. QED
      BY <2>4, <3>1 DEF O!StopSpinning
  <2>5. CASE O!NodeDone(f)
    <3>1. (IF o_next[o_my[f].p] = NULL THEN "end" ELSE "more") # "out"
      OBVIOUS
    <3>. QED
      BY <2>5, <3>1 DEF O!NodeDone
  <2>6. CASE O!More(f)
    <3>. DEFINE stop == o_next[o_next[o_my[f].p]] = NULL \/ o_my[f].counter >= O!help_bound
    <3>1. O!Goto(f, "more", IF stop THEN "pass" ELSE "combine")
      BY <2>6 DEF O!More
    <3>. HIDE DEF stop
    <3>2. (IF stop THEN "pass" ELSE "combine") # "out"
      OBVIOUS
    <3>. QED
      BY <3>1, <3>2
  <2>7. CASE O!End(f)
    <3>1. (IF o_next[o_my[f].p] = NULL THEN "tailCAS" ELSE "pass") # "out"
      OBVIOUS
    <3>. QED
      BY <2>7, <3>1 DEF O!End
  <2>8. CASE O!CASTail(f)
    <3>1. (IF o_tail = o_my[f].p THEN "return" ELSE "late") # "out"
      OBVIOUS
    <3>. QED
      BY <2>8, <3>1 DEF O!CASTail
  <2>9. CASE O!WaitNext(f)
    <3>1. (IF o_next[o_my[f].p] = NULL THEN "late" ELSE "pass") # "out"
      OBVIOUS
    <3>. QED
      BY <2>9, <3>1 DEF O!WaitNext
  <2>. QED
    BY <2>1, <2>2, <2>3, <2>4, <2>5, <2>6, <2>7, <2>8, <2>9
<1>3. \A h \in O!Fibers : o_pc'[h] = "out" <=> o_pc[h] = "out"
  BY <1>2 DEF O!Goto, OsciType
<1>4. \A h \in O!Fibers : o_my'[h].cur = o_my[h].cur
  <2>1. \A h \in O!Fibers : o_my[h] \in OsciLocals
    BY DEF OsciType
  <2>2. CASE O!Yield(f) \/ O!Release(f) \/ O!Spin(f) \/ O!End(f) \/ O!CASTail(f) \/ O!WaitNext(f)
    BY <2>2 DEF O!Yield, O!Release, O!Spin, O!End, O!CASTail, O!WaitNext
  <2>3. CASE O!SwapTail(f) \/ O!Link(f) \/ O!StopSpinning(f)
    BY <2>3, <2>1 DEF O!SwapTail, O!Link, O!StopSpinning, OsciType, OsciLocals
  <2>4. CASE O!NodeDone(f)
    <3>1. PICK c : o_my' = [o_my EXCEPT ![f].i = 0, ![f].counter = c]
      BY <2>4 DEF O!NodeDone
    <3>. QED
      BY <3>1, <2>1 DEF OsciType, OsciLocals
  <2>5. CASE O!More(f)
    <3>1. PICK m : o_my' = [o_my EXCEPT ![f].p = m]
      BY <2>5 DEF O!More
    <3>. QED
      BY <3>1, <2>1 DEF OsciType, OsciLocals
  <2>. QED
    BY <2>2, <2>3, <2>4, <2>5
<1>. QED
  BY <1>1, <1>3, <1>4, SameRequests

(* A record is unlocked: nobody sees it.                                    *)
LEMMA UnlockRefines ==
  ASSUME OsciInv, NEW f \in O!Fibers, O!Unlock(f) \/ O!Pass(f)
  PROVE  UNCHANGED O!Ob!vars
<1>1. OsciType /\ RecType(o_rec)
  BY DEF OsciInv
<1>2. UNCHANGED <<o_state, o_result>>
  BY DEF O!Unlock, O!Pass
<1>3. \A h \in O!Fibers : o_pc'[h] = "out" <=> o_pc[h] = "out"
  BY <1>1 DEF O!Unlock, O!Pass, O!Goto, OsciType
<1>4. \A h \in O!Fibers : o_my'[h].cur = o_my[h].cur
  <2>1. o_my' = o_my \/ o_my' = [o_my EXCEPT ![f].i = @ + 1]
    BY DEF O!Unlock, O!Pass
  <2>2. \A h \in O!Fibers : o_my[h] \in OsciLocals
    BY <1>1 DEF OsciType
  <2>. QED
    BY <2>1, <2>2, <1>1 DEF OsciType, OsciLocals
<1>5. o_rec' = o_rec \/ \E n, o : o_rec' = [o_rec EXCEPT ![n][o].locked = FALSE]
  BY DEF O!Unlock, O!Pass
<1>6. ASSUME NEW n \in O!Nodes, NEW o \in O!Offsets
      PROVE  /\ o_rec'[n][o].completed = o_rec[n][o].completed
             /\ o_rec'[n][o].arg_ret = o_rec[n][o].arg_ret
  BY <1>1, <1>5 DEF RecType
<1>. QED
  BY <1>2, <1>3, <1>4, <1>6, SameRequests

(* A request is announced: the call begins.                                 *)
LEMMA CallRefines ==
  ASSUME OsciInv, NEW f \in O!Fibers, NEW a \in Args, O!Open(f, a) \/ O!Join(f, a)
  PROVE  O!Ob!Next
<1>1. OsciType /\ RecType(o_rec) /\ OwnFibers /\ CombiningPoints
  BY DEF OsciInv
<1>2. PICK n \in O!Nodes :
        /\ O!group(n[1]) = O!group(f)
        /\ o_rec' = [o_rec EXCEPT ![n][O!offset(f)] =
                       [arg_ret |-> a, locked |-> TRUE, completed |-> FALSE]]
        /\ o_my' = [o_my EXCEPT ![f].cur = n]
  <2>1. CASE O!Open(f, a)
    <3>1. NextNode(f) \in O!Nodes /\ NextNode(f)[1] = f
      BY <1>1, TwoNodes
    <3>. QED
      BY <2>1, <3>1 DEF O!Open, O!Request, O!mynode, NextNode
  <2>2. CASE O!Join(f, a)
    <3>1. o_current_node[O!group(f)] # NULL /\ O!group(f) \in O!Groups
      BY <2>2, OsciConstants DEF O!Join
    <3>2. o_current_node[O!group(f)] \in O!Nodes
      BY <3>1, <1>1 DEF OsciType
    <3>3. O!group(o_current_node[O!group(f)][1]) = O!group(f)
      BY <3>1, <1>1 DEF CombiningPoints
    <3>. QED
      BY <2>2, <3>2, <3>3 DEF O!Join, O!Request
  <2>. QED
    BY <2>1, <2>2
<1>3. /\ o_pc[f] = "out" /\ \E to : to # "out" /\ o_pc' = [o_pc EXCEPT ![f] = to]
      /\ o_result' = [o_result EXCEPT ![f] = NULL] /\ o_state' = o_state
  BY DEF O!Open, O!Join, O!Goto
<1>4. o_pc'[f] # "out" /\ \A h \in O!Fibers : h # f => o_pc'[h] = o_pc[h]
  BY <1>1, <1>3 DEF OsciType
<1>5. o_my'[f].cur = n /\ \A h \in O!Fibers : h # f => o_my'[h] = o_my[h]
  <2>1. o_my[f] \in OsciLocals /\ DOMAIN o_my = O!Fibers
    BY <1>1 DEF OsciType
  <2>2. o_my'[f] = [o_my[f] EXCEPT !.cur = n]
    BY <1>2, <2>1
  <2>. QED
    BY <1>2, <2>1, <2>2 DEF OsciLocals
<1>6. PICK o \in O!Offsets : o = O!offset(f)
  BY OsciConstants
<1>7. \A m \in O!Nodes, x \in O!Offsets : m # n \/ x # o => o_rec'[m][x] = o_rec[m][x]
  BY <1>1, <1>2, <1>6 DEF RecType
<1>8. o_rec'[n][o].arg_ret = a /\ o_rec'[n][o].completed = FALSE
  BY <1>1, <1>2, <1>6 DEF RecType
<1>9. O!AbstractOp(f) = [status |-> "idle"]
  BY <1>3 DEF O!AbstractOp
<1>10. O!AbstractOp(f)' = [status |-> "pending", arg |-> a]
  <2>1. O!own(f)' = o_rec'[n][o]
    BY <1>5, <1>6 DEF O!own, O!cur, O!offset
  <2>2. O!AbstractOp(f)' =
          IF o_pc'[f] = "out" THEN [status |-> "idle"]
          ELSE IF O!own(f)'.completed THEN [status |-> "done", ret |-> O!own(f)'.arg_ret]
          ELSE [status |-> "pending", arg |-> O!own(f)'.arg_ret]
    BY DEF O!AbstractOp
  <2>. QED
    BY <2>1, <2>2, <1>4, <1>8
<1>11. ASSUME NEW h \in O!Fibers, h # f PROVE O!AbstractOp(h)' = O!AbstractOp(h)
  <2>1. o_pc[h] # "out" => O!own(h)' = O!own(h)
    BY <1>1, <1>2, <1>5, <1>6, <1>7, <1>11, OwnSame
  <2>. QED
    BY <2>1, <1>4, <1>11, OpKept
<1>12. [h \in O!Fibers |-> O!AbstractOp(h)]' =
         [[h \in O!Fibers |-> O!AbstractOp(h)] EXCEPT ![f] = [status |-> "pending", arg |-> a]]
  BY <1>10, <1>11 DEF O!Fibers
<1>13. O!Ob!Call(f, a)
  BY <1>3, <1>9, <1>12 DEF O!Ob!Call, O!Ob!Idle, O!Ob!Pending
<1>. QED
  BY <1>13 DEF O!Ob!Next

(* sfunc runs: the request of the fiber the record belongs to is applied.   *)
LEMMA ServeRefines ==
  ASSUME OsciInv, NEW f \in O!Fibers, O!Serve(f)
  PROVE  O!Ob!Next
<1>1. OsciType /\ RecType(o_rec) /\ OwnFibers /\ OsciPosition /\ Unserved
  BY DEF OsciInv
<1>2. /\ o_pc[f] = "combine" /\ o_pc' = [o_pc EXCEPT ![f] = "unlock"]
      /\ UNCHANGED <<o_tail, o_current_node, o_next, o_toggle, o_result>>
      /\ O!AnyFrom(o_my[f].p, o_my[f].i)
      /\ o_my' = [o_my EXCEPT ![f].i = O!FirstFrom(o_my[f].p, o_my[f].i)]
  BY DEF O!Serve, O!Goto
<1>3. PICK n \in O!Nodes : n = o_my[f].p
  BY <1>1, <1>2 DEF OsciPosition, Position, O!Combining
<1>4. PICK i \in Nat : i = o_my[f].i
  BY <1>1 DEF OsciType, OsciLocals
<1>5. PICK o \in O!Offsets : o = O!FirstFrom(n, i) /\ ~o_rec[n][o].completed
  BY <1>2, <1>3, <1>4, FirstFromIs
<1>6. PICK w \in O!Fibers : O!offset(w) = o /\ o_pc[w] # "out" /\ O!cur(w) = n
  BY <1>1, <1>5 DEF Unserved
<1>7. w = (O!group(n[1]) * fibers_per_thread) + o
  BY <1>1, <1>6, OsciConstants DEF OwnFibers, OwnFiber
<1>8. PICK a : a = o_rec[n][o].arg_ret
  OBVIOUS
<1>9. PICK r : r = Result(o_state, a, w)
  OBVIOUS
<1>10. /\ o_state' = NewState(o_state, a, w)
       /\ o_rec' = [o_rec EXCEPT ![n][o].arg_ret = r, ![n][o].completed = TRUE]
  BY <1>3, <1>4, <1>5, <1>7, <1>8, <1>9 DEF O!Serve
<1>11. o_rec'[n][o].arg_ret = r /\ o_rec'[n][o].completed = TRUE
  <2>1. o_rec' = [o_rec EXCEPT ![n][o] = [o_rec[n][o] EXCEPT !.arg_ret = r, !.completed = TRUE]]
    BY <1>10, <1>1 DEF RecType
  <2>2. DOMAIN o_rec[n][o] = {"arg_ret", "locked", "completed"}
    BY <1>1 DEF RecType
  <2>. DEFINE s == [o_rec[n][o] EXCEPT !.arg_ret = r, !.completed = TRUE]
  <2>3. s.arg_ret = r /\ s.completed = TRUE
    BY <2>2
  <2>4. o_rec'[n][o] = s
    BY <2>1, <1>1 DEF RecType
  <2>. QED
    BY <2>3, <2>4
<1>12. \A m \in O!Nodes, x \in O!Offsets : m # n \/ x # o => o_rec'[m][x] = o_rec[m][x]
  BY <1>1, <1>10 DEF RecType
<1>13. \A h \in O!Fibers : (o_pc'[h] = "out" <=> o_pc[h] = "out") /\ o_my'[h].cur = o_my[h].cur
  <2>1. \A h \in O!Fibers : o_pc'[h] = "out" <=> o_pc[h] = "out"
    BY <1>1, <1>2 DEF OsciType
  <2>2. \A h \in O!Fibers : o_my[h] \in OsciLocals
    BY <1>1 DEF OsciType
  <2>3. o_my' = [o_my EXCEPT ![f].i = o]
    BY <1>2, <1>3, <1>4, <1>5
  <2>4. \A h \in O!Fibers : o_my'[h].cur = o_my[h].cur
    BY <2>2, <2>3, <1>1 DEF OsciType, OsciLocals
  <2>. QED
    BY <2>1, <2>4
<1>14. \A h \in O!Fibers :
         /\ O!own(h) = o_rec[O!cur(h)][O!offset(h)] /\ O!own(h)' = o_rec'[O!cur(h)][O!offset(h)]
         /\ O!cur(h)' = O!cur(h)
  BY <1>13 DEF O!own, O!cur, O!offset
<1>15. O!AbstractOp(w) = [status |-> "pending", arg |-> a]
  <2>1. ~O!own(w).completed /\ O!own(w).arg_ret = a
    BY <1>5, <1>6, <1>8, <1>14
  <2>. QED
    BY <2>1, <1>6 DEF O!AbstractOp
<1>16. O!AbstractOp(w)' = [status |-> "done", ret |-> r]
  <2>1. O!own(w)'.completed = TRUE /\ O!own(w)'.arg_ret = r /\ o_pc'[w] # "out"
    BY <1>6, <1>11, <1>13, <1>14
  <2>2. O!AbstractOp(w)' =
          IF o_pc'[w] = "out" THEN [status |-> "idle"]
          ELSE IF O!own(w)'.completed THEN [status |-> "done", ret |-> O!own(w)'.arg_ret]
          ELSE [status |-> "pending", arg |-> O!own(w)'.arg_ret]
    BY DEF O!AbstractOp
  <2>. QED
    BY <2>1, <2>2
<1>17. ASSUME NEW h \in O!Fibers, h # w PROVE O!AbstractOp(h)' = O!AbstractOp(h)
  <2>1. o_pc[h] # "out" => O!own(h)' = O!own(h)
    <3>. SUFFICES ASSUME o_pc[h] # "out" PROVE O!own(h)' = O!own(h)
      OBVIOUS
    <3>1. O!cur(h) # n \/ O!offset(h) # o
      BY <1>1, <1>6, <1>17, RecordOwner
    <3>2. O!cur(h) \in O!Nodes /\ O!offset(h) \in O!Offsets
      BY <1>1, OsciConstants DEF OwnFibers, OwnFiber
    <3>. QED
      BY <3>1, <3>2, <1>12, <1>14
  <2>. QED
    BY <2>1, <1>13, OpKept
<1>18. [h \in O!Fibers |-> O!AbstractOp(h)]' =
         [[h \in O!Fibers |-> O!AbstractOp(h)] EXCEPT ![w] = [status |-> "done", ret |-> r]]
  BY <1>16, <1>17 DEF O!Fibers
<1>19. [h \in O!Fibers |-> O!AbstractOp(h)][w] = [status |-> "pending", arg |-> a]
  BY <1>15
<1>20. O!Ob!Apply(w)
  <2>1. /\ [h \in O!Fibers |-> O!AbstractOp(h)][w].status = "pending"
        /\ [h \in O!Fibers |-> O!AbstractOp(h)][w].arg = a
    BY <1>19
  <2>2. o_state' = NewState(o_state, [h \in O!Fibers |-> O!AbstractOp(h)][w].arg, w)
    BY <2>1, <1>10
  <2>3. r = Result(o_state, [h \in O!Fibers |-> O!AbstractOp(h)][w].arg, w)
    BY <2>1, <1>9
  <2>. QED
    BY <2>1, <2>2, <2>3, <1>2, <1>18 DEF O!Ob!Apply, O!Ob!Done
<1>. QED
  BY <1>20 DEF O!Ob!Next

(* The answer is read: the call ends.                                       *)
LEMMA ReturnRefines ==
  ASSUME OsciInv, NEW f \in O!Fibers, O!Return(f)
  PROVE  O!Ob!Next
<1>1. OsciType /\ RecType(o_rec) /\ OwnFibers
  BY DEF OsciInv
<1>2. /\ o_pc[f] = "return" /\ o_pc' = [o_pc EXCEPT ![f] = "out"] /\ o_state' = o_state
      /\ o_result' = [o_result EXCEPT ![f] = O!own(f).arg_ret]
      /\ o_my' = [o_my EXCEPT ![f] = O!Fresh]
      /\ o_rec' = [o_rec EXCEPT ![O!cur(f)][O!offset(f)] = O!Unused]
  BY DEF O!Return, O!Goto
<1>3. PICK n \in O!Nodes : n = O!cur(f) /\ O!group(n[1]) = O!group(f)
  BY <1>1, <1>2 DEF OwnFibers, OwnFiber
<1>4. O!own(f).completed
  BY <1>1, <1>2 DEF OwnFibers, OwnFiber, Pending
<1>5. o_pc'[f] = "out" /\ \A h \in O!Fibers : h # f => o_pc'[h] = o_pc[h] /\ o_my'[h] = o_my[h]
  BY <1>1, <1>2 DEF OsciType
<1>6. \A m \in O!Nodes, x \in O!Offsets : m # n \/ x # O!offset(f) => o_rec'[m][x] = o_rec[m][x]
  BY <1>1, <1>2, <1>3, OsciConstants DEF RecType
<1>7. PICK r : r = O!own(f).arg_ret
  OBVIOUS
<1>8. O!AbstractOp(f) = [status |-> "done", ret |-> r]
  BY <1>2, <1>4, <1>7 DEF O!AbstractOp
<1>9. O!AbstractOp(f)' = [status |-> "idle"]
  BY <1>5 DEF O!AbstractOp
<1>10. ASSUME NEW h \in O!Fibers, h # f PROVE O!AbstractOp(h)' = O!AbstractOp(h)
  <2>1. o_pc[h] # "out" => O!own(h)' = O!own(h)
    BY <1>1, <1>3, <1>5, <1>6, <1>10, OwnSame
  <2>. QED
    BY <2>1, <1>5, <1>10, OpKept
<1>11. [h \in O!Fibers |-> O!AbstractOp(h)]' =
         [[h \in O!Fibers |-> O!AbstractOp(h)] EXCEPT ![f] = [status |-> "idle"]]
  BY <1>9, <1>10 DEF O!Fibers
<1>12. [h \in O!Fibers |-> O!AbstractOp(h)][f] = [status |-> "done", ret |-> r]
  BY <1>8
<1>13. O!Ob!Return(f)
  <2>1. /\ [h \in O!Fibers |-> O!AbstractOp(h)][f].status = "done"
        /\ [h \in O!Fibers |-> O!AbstractOp(h)][f].ret = r
    BY <1>12
  <2>2. o_result' = [o_result EXCEPT ![f] = [h \in O!Fibers |-> O!AbstractOp(h)][f].ret]
    BY <2>1, <1>2, <1>7
  <2>. QED
    BY <2>1, <2>2, <1>2, <1>11 DEF O!Ob!Return, O!Ob!Idle
<1>. QED
  BY <1>13 DEF O!Ob!Next

(* No fiber is in a call.                                                   *)
LEMMA OsciInitRefines == O!Init => O!Ob!Init
  BY DEF O!Init, O!Ob!Init, O!Ob!Idle, O!AbstractOp

(* Every step is a step of the atomic object, or none.                      *)
LEMMA OsciNextRefines == OsciInv /\ [O!Next]_o_vars => [O!Ob!Next]_(O!Ob!vars)
<1>. SUFFICES ASSUME OsciInv, [O!Next]_o_vars PROVE [O!Ob!Next]_(O!Ob!vars)
  OBVIOUS
<1>1. CASE O!Next
  <2>. SUFFICES ASSUME NEW f \in O!Fibers,
                       \/ O!Yield(f)
                       \/ \E a \in Args : O!Open(f, a) \/ O!Join(f, a)
                       \/ O!Step(f)
       PROVE O!Ob!Next \/ UNCHANGED O!Ob!vars
    BY <1>1 DEF O!Next
  <2>1. ASSUME NEW a \in Args, O!Open(f, a) \/ O!Join(f, a) PROVE O!Ob!Next
    BY <2>1, CallRefines
  <2>2. CASE O!Yield(f)
    BY <2>2, QuietStep
  <2>3. CASE O!Step(f)
    BY <2>3, QuietStep, UnlockRefines, ServeRefines, ReturnRefines DEF O!Step
  <2>. QED
    BY <2>1, <2>2, <2>3
<1>2. CASE UNCHANGED o_vars
  <2>1. UNCHANGED <<o_state, o_result, o_rec, o_pc, o_my>>
    BY <1>2 DEF o_vars
  <2>2. UNCHANGED O!Ob!vars
    BY <2>1, SameRequests
  <2>. QED
    BY <2>2
<1>. QED
  BY <1>1, <1>2


-----------------------------------------------------------------------------
(*                               H-Synch                                    *)

(* The proofs of HSynch_proofs, for the variables of MCCombining. Its       *)
(* definitions and those of the instance H are the same, one by one.        *)
HP == INSTANCE HSynch_proofs WITH
  nodes <- h_nodes, node_indexes <- h_node_indexes, tail <- h_tail, next <-
  h_next, locked <- h_locked, completed <- h_completed, arg_ret <- h_arg_ret,
  pid <- h_pid, queue <- h_queue, inside <- h_inside, state <- h_state, pc <-
  h_pc, next_node <- h_next_node, arg <- h_arg, cur <- h_cur, p <- h_p,
  tmp_next <- h_tmp_next, counter <- h_counter, result <- h_result, Threads <-
  HThreads

(* The assumption on the constants.                                         *)
LEMMA HConstants == HP!ConstantsAssumption
BY MCAssumption DEF HP!ConstantsAssumption, H!ConstantsAssumption,
   H!Cardinality,
   HP!Cardinality, H!IsFiniteSet, HP!IsFiniteSet

(* The initial states.                                                      *)
LEMMA HInitSame == H!Init <=> HP!Init
BY DEF H!Init, HP!Init, H!Nodes, HP!Nodes, H!CentralLock!Init,
   HP!CentralLock!Init

(* What steps leave alone.                                                  *)
LEMMA HVarsSame ==
  /\ UNCHANGED H!blockVars <=> UNCHANGED HP!blockVars
  /\ UNCHANGED H!vars <=> UNCHANGED HP!vars
  /\ UNCHANGED H!nodeVars <=> UNCHANGED HP!nodeVars
  /\ UNCHANGED H!lockVars <=> UNCHANGED HP!lockVars
  /\ UNCHANGED H!localVars <=> UNCHANGED HP!localVars
BY DEF H!blockVars, HP!blockVars, H!nodeVars, HP!nodeVars, H!lockVars,
   HP!lockVars, H!localVars, HP!localVars, H!vars, HP!vars
(* The actions.                                                             *)
LEMMA HActionsSame ==
  ASSUME NEW t \in HThreads
  PROVE /\ \A a \in Args : H!Call(t, a) <=> HP!Call(t, a)
        /\ H!Start(t) <=> HP!Start(t)
        /\ H!Step(t) <=> HP!Step(t)
<1>1. H!FindBlock(t) <=> HP!FindBlock(t)
  BY DEF H!FindBlock, HP!FindBlock, H!blockVars, HP!blockVars, H!nodeVars,
     HP!nodeVars, H!lockVars, HP!lockVars, H!localVars, HP!localVars, H!Goto,
     HP!Goto
<1>2. H!AllocBlock(t) <=> HP!AllocBlock(t)
  BY DEF H!AllocBlock, HP!AllocBlock, H!blockVars, HP!blockVars, H!nodeVars,
     HP!nodeVars, H!lockVars, HP!lockVars, H!localVars, HP!localVars, H!Goto,
     HP!Goto
<1>3. H!InstallBlock(t) <=> HP!InstallBlock(t)
  BY DEF H!InstallBlock, HP!InstallBlock, H!blockVars, HP!blockVars,
     H!nodeVars, HP!nodeVars, H!lockVars, HP!lockVars, H!localVars,
     HP!localVars, H!Goto, HP!Goto
<1>4. H!FreeBlock(t) <=> HP!FreeBlock(t)
  BY DEF H!FreeBlock, HP!FreeBlock, H!blockVars, HP!blockVars, H!nodeVars,
     HP!nodeVars, H!lockVars, HP!lockVars, H!localVars, HP!localVars, H!Goto,
     HP!Goto
<1>5. H!InitTail(t) <=> HP!InitTail(t)
  BY DEF H!InitTail, HP!InitTail, H!Last, HP!Last, H!blockVars, HP!blockVars,
     H!nodeVars, HP!nodeVars, H!lockVars, HP!lockVars, H!localVars,
     HP!localVars, H!Goto, HP!Goto
<1>6. H!TakeNode(t) <=> HP!TakeNode(t)
  BY DEF H!TakeNode, HP!TakeNode, H!blockVars, HP!blockVars, H!nodeVars,
     HP!nodeVars, H!lockVars, HP!lockVars, H!localVars, HP!localVars, H!Goto,
     HP!Goto
<1>7. H!Swap(t) <=> HP!Swap(t)
  BY DEF H!Swap, HP!Swap, H!blockVars, HP!blockVars, H!nodeVars, HP!nodeVars,
     H!lockVars, HP!lockVars, H!localVars, HP!localVars, H!Goto, HP!Goto
<1>8. H!Announce(t) <=> HP!Announce(t)
  BY DEF H!Announce, HP!Announce, H!blockVars, HP!blockVars, H!nodeVars,
     HP!nodeVars, H!lockVars, HP!lockVars, H!localVars, HP!localVars, H!Goto,
     HP!Goto
<1>9. H!Link(t) <=> HP!Link(t)
  BY DEF H!Link, HP!Link, H!blockVars, HP!blockVars, H!nodeVars, HP!nodeVars,
     H!lockVars, HP!lockVars, H!localVars, HP!localVars, H!Goto, HP!Goto
<1>10. H!StopSpinning(t) <=> HP!StopSpinning(t)
  BY DEF H!StopSpinning, HP!StopSpinning, H!blockVars, HP!blockVars,
     H!nodeVars, HP!nodeVars, H!lockVars, HP!lockVars, H!localVars,
     HP!localVars, H!Goto, HP!Goto
<1>11. H!BecomeCombiner(t) <=> HP!BecomeCombiner(t)
  BY DEF H!BecomeCombiner, HP!BecomeCombiner, H!blockVars, HP!blockVars,
     H!nodeVars, HP!nodeVars, H!lockVars, HP!lockVars, H!localVars,
     HP!localVars, H!Goto, HP!Goto
<1>12. H!Join(t) <=> HP!Join(t)
  BY DEF H!Join, HP!Join, H!CentralLock!Join, HP!CentralLock!Join,
     H!CentralLock!Joined, HP!CentralLock!Joined, H!blockVars, HP!blockVars,
     H!nodeVars, HP!nodeVars, H!lockVars, HP!lockVars, H!localVars,
     HP!localVars, H!Goto, HP!Goto
<1>13. H!Enter(t) <=> HP!Enter(t)
  BY DEF H!Enter, HP!Enter, H!CentralLock!Enter, HP!CentralLock!Enter,
     H!blockVars, HP!blockVars, H!nodeVars, HP!nodeVars, H!lockVars,
     HP!lockVars, H!localVars, HP!localVars, H!Goto, HP!Goto
<1>14. H!Visit(t) <=> HP!Visit(t)
  BY DEF H!Visit, HP!Visit, H!HelpBound, HP!HelpBound, H!Cardinality,
     HP!Cardinality, H!blockVars, HP!blockVars, H!nodeVars, HP!nodeVars,
     H!lockVars, HP!lockVars, H!localVars, HP!localVars, H!Goto, HP!Goto
<1>15. H!StopCombining(t) <=> HP!StopCombining(t)
  BY DEF H!StopCombining, HP!StopCombining, H!HelpBound, HP!HelpBound,
     H!Cardinality, HP!Cardinality, H!blockVars, HP!blockVars, H!nodeVars,
     HP!nodeVars, H!lockVars, HP!lockVars, H!localVars, HP!localVars, H!Goto,
     HP!Goto
<1>16. H!Apply(t) <=> HP!Apply(t)
  BY DEF H!Apply, HP!Apply, H!blockVars, HP!blockVars, H!nodeVars, HP!nodeVars,
     H!lockVars, HP!lockVars, H!localVars, HP!localVars, H!Goto, HP!Goto
<1>17. H!Complete(t) <=> HP!Complete(t)
  BY DEF H!Complete, HP!Complete, H!blockVars, HP!blockVars, H!nodeVars,
     HP!nodeVars, H!lockVars, HP!lockVars, H!localVars, HP!localVars, H!Goto,
     HP!Goto
<1>18. H!Unlock(t) <=> HP!Unlock(t)
  BY DEF H!Unlock, HP!Unlock, H!blockVars, HP!blockVars, H!nodeVars,
     HP!nodeVars, H!lockVars, HP!lockVars, H!localVars, HP!localVars, H!Goto,
     HP!Goto
<1>19. H!Release(t) <=> HP!Release(t)
  BY DEF H!Release, HP!Release, H!blockVars, HP!blockVars, H!nodeVars,
     HP!nodeVars, H!lockVars, HP!lockVars, H!localVars, HP!localVars, H!Goto,
     HP!Goto
<1>20. H!Leave(t) <=> HP!Leave(t)
  BY DEF H!Leave, HP!Leave, H!CentralLock!Leave, HP!CentralLock!Leave,
     H!blockVars, HP!blockVars, H!nodeVars, HP!nodeVars, H!lockVars,
     HP!lockVars, H!localVars, HP!localVars, H!Goto, HP!Goto
<1>21. \A a \in Args : H!Call(t, a) <=> HP!Call(t, a)
  BY DEF H!Call, HP!Call, H!blockVars, HP!blockVars, H!nodeVars, HP!nodeVars,
     H!lockVars, HP!lockVars, H!localVars, HP!localVars, H!Goto, HP!Goto
<1>22. H!ReturnHelped(t) <=> HP!ReturnHelped(t)
  BY DEF H!ReturnHelped, HP!ReturnHelped, H!Return, HP!Return, H!blockVars,
     HP!blockVars, H!nodeVars, HP!nodeVars, H!lockVars, HP!lockVars,
     H!localVars, HP!localVars, H!Goto, HP!Goto
<1>23. H!ReturnCombiner(t) <=> HP!ReturnCombiner(t)
  BY DEF H!ReturnCombiner, HP!ReturnCombiner, H!Return, HP!Return, H!blockVars,
     HP!blockVars, H!nodeVars, HP!nodeVars, H!lockVars, HP!lockVars,
     H!localVars, HP!localVars, H!Goto, HP!Goto
<1>. QED
  BY <1>1, <1>2, <1>3, <1>4, <1>5, <1>6, <1>7, <1>8, <1>9, <1>10, <1>11, <1>12,
     <1>13, <1>14, <1>15, <1>16, <1>17, <1>18, <1>19, <1>20, <1>21, <1>22,
     <1>23 DEF H!Start, HP!Start, H!Step, HP!Step

(* The steps.                                                               *)
LEMMA HNextSame == [H!Next]_(H!vars) <=> [HP!Next]_(HP!vars)
<1>1. H!Next <=> HP!Next
  BY HActionsSame DEF H!Next, HP!Next
<1>. QED
  BY <1>1, HVarsSame

(* The properties.                                                          *)
LEMMA HPropertiesSame ==
  /\ H!TypeOK <=> HP!TypeOK
  /\ H!SingleServer <=> HP!SingleServer
  /\ H!OneCompetitorPerNode <=> HP!OneCompetitorPerNode
  /\ H!NodesAreHeldOnce <=> HP!NodesAreHeldOnce
<1>1. H!Nodes = HP!Nodes /\ H!PCs = HP!PCs /\ H!HelpBound = HP!HelpBound
  BY DEF H!Nodes, HP!Nodes, H!PCs, HP!PCs, H!Starting, HP!Starting, H!Serving,
     HP!Serving, H!HelpBound, HP!HelpBound, H!Cardinality, HP!Cardinality
<1>2. H!TypeOK <=> HP!TypeOK
  BY <1>1 DEF H!TypeOK, HP!TypeOK
<1>3. H!SingleServer <=> HP!SingleServer
  BY DEF H!SingleServer, HP!SingleServer, H!Serving, HP!Serving
<1>4. H!OneCompetitorPerNode <=> HP!OneCompetitorPerNode
  BY DEF H!OneCompetitorPerNode, HP!OneCompetitorPerNode, H!Serving, HP!Serving
<1>5. H!NodesAreHeldOnce <=> HP!NodesAreHeldOnce
  BY DEF H!NodesAreHeldOnce, HP!NodesAreHeldOnce, H!Held, HP!Held
<1>. QED
  BY <1>2, <1>3, <1>4, <1>5

(* The abstract object.                                                     *)
LEMMA HObjectSame ==
  /\ H!Ob!Init <=> HP!Ob!Init
  /\ [H!Ob!Next]_(H!Ob!vars) <=> [HP!Ob!Next]_(HP!Ob!vars)
<1>1. ASSUME NEW t \in HThreads PROVE H!AbstractOp(t) = HP!AbstractOp(t)
  BY DEF H!AbstractOp, HP!AbstractOp, H!Served, HP!Served, H!Starting,
     HP!Starting
<1>2. ASSUME NEW t \in HThreads PROVE H!AbstractOp(t)' = HP!AbstractOp(t)'
  BY DEF H!AbstractOp, HP!AbstractOp, H!Served, HP!Served, H!Starting,
     HP!Starting
<1>3. H!Ob!Init <=> HP!Ob!Init
  BY <1>1 DEF H!Ob!Init, HP!Ob!Init, H!Ob!Idle, HP!Ob!Idle
<1>4. ASSUME NEW t \in HThreads
      PROVE  /\ \A a \in Args : H!Ob!Call(t, a) <=> HP!Ob!Call(t, a)
             /\ H!Ob!Apply(t) <=> HP!Ob!Apply(t)
             /\ H!Ob!Return(t) <=> HP!Ob!Return(t)
  BY <1>1, <1>2 DEF H!Ob!Call, HP!Ob!Call, H!Ob!Apply, HP!Ob!Apply, H!Ob!Return,
     HP!Ob!Return, H!Ob!Idle, HP!Ob!Idle, H!Ob!Pending, HP!Ob!Pending, H!Ob!Done, HP!Ob!Done
<1>5. UNCHANGED H!Ob!vars <=> UNCHANGED HP!Ob!vars
  BY <1>1, <1>2 DEF H!Ob!vars, HP!Ob!vars
<1>. QED
  BY <1>3, <1>4, <1>5 DEF H!Ob!Next, HP!Ob!Next

(* What the invariant of H-Synch implies.                                   *)
LEMMA HProperties ==
  HP!IInv => /\ H!TypeOK /\ H!SingleServer
             /\ H!OneCompetitorPerNode /\ H!NodesAreHeldOnce
<1>1. HP!IInv => HP!SingleServer
  BY DEF HP!IInv, HP!LockOrder, HP!SingleServer
<1>. QED
  BY <1>1, HPropertiesSame, HP!HeldOnce DEF HP!IInv

-----------------------------------------------------------------------------
(* The three protocols beside each other: the invariants of H-Synch and of  *)
(* Osci hold whichever of them runs.                                        *)
MCInv == HP!IInv /\ OsciInv

(* Both start in their invariant.                                           *)
LEMMA MCInitInv == MCInit => MCInv
BY HConstants, HInitSame, HP!InitIInv, InitOsci DEF MCInit, MCInv

(* A step of one leaves the other alone.                                    *)
LEMMA MCNextInv == MCInv /\ [MCNext]_<<which, vars, h_vars, o_vars>> => MCInv'
<1>. SUFFICES ASSUME MCInv, [MCNext]_<<which, vars, h_vars, o_vars>> PROVE MCInv'
  OBVIOUS
<1>1. [H!Next]_(H!vars)
  BY DEF MCNext, h_vars, H!vars, H!blockVars, H!nodeVars, H!lockVars,
     H!localVars
<1>2. [O!Next]_o_vars
  BY DEF MCNext
<1>. QED
  BY <1>1, <1>2, HNextSame, HP!NextIInv, NextOsci DEF MCInv

(* The invariants hold in every reachable state.                            *)
LEMMA MCInvCorrect == MCSpec => []MCInv
BY MCInitInv, MCNextInv, PTL DEF MCSpec

(* sfunc is never run by two threads of H-Synch, nor by two fibers of Osci, *)
(* at once: it needs no lock of its own.                                    *)
THEOREM OneCombinerAtATimeHolds == MCSpec => []OneCombinerAtATime
<1>1. MCInv => OneCombinerAtATime
  BY HProperties, OsciSingleCombiner DEF MCInv, OneCombinerAtATime
<1>. QED
  BY <1>1, MCInvCorrect, PTL

(* The announcement nodes of H-Synch are held by one thread each, and the   *)
(* node that a fiber of Osci opens is out of reach of all others: two nodes *)
(* for each fiber are enough, however many fibers a thread has.             *)
THEOREM NodesAreNotSharedHolds == MCSpec => []NodesAreNotShared
<1>1. MCInv => NodesAreNotShared
  BY HProperties, OsciReusedNodeIsFree DEF MCInv, NodesAreNotShared
<1>. QED
  BY <1>1, MCInvCorrect, PTL

(* A step of H-Synch is one of its atomic object, or none.                  *)
LEMMA HStepRefines ==
  MCInv /\ [MCNext]_<<which, vars, h_vars, o_vars>>
    => [which = "HSynch" => H!Ob!Next]_<<which, H!Ob!vars>>
<1>. SUFFICES ASSUME MCInv, [MCNext]_<<which, vars, h_vars, o_vars>>
              PROVE  (which = "HSynch" => H!Ob!Next) \/ UNCHANGED <<which, H!Ob!vars>>
  OBVIOUS
<1>1. [H!Next]_(H!vars) /\ UNCHANGED which
  BY DEF MCNext, h_vars, H!vars, H!blockVars, H!nodeVars, H!lockVars,
     H!localVars
<1>2. [H!Ob!Next]_(H!Ob!vars)
  BY <1>1, HNextSame, HObjectSame, HP!NextRefinement DEF MCInv
<1>. QED
  BY <1>1, <1>2

(* A step of Osci is one of its atomic object, or none.                     *)
LEMMA OStepRefines ==
  MCInv /\ [MCNext]_<<which, vars, h_vars, o_vars>>
    => [which = "Osci" => O!Ob!Next]_<<which, O!Ob!vars>>
<1>. SUFFICES ASSUME MCInv, [MCNext]_<<which, vars, h_vars, o_vars>>
              PROVE  (which = "Osci" => O!Ob!Next) \/ UNCHANGED <<which, O!Ob!vars>>
  OBVIOUS
<1>1. [O!Next]_o_vars /\ UNCHANGED which
  BY DEF MCNext
<1>2. [O!Ob!Next]_(O!Ob!vars)
  BY <1>1, OsciNextRefines DEF MCInv
<1>. QED
  BY <1>1, <1>2

(* H-Synch and Osci are linearizable, for any number of threads, fibers and *)
(* NUMA nodes and whatever sfunc is: HSynchApplyOp and OsciApplyOp each are *)
(* an atomic application of sfunc, once for each call, answered to its caller. *)
THEOREM ObjectsAreAtomic == MCSpec => ImplementAtomicObject
<1>1. MCInit => H!Ob!Init /\ O!Ob!Init
  BY HInitSame, HObjectSame, HP!InitRefinement, OsciInitRefines DEF MCInit
<1>. QED
  BY <1>1, MCInvCorrect, HStepRefines, OStepRefines, PTL DEF MCSpec,
     ImplementAtomicObject
=============================================================================
