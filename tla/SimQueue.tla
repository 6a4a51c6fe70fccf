------------------------------ MODULE SimQueue ------------------------------
(***************************************************************************)
(* SimQueue (libconcurrent/concurrent/simqueue.c): a list queue made of    *)
(* two Sim objects, one for the enqueues and one for the dequeues. The     *)
(* combiner of a batch of enqueues builds a list of new nodes and installs *)
(* a record that names it; the list is linked to the old one after that,   *)
(* by this combiner, by the next one, or by a dequeuer that needs it.      *)
(*                                                                         *)
(* The copy of a record is one action: Sim shows how the comparison of the *)
(* stamped pointer after the copy discards torn ones.                      *)
(***************************************************************************)
EXTENDS Integers, Sequences, FiniteSets, SequencesExt

CONSTANTS
  N,               (* nthreads                                             *)
  PoolSize,        (* LOCAL_POOL_SIZE, 4 in the code                       *)
  Requests,        (* Requests[t]: what t calls, in order: a value to      *)
                   (* enqueue, or DEQ. Values differ.                      *)
  DEQ,
  EMPTY_QUEUE,
  NULL,
  MaxNodes         (* a bound on the nodes of a thread's pool              *)

Threads == 0 .. N - 1
Records == 0 .. PoolSize * N
guard == <<0, 0>>
Nodes == (Threads \X (1 .. MaxNodes)) \cup {guard}

(* A combiner must not come back to a record of its pool before who read it *)
(* has been served, as in Sim.                                              *)
ConstantsAssumption ==
  /\ N \in Nat \ {0} /\ PoolSize \in Nat /\ PoolSize >= 3 /\ MaxNodes \in Nat \ {0}
  /\ DOMAIN Requests = Threads
  /\ \A t \in Threads : Len(Requests[t]) \in Nat
  /\ \A t, u \in Threads : \A i \in 1 .. Len(Requests[t]), k \in 1 .. Len(Requests[u]) :
       Requests[t][i] # DEQ /\ Requests[t][i] = Requests[u][k] => t = u /\ i = k
  /\ NULL \notin Nodes

VARIABLES
  announce, enqueuers, dequeuers,
  enq_sp, deq_sp,    (* [index, seq]                                       *)
  enq,               (* the records of enq_pool                            *)
  deq,               (* the records of deq_pool; ret is a pointer, to the  *)
  rets,              (* array of answers at the end of one of the records  *)
  val, next,         (* fields of the nodes                                *)
  pc, calls,
  th,                (* SimQueueThreadState                                *)
  my,                (* locals                                             *)
  result             (* the answer of the last call                        *)

sps == <<enq_sp, deq_sp>>
vars == <<announce, enqueuers, dequeuers, sps, enq, deq, rets, val, next, pc,
          calls, th, my, result>>

Fresh == [j |-> 0, old_sp |-> NULL, l_toggles |-> {}, diffs |-> {},
          llist |-> NULL, node |-> NULL, enq_counter |-> 0,
          link |-> NULL]    (* what DeqLinkQueue has read                  *)

(* A toggle vector is the set of its bits that are 1.                       *)
Xor(v, w) == (v \ w) \cup (w \ v)
First(S) == CHOOSE q \in S : \A r \in S : q <= r

Arg(t) == Requests[t][calls[t]]
enqLsp(t) == t * PoolSize + th[t].enq_local_index    \* lsp_data
deqLsp(t) == t * PoolSize + th[t].deq_local_index

Goto(t, from, to) ==
  /\ pc[t] = from
  /\ pc' = [pc EXCEPT ![t] = to]

(* synchCASPTR(&n->next, NULL, last)                                        *)
Linked(n, last) == [next EXCEPT ![n] = IF @ = NULL THEN last ELSE @]

-----------------------------------------------------------------------------
(* SimQueueStructInit and SimQueueThreadStateInit                           *)
Init ==
  /\ announce = [t \in Threads |-> NULL]
  /\ enqueuers = {} /\ dequeuers = {}
  /\ enq_sp = [index |-> PoolSize * N, seq |-> 0]
  /\ deq_sp = [index |-> PoolSize * N, seq |-> 0]
  /\ enq = [r \in Records |->
              IF r = PoolSize * N
              THEN [tail |-> guard, first |-> NULL, last |-> NULL, applied |-> {}]
              ELSE [tail |-> NULL, first |-> NULL, last |-> NULL, applied |-> {}]]
  /\ deq = [r \in Records |->
              [head |-> IF r = PoolSize * N THEN guard ELSE NULL,
               ret |-> r, applied |-> {}]]
  /\ rets = [r \in Records |-> [t \in Threads |-> NULL]]
  /\ val = [n \in Nodes |-> NULL]
  /\ next = [n \in Nodes |-> NULL]
  /\ pc = [t \in Threads |-> "idle"]
  /\ calls = [t \in Threads |-> 0]
  /\ th = [t \in Threads |-> [enq_bit |-> TRUE, deq_bit |-> TRUE,
                              enq_local_index |-> 0, deq_local_index |-> 0,
                              allocated |-> 0]]
  /\ my = [t \in Threads |-> Fresh]
  /\ result = [t \in Threads |-> NULL]

-----------------------------------------------------------------------------
(* SimQueueEnqueue: announce[pid] = arg, and the flip of my_enq_bit         *)
CallEnqueue(t) ==
  /\ calls[t] < Len(Requests[t]) /\ Requests[t][calls[t] + 1] # DEQ
  /\ Goto(t, "idle", "enqToggle")
  /\ calls' = [calls EXCEPT ![t] = @ + 1]
  /\ announce' = [announce EXCEPT ![t] = Requests[t][calls[t] + 1]]
  /\ th' = [th EXCEPT ![t].enq_bit = ~@]
  /\ result' = [result EXCEPT ![t] = NULL]
  /\ UNCHANGED <<enqueuers, dequeuers, sps, enq, deq, rets, val, next, my>>

EnqToggle(t) ==
  /\ Goto(t, "enqToggle", "enqReadSp")
  /\ enqueuers' = Xor(enqueuers, {t})
  /\ UNCHANGED <<announce, dequeuers, sps, enq, deq, rets, val, next, calls,
                 th, my, result>>

EnqReadSp(t) ==
  /\ Goto(t, "enqReadSp", "enqReadApplied")
  /\ my' = [my EXCEPT ![t].old_sp = enq_sp]
  /\ UNCHANGED <<announce, enqueuers, dequeuers, sps, enq, deq, rets, val, next,
                 calls, th, result>>

(* The call returns if its request has been applied.                        *)
EnqReadApplied(t) ==
  LET served == (t \in enq[my[t].old_sp.index].applied) # th[t].enq_bit
  IN  /\ Goto(t, "enqReadApplied", IF served THEN "idle" ELSE "enqCopy")
      /\ my' = [my EXCEPT ![t] = IF served THEN Fresh ELSE @]
      /\ UNCHANGED <<announce, enqueuers, dequeuers, sps, enq, deq, rets, val,
                     next, calls, th, result>>

(* EnqStateCopy: all of it *)
EnqCopy(t) ==
  /\ Goto(t, "enqCopy", "enqReadToggles")
  /\ enq' = [enq EXCEPT ![enqLsp(t)] = enq[my[t].old_sp.index]]
  /\ UNCHANGED <<announce, enqueuers, dequeuers, sps, deq, rets, val, next, calls,
                 th, my, result>>

EnqReadToggles(t) ==
  /\ Goto(t, "enqReadToggles", "enqRecheck")
  /\ my' = [my EXCEPT ![t].l_toggles = enqueuers]
  /\ UNCHANGED <<announce, enqueuers, dequeuers, sps, enq, deq, rets, val, next,
                 calls, th, result>>

(* After the second turn of the loop SimQueueEnqueue returns.               *)
EnqNextTurn(t, from) ==
  /\ Goto(t, from, IF my[t].j = 0 THEN "enqReadSp" ELSE "idle")
  /\ my' = [my EXCEPT ![t] = IF @.j = 0 THEN [Fresh EXCEPT !.j = 1] ELSE Fresh]

EnqRecheckFails(t) ==
  /\ enq_sp # my[t].old_sp
  /\ EnqNextTurn(t, "enqRecheck")
  /\ UNCHANGED <<announce, enqueuers, dequeuers, sps, enq, deq, rets, val, next,
                 calls, th, result>>

EnqRecheckHolds(t) ==
  /\ Goto(t, "enqRecheck", "enqLinkOld")
  /\ enq_sp = my[t].old_sp
  /\ my' = [my EXCEPT ![t].diffs = Xor(enq[enqLsp(t)].applied, my[t].l_toggles)]
  /\ UNCHANGED <<announce, enqueuers, dequeuers, sps, enq, deq, rets, val, next,
                 calls, th, result>>

(* Mutant of EnqLinkOld: the batch before is left to its own combiner.      *)
EnqLinkOldNot(t) ==
  /\ Goto(t, "enqLinkOld", "enqOwn")
  /\ UNCHANGED <<announce, enqueuers, dequeuers, sps, enq, deq, rets, val, next,
                 calls, th, my, result>>

(* EnqLinkQueue of the copy: the batch before is linked, ...                *)
EnqLinkOld(t) ==
  LET pst == enq[enqLsp(t)]
  IN  /\ Goto(t, "enqLinkOld", "enqOwn")
      /\ next' = IF pst.first # NULL THEN Linked(pst.first, pst.last) ELSE next
      /\ UNCHANGED <<announce, enqueuers, dequeuers, sps, enq, deq, rets, val,
                     calls, th, my, result>>

(* synchAllocObj, which takes what was rolled back again, within the bound  *)
Alloc(t) == <<t, th[t].allocated + 1>>
Allocate(t) == th' = [th EXCEPT ![t].allocated = @ + 1]

(* ... a list is made of the own request                                    *)
EnqOwn(t) ==
  LET n == Alloc(t)
  IN  /\ Goto(t, "enqOwn", "enqHelp")
      /\ n \in Nodes /\ Allocate(t)
      /\ val' = [val EXCEPT ![n] = Arg(t)]
      /\ next' = [next EXCEPT ![n] = NULL]
      /\ my' = [my EXCEPT ![t].llist = n, ![t].node = n, ![t].enq_counter = 1,
                          ![t].diffs = Xor(@, {t})]
      /\ UNCHANGED <<announce, enqueuers, dequeuers, sps, enq, deq, rets, calls, result>>

(* and of the others that are announced, in the order of their bits,        *)
EnqHelp(t) ==
  /\ Goto(t, "enqHelp", "enqHelp")
  /\ my[t].diffs # {}
  /\ LET q == First(my[t].diffs)
         n == Alloc(t)
     IN  /\ n \in Nodes /\ Allocate(t)
         /\ val' = [val EXCEPT ![n] = announce[q]]
         /\ next' = [next EXCEPT ![n] = NULL, ![my[t].node] = n]
         /\ my' = [my EXCEPT ![t].node = n, ![t].enq_counter = @ + 1,
                             ![t].diffs = @ \ {q}]
  /\ UNCHANGED <<announce, enqueuers, dequeuers, sps, enq, deq, rets, calls, result>>

(* and the record names it.                                                 *)
EnqComplete(t) ==
  /\ Goto(t, "enqHelp", "enqCAS")
  /\ my[t].diffs = {}
  /\ enq' = [enq EXCEPT ![enqLsp(t)] =
               [tail |-> my[t].node, first |-> @.tail, last |-> my[t].llist,
                applied |-> my[t].l_toggles]]
  /\ UNCHANGED <<announce, enqueuers, dequeuers, sps, deq, rets, val, next, calls,
                 th, my, result>>

EnqInstall(t) ==
  /\ Goto(t, "enqCAS", "enqLinkNew")
  /\ enq_sp = my[t].old_sp
  /\ enq_sp' = [index |-> enqLsp(t), seq |-> enq_sp.seq + 1]
  /\ UNCHANGED <<announce, enqueuers, dequeuers, deq_sp, enq, deq, rets, val, next,
                 calls, th, my, result>>

(* synchRollback(&th_state->pool_node, enq_counter)                         *)
EnqInstallFails(t) ==
  /\ enq_sp # my[t].old_sp
  /\ EnqNextTurn(t, "enqCAS")
  /\ th' = [th EXCEPT ![t].allocated = @ - my[t].enq_counter]
  /\ UNCHANGED <<announce, enqueuers, dequeuers, sps, enq, deq, rets, val, next,
                 calls, result>>

(* EnqLinkQueue of the own record; the call returns.                        *)
EnqLinkNew(t) ==
  LET pst == enq[enqLsp(t)]
  IN  /\ Goto(t, "enqLinkNew", "idle")
      /\ next' = Linked(pst.first, pst.last)
      /\ th' = [th EXCEPT ![t].enq_local_index = (@ + 1) % PoolSize]
      /\ my' = [my EXCEPT ![t] = Fresh]
      /\ UNCHANGED <<announce, enqueuers, dequeuers, sps, enq, deq, rets, val,
                     calls, result>>

-----------------------------------------------------------------------------
(* SimQueueDequeue: nothing is announced but the bit.                       *)
CallDequeue(t) ==
  /\ calls[t] < Len(Requests[t]) /\ Requests[t][calls[t] + 1] = DEQ
  /\ Goto(t, "idle", "deqToggle")
  /\ calls' = [calls EXCEPT ![t] = @ + 1]
  /\ th' = [th EXCEPT ![t].deq_bit = ~@]
  /\ result' = [result EXCEPT ![t] = NULL]
  /\ UNCHANGED <<announce, enqueuers, dequeuers, sps, enq, deq, rets, val, next, my>>

DeqToggle(t) ==
  /\ Goto(t, "deqToggle", "deqReadSp")
  /\ dequeuers' = Xor(dequeuers, {t})
  /\ UNCHANGED <<announce, enqueuers, sps, enq, deq, rets, val, next, calls, th,
                 my, result>>

DeqReadSp(t) ==
  /\ Goto(t, "deqReadSp", "deqReadApplied")
  /\ my' = [my EXCEPT ![t].old_sp = deq_sp]
  /\ UNCHANGED <<announce, enqueuers, dequeuers, sps, enq, deq, rets, val, next,
                 calls, th, result>>

DeqReadApplied(t) ==
  LET served == (t \in deq[my[t].old_sp.index].applied) # th[t].deq_bit
  IN  /\ Goto(t, "deqReadApplied", IF served THEN "deqLast" ELSE "deqCopy")
      /\ UNCHANGED <<announce, enqueuers, dequeuers, sps, enq, deq, rets, val, next,
                     calls, th, my, result>>

(* DeqStateCopy starts at copy_point: head, the pointer ret, and the words  *)
(* at the end of the record, applied and answers.                           *)
DeqCopy(t) ==
  LET r == my[t].old_sp.index
  IN  /\ Goto(t, "deqCopy", "deqReadToggles")
      /\ deq' = [deq EXCEPT ![deqLsp(t)] = deq[r]]
      /\ rets' = [rets EXCEPT ![deqLsp(t)] = rets[r]]
      /\ UNCHANGED <<announce, enqueuers, dequeuers, sps, enq, val, next, calls,
                     th, my, result>>

DeqReadToggles(t) ==
  /\ Goto(t, "deqReadToggles", "deqRecheck")
  /\ my' = [my EXCEPT ![t].l_toggles = dequeuers]
  /\ UNCHANGED <<announce, enqueuers, dequeuers, sps, enq, deq, rets, val, next,
                 calls, th, result>>

DeqNextTurn(t, from) ==
  /\ Goto(t, from, IF my[t].j = 0 THEN "deqReadSp" ELSE "deqLast")
  /\ my' = [my EXCEPT ![t] = [Fresh EXCEPT !.j = my[t].j + 1]]

DeqRecheckFails(t) ==
  /\ deq_sp # my[t].old_sp
  /\ DeqNextTurn(t, "deqRecheck")
  /\ UNCHANGED <<announce, enqueuers, dequeuers, sps, enq, deq, rets, val, next,
                 calls, th, result>>

(* DeqLinkQueue is called, to go on at back.                                *)
CallLink(back) == [back |-> back, sp |-> NULL, first |-> NULL, last |-> NULL]

(* The comparison holds: DeqLinkQueue, and then the loop over diffs.        *)
DeqRecheckHolds(t) ==
  /\ Goto(t, "deqRecheck", "linkReadSp")
  /\ deq_sp = my[t].old_sp
  /\ my' = [my EXCEPT ![t].diffs = Xor(deq[deqLsp(t)].applied, my[t].l_toggles),
                      ![t].link = CallLink("deqHelp")]
  /\ UNCHANGED <<announce, enqueuers, dequeuers, sps, enq, deq, rets, val, next,
                 calls, th, result>>

(* DeqLinkQueue: enq_sp is read, *)
LinkReadSp(t) ==
  /\ Goto(t, "linkReadSp", "linkNeeded")
  /\ my' = [my EXCEPT ![t].link.sp = enq_sp]
  /\ UNCHANGED <<announce, enqueuers, dequeuers, sps, enq, deq, rets, val, next,
                 calls, th, result>>

(* The next step of DeqLinkQueue, or its end                                *)
LinkGoto(t, from, to, goOn) ==
  /\ Goto(t, from, IF goOn THEN to ELSE my[t].link.back)
  /\ my' = [my EXCEPT ![t].link = IF goOn THEN @ ELSE NULL]

(* and if head->next is NULL ...                                            *)
LinkNeeded(t) ==
  /\ LinkGoto(t, "linkNeeded", "linkRead", next[deq[deqLsp(t)].head] = NULL)
  /\ UNCHANGED <<announce, enqueuers, dequeuers, sps, enq, deq, rets, val, next,
                 calls, th, result>>

(* ... last and first of its record, whose torn values the next step drops, *)
LinkRead(t) ==
  LET pst == enq[my[t].link.sp.index]
  IN  /\ Goto(t, "linkRead", "linkCheck")
      /\ my' = [my EXCEPT ![t].link.first = pst.first, ![t].link.last = pst.last]
      /\ UNCHANGED <<announce, enqueuers, dequeuers, sps, enq, deq, rets, val, next,
                     calls, th, result>>

LinkCheck(t) ==
  /\ LinkGoto(t, "linkCheck", "linkCAS",
       my[t].link.first # NULL /\ my[t].link.last # NULL /\ my[t].link.sp = enq_sp)
  /\ UNCHANGED <<announce, enqueuers, dequeuers, sps, enq, deq, rets, val, next,
                 calls, th, result>>

(* synchCASPTR(&first->next, NULL, last)                                    *)
LinkCAS(t) ==
  /\ LinkGoto(t, "linkCAS", "out", FALSE)
  /\ next' = Linked(my[t].link.first, my[t].link.last)
  /\ UNCHANGED <<announce, enqueuers, dequeuers, sps, enq, deq, rets, val, calls,
                 th, result>>

(* head->next is NULL: DeqLinkQueue once more before it counts.             *)
DeqFindNull(t) ==
  /\ Goto(t, "deqHelp", "linkReadSp")
  /\ my[t].diffs # {}
  /\ next[deq[deqLsp(t)].head] = NULL
  /\ my' = [my EXCEPT ![t].link = CallLink("deqTake")]
  /\ UNCHANGED <<announce, enqueuers, dequeuers, sps, enq, deq, rets, val, next,
                 calls, th, result>>

DeqFindNode(t) ==
  /\ Goto(t, "deqHelp", "deqTake")
  /\ my[t].diffs # {}
  /\ next[deq[deqLsp(t)].head] # NULL
  /\ UNCHANGED <<announce, enqueuers, dequeuers, sps, enq, deq, rets, val, next,
                 calls, th, my, result>>

(* The answer goes where ret points to.                                     *)
Answer(t, q, v) == rets' = [rets EXCEPT ![deq[deqLsp(t)].ret][q] = v]

(* node = head->next is read again, and serves the next bit of diffs.       *)
DeqTake(t) ==
  LET q == First(my[t].diffs)
      n == next[deq[deqLsp(t)].head]
  IN  /\ Goto(t, "deqTake", "deqHelp")
      /\ Answer(t, q, IF n = NULL THEN EMPTY_QUEUE ELSE val[n])
      /\ deq' = [deq EXCEPT ![deqLsp(t)].head = IF n = NULL THEN @ ELSE n]
      /\ my' = [my EXCEPT ![t].diffs = @ \ {q}]
      /\ UNCHANGED <<announce, enqueuers, dequeuers, sps, enq, val, next, calls,
                     th, result>>

DeqComplete(t) ==
  /\ Goto(t, "deqHelp", "deqCAS")
  /\ my[t].diffs = {}
  /\ deq' = [deq EXCEPT ![deqLsp(t)].applied = my[t].l_toggles]
  /\ UNCHANGED <<announce, enqueuers, dequeuers, sps, enq, rets, val, next, calls,
                 th, my, result>>

DeqInstall(t) ==
  /\ Goto(t, "deqCAS", "deqInstalled")
  /\ deq_sp = my[t].old_sp
  /\ deq_sp' = [index |-> deqLsp(t), seq |-> deq_sp.seq + 1]
  /\ UNCHANGED <<announce, enqueuers, dequeuers, enq_sp, enq, deq, rets, val, next,
                 calls, th, my, result>>

DeqInstallFails(t) ==
  /\ deq_sp # my[t].old_sp
  /\ DeqNextTurn(t, "deqCAS")
  /\ UNCHANGED <<announce, enqueuers, dequeuers, sps, enq, deq, rets, val, next,
                 calls, th, result>>

Return(t, v) ==
  /\ result' = [result EXCEPT ![t] = v]
  /\ my' = [my EXCEPT ![t] = Fresh]

(* return lsp_data->ret[pid] *)
DeqReturnOwn(t) ==
  /\ Goto(t, "deqInstalled", "idle")
  /\ Return(t, rets[deq[deqLsp(t)].ret][t])
  /\ th' = [th EXCEPT ![t].deq_local_index = (@ + 1) % PoolSize]
  /\ UNCHANGED <<announce, enqueuers, dequeuers, sps, enq, deq, rets, val, next, calls>>

(* return queue->deq_pool[queue->deq_sp.index]->ret[pid], in two reads      *)
DeqReadLastSp(t) ==
  /\ Goto(t, "deqLast", "deqReadRet")
  /\ my' = [my EXCEPT ![t].old_sp = deq_sp]
  /\ UNCHANGED <<announce, enqueuers, dequeuers, sps, enq, deq, rets, val, next,
                 calls, th, result>>

DeqReturnHelped(t) ==
  /\ Goto(t, "deqReadRet", "idle")
  /\ Return(t, rets[deq[my[t].old_sp.index].ret][t])
  /\ UNCHANGED <<announce, enqueuers, dequeuers, sps, enq, deq, rets, val, next,
                 calls, th>>

Enqueue(t) ==
  \/ CallEnqueue(t) \/ EnqToggle(t) \/ EnqReadSp(t) \/ EnqReadApplied(t) \/ EnqCopy(t)
  \/ EnqReadToggles(t) \/ EnqRecheckFails(t) \/ EnqRecheckHolds(t) \/ EnqLinkOld(t)
  \/ EnqOwn(t) \/ EnqHelp(t) \/ EnqComplete(t) \/ EnqInstall(t) \/ EnqInstallFails(t)
  \/ EnqLinkNew(t)

DeqLinkQueue(t) ==
  LinkReadSp(t) \/ LinkNeeded(t) \/ LinkRead(t) \/ LinkCheck(t) \/ LinkCAS(t)

Dequeue(t) ==
  \/ CallDequeue(t) \/ DeqToggle(t) \/ DeqReadSp(t) \/ DeqReadApplied(t) \/ DeqCopy(t)
  \/ DeqReadToggles(t) \/ DeqRecheckFails(t) \/ DeqRecheckHolds(t)
  \/ DeqLinkQueue(t) \/ DeqFindNull(t) \/ DeqFindNode(t) \/ DeqTake(t)
  \/ DeqComplete(t) \/ DeqInstall(t) \/ DeqInstallFails(t)
  \/ DeqReturnOwn(t) \/ DeqReadLastSp(t) \/ DeqReturnHelped(t)

Next == \E t \in Threads : Enqueue(t) \/ Dequeue(t)

Spec == Init /\ [][Next]_vars

-----------------------------------------------------------------------------
(* The queue that the installed record stands for, from the guard on: the   *)
(* latest batch counts, even where it is not linked yet.                    *)
E == enq[enq_sp.index]
After(n) == IF n = E.first /\ next[n] = NULL THEN E.last ELSE next[n]

AllNodes ==
  LET bound == N * MaxNodes + 1
      node[i \in 0 .. bound] ==
        IF i = 0 THEN guard
        ELSE IF node[i - 1] = NULL THEN NULL ELSE After(node[i - 1])
      size == Cardinality({i \in 1 .. bound : node[i] # NULL})
  IN  [i \in 1 .. size |-> node[i]]

(* How many of the calls of t that enqueue have taken effect.               *)
EnqueuesOf(t) == {i \in 1 .. calls[t] : Requests[t][i] # DEQ}
Waiting(t) == pc[t] = "enqToggle" \/ (t \in enqueuers) # (t \in E.applied)

(* Each enqueue that the installed record has applied put its value in the  *)
(* list once, at the place its batch gave it; the others are not there. No  *)
(* batch is lost between its CAS and its link, and no node that was rolled  *)
(* back and used again is in the list.                                      *)
EnqueuedExactlyOnce ==
  LET all == AllNodes
  IN  \A t \in Threads : \A i \in EnqueuesOf(t) :
        Cardinality({k \in DOMAIN all : val[all[k]] = Requests[t][i]}) =
          IF i = calls[t] /\ Waiting(t) THEN 0 ELSE 1

(* The enqueues of a thread are in the list in the order of its calls, the  *)
(* list ends at the tail of the record, and head is the guard or one of its *)
(* nodes.                                                                   *)
ListIsInOrder ==
  LET all == AllNodes
  IN  /\ E.tail = (IF all = <<>> THEN guard ELSE Last(all))
      /\ deq[deq_sp.index].head \in {guard} \cup ToSet(all)
      /\ \A k, m \in DOMAIN all : \A t \in Threads : \A i, j \in EnqueuesOf(t) :
           /\ val[all[k]] = Requests[t][i]
           /\ val[all[m]] = Requests[t][j]
           /\ i < j
           => k < m

(* An answer of SimQueueDequeue. *)
Answered(t) == result[t] \notin {NULL, EMPTY_QUEUE}

(* simqueue.h, SimQueueDequeue: it "removes the element from the front of   *)
(* the queue and returns its value". No two calls remove one element. (The  *)
(* calls compared are the last ones of two threads.)                        *)
NoElementTwice ==
  \A t, u \in Threads : t # u /\ Answered(t) /\ Answered(u) => result[t] # result[u]
=============================================================================
