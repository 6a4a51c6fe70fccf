------------------------------ MODULE MSQueue ------------------------------
(***************************************************************************)
(* The lock-free queue of libconcurrent/concurrent/msqueue.c. The list     *)
(* always has a node in front whose value has been taken; tail may lag     *)
(* behind the end of the list by one node, and any thread moves it on.     *)
(* Nodes are never recycled.                                               *)
(***************************************************************************)
EXTENDS Integers, Sequences, FiniteSets

CONSTANTS
  Threads,
  Values,
  NULL,
  EMPTY_QUEUE,
  MaxNodes     (* a bound on the nodes enqueued                            *)

ConstantsAssumption ==
  MaxNodes \in Nat /\ NULL \notin Values \cup 0 .. MaxNodes

(* Node 0 is the one MSQueueInit allocates.                                 *)
Nodes == 0 .. MaxNodes

VARIABLES
  head, tail,
  next, val,   (* fields of the nodes; val[n] = NULL: n is not in use yet  *)
  pc,
  my,          (* locals: p, first, last, next, and the value to return    *)
  answer       (* what the last call returned                              *)

mem == <<head, tail, next, val>>
vars == <<mem, pc, my, answer>>

Fresh == [p |-> NULL, first |-> NULL, last |-> NULL, next |-> NULL, ret |-> NULL]

Goto(t, from, to) ==
  /\ pc[t] = from
  /\ pc' = [pc EXCEPT ![t] = to]

(* The locals when a loop starts again.                                     *)
Again(t) == [Fresh EXCEPT !.p = my[t].p]

(* The value of pointer, and new if the CAS from old to new finds old.      *)
Swapped(pointer, old, new) == IF pointer = old THEN new ELSE pointer

-----------------------------------------------------------------------------
(* MSQueueInit and MSQueueThreadStateInit *)
Init ==
  /\ head = 0 /\ tail = 0
  /\ next = [n \in Nodes |-> NULL]
  /\ val = [n \in Nodes |-> NULL]
  /\ pc = [t \in Threads |-> "out"]
  /\ my = [t \in Threads |-> Fresh]
  /\ answer = [t \in Threads |-> NULL]

(* MSQueueEnqueue: a new node, with its value and next = NULL.              *)
Enqueue(t, v) ==
  /\ Goto(t, "out", "enqTail")
  /\ \E n \in Nodes \ {0} :
       /\ val[n] = NULL /\ \A m \in 1 .. n - 1 : val[m] # NULL
       /\ val' = [val EXCEPT ![n] = v]
       /\ my' = [my EXCEPT ![t].p = n]
  /\ answer' = [answer EXCEPT ![t] = NULL]
  /\ UNCHANGED <<head, tail, next>>

(* last = l->tail; next = last->next *)
EnqReadTail(t) ==
  /\ Goto(t, "enqTail", "enqNext")
  /\ my' = [my EXCEPT ![t].last = tail]
  /\ UNCHANGED <<mem, answer>>

EnqReadNext(t) ==
  /\ Goto(t, "enqNext", "enqCheck")
  /\ my' = [my EXCEPT ![t].next = next[my[t].last]]
  /\ UNCHANGED <<mem, answer>>

(* if (last == l->tail) *)
EnqCheck(t) ==
  /\ Goto(t, "enqCheck", IF my[t].last # tail THEN "enqTail"
                         ELSE IF my[t].next = NULL THEN "link" ELSE "enqHelp")
  /\ my' = [my EXCEPT ![t] = IF my[t].last # tail THEN Again(t) ELSE @]
  /\ UNCHANGED <<mem, answer>>

(* The CAS that moves a lagging tail, in both operations.                   *)
EnqHelp(t) ==
  /\ Goto(t, "enqHelp", "enqTail")
  /\ tail' = Swapped(tail, my[t].last, my[t].next)
  /\ my' = [my EXCEPT ![t] = Again(t)]
  /\ UNCHANGED <<head, next, val, answer>>

DeqHelp(t) ==
  /\ Goto(t, "deqHelp", "deqHead")
  /\ tail' = Swapped(tail, my[t].last, my[t].next)
  /\ my' = [my EXCEPT ![t] = Fresh]
  /\ UNCHANGED <<head, next, val, answer>>

(* synchCASPTR(&last->next, next, p), where next is NULL *)
LinkNode(t) ==
  LET found == next[my[t].last]
  IN  /\ Goto(t, "link", IF found = NULL THEN "swing" ELSE "enqTail")
      /\ next' = [next EXCEPT ![my[t].last] = Swapped(found, NULL, my[t].p)]
      /\ my' = [my EXCEPT ![t] = IF found = NULL THEN @ ELSE Again(t)]
      /\ UNCHANGED <<head, tail, val, answer>>

(* synchCASPTR(&l->tail, last, p); the call returns.                        *)
SwingTail(t) ==
  /\ Goto(t, "swing", "out")
  /\ tail' = Swapped(tail, my[t].last, my[t].p)
  /\ my' = [my EXCEPT ![t] = Fresh]
  /\ UNCHANGED <<head, next, val, answer>>

(* MSQueueDequeue: first = l->head; last = l->tail; next = first->next *)
Dequeue(t) ==
  /\ Goto(t, "out", "deqHead")
  /\ answer' = [answer EXCEPT ![t] = NULL]
  /\ UNCHANGED <<mem, my>>

DeqReadHead(t) ==
  /\ Goto(t, "deqHead", "deqTail")
  /\ my' = [my EXCEPT ![t].first = head]
  /\ UNCHANGED <<mem, answer>>

DeqReadTail(t) ==
  /\ Goto(t, "deqTail", "deqNext")
  /\ my' = [my EXCEPT ![t].last = tail]
  /\ UNCHANGED <<mem, answer>>

DeqReadNext(t) ==
  /\ Goto(t, "deqNext", "deqCheck")
  /\ my' = [my EXCEPT ![t].next = next[my[t].first]]
  /\ UNCHANGED <<mem, answer>>

(* if (first == l->head): with first = last the queue is empty or tail lags *)
(* behind.                                                                  *)
DeqCheck(t) ==
  LET same  == my[t].first = my[t].last
      empty == my[t].first = head /\ same /\ my[t].next = NULL
  IN  /\ Goto(t, "deqCheck", IF my[t].first # head THEN "deqHead"
                             ELSE IF empty THEN "return"
                             ELSE IF same THEN "deqHelp" ELSE "unlink")
      /\ my' = [my EXCEPT ![t] = IF empty THEN [Fresh EXCEPT !.ret = EMPTY_QUEUE]
                                 ELSE IF my[t].first # head THEN Fresh ELSE @]
      /\ UNCHANGED <<mem, answer>>

(* value = next->val; synchCASPTR(&l->head, first, next). The value of a    *)
(* listed node does not change, so reading it and the CAS are one step.     *)
Unlink(t) ==
  /\ Goto(t, "unlink", IF head = my[t].first THEN "return" ELSE "deqHead")
  /\ head' = Swapped(head, my[t].first, my[t].next)
  /\ my' = [my EXCEPT ![t] = [Fresh EXCEPT !.ret = IF head = my[t].first
                                                   THEN val[my[t].next] ELSE NULL]]
  /\ UNCHANGED <<tail, next, val, answer>>

Return(t) ==
  /\ Goto(t, "return", "out")
  /\ answer' = [answer EXCEPT ![t] = my[t].ret]
  /\ my' = [my EXCEPT ![t] = Fresh]
  /\ UNCHANGED mem

Step(t) ==
  \/ EnqReadTail(t) \/ EnqReadNext(t) \/ EnqCheck(t) \/ EnqHelp(t)
  \/ LinkNode(t) \/ SwingTail(t)
  \/ DeqReadHead(t) \/ DeqReadTail(t) \/ DeqReadNext(t) \/ DeqCheck(t)
  \/ DeqHelp(t) \/ Unlink(t) \/ Return(t)

Next == \E t \in Threads : Step(t) \/ Dequeue(t) \/ \E v \in Values : Enqueue(t, v)

Spec == Init /\ [][Next]_vars

-----------------------------------------------------------------------------
(* The i-th node of the list after head.                                    *)
Reached[i \in 0 .. MaxNodes + 1] ==
  IF i = 0 THEN head
  ELSE IF Reached[i - 1] = NULL THEN NULL ELSE next[Reached[i - 1]]

(* tail is never behind head, and never more than one node behind the end   *)
(* of the list.                                                             *)
TailIsNearEnd ==
  /\ \E i \in 0 .. MaxNodes : Reached[i] = tail
  /\ next[tail] # NULL => next[next[tail]] = NULL

Content ==
  LET size == Cardinality({i \in 1 .. MaxNodes + 1 : Reached[i] # NULL})
  IN  [i \in 1 .. size |-> val[Reached[i]]]

QueueState(s, r, t) ==
  CASE r[1] = "enq" -> Append(s, r[2])
    [] r[1] = "deq" -> IF s = <<>> THEN s ELSE Tail(s)

QueueResult(s, r, t) ==
  CASE r[1] = "enq" -> NULL
    [] r[1] = "deq" -> IF s = <<>> THEN EMPTY_QUEUE ELSE Head(s)

Deq == <<"deq", NULL>>
Requests == ({"enq"} \X Values) \cup {Deq}

Pending(r) == [status |-> "pending", arg |-> r]
Done(r, ret, pure) == [status |-> "done", arg |-> r, ret |-> ret, pure |-> pure]

(* An enqueue takes effect when its node is linked, a dequeue when head     *)
(* moves. One that reads first->next = NULL has seen an empty queue, which  *)
(* counts unless head has moved when it looks again: then it starts anew,   *)
(* and otherwise its answer is settled.                                     *)
Served(t) ==
  LET enq == <<"enq", val[my[t].p]>>
  IN  CASE pc[t] = "out" -> [status |-> "idle"]
        [] pc[t] \in {"enqTail", "enqNext", "enqCheck", "enqHelp", "link"} -> Pending(enq)
        [] pc[t] = "swing" -> Done(enq, NULL, FALSE)
        [] pc[t] = "deqCheck" /\ my[t].next = NULL /\ head = my[t].first ->
             Done(Deq, EMPTY_QUEUE, TRUE)
        [] pc[t] = "return" -> Done(Deq, my[t].ret, FALSE)
        [] OTHER -> Pending(Deq)

Fifo == INSTANCE RetryObject WITH
          Args <- Requests,
          InitialState <- <<>>,
          NoResult <- NULL,
          NewState <- QueueState,
          Result <- QueueResult,
          obj <- Content,
          op <- [t \in Threads |-> Served(t)],
          result <- answer

(* The queue is a linearizable FIFO queue.                                  *)
ImplementsFifo == Fifo!Spec
=============================================================================
