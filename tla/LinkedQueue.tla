---------------------------- MODULE LinkedQueue ----------------------------
(***************************************************************************)
(* The linked queues on two combining objects: ccqueue.c, dsmqueue.c,      *)
(* hqueue.c, osciqueue.c and fcqueue.c of libconcurrent/concurrent. One    *)
(* combining object serialises the enqueuers, another one the dequeuers,   *)
(* so one enqueuing and one dequeuing combiner work on the list at once.   *)
(*                                                                         *)
(* A combining object appears here by what it promises: on each side the   *)
(* serial functions run one at a time, each request once, on a thread that *)
(* is itself inside a call on that side. Which thread it is matters: nodes *)
(* come from, and go back to, the pool of the thread that runs.            *)
(***************************************************************************)
EXTENDS Integers, Sequences, FiniteSets

CONSTANTS
  Threads,   (* pids                                                       *)
  Values,    (* what is enqueued                                           *)
  Guard,     (* GUARD_VALUE (LONG_MIN)                                     *)
  Failure,   (* EMPTY_QUEUE, or -1 in the FC queue                         *)
  NULL,
  MaxNodes,  (* a bound on the nodes ever taken out of the pools' blocks   *)
  Variant    (* the name of one of the queues below                        *)

(* What enq and deq hold while a serial function runs.                      *)
Enqueuing == [by : Threads, for : Threads, node : 0 .. MaxNodes, linked : BOOLEAN]
Dequeuing == [by : Threads, for : Threads, prev : 0 .. MaxNodes]

ConstantsAssumption ==
  /\ MaxNodes \in Nat \ {0}
  /\ NULL \notin Values \cup Threads \cup (0 .. MaxNodes)
  /\ NULL \notin Enqueuing /\ NULL \notin Dequeuing

(* The sources differ in the requests they announce, in the treatment of   *)
(* GUARD_VALUE, in the node whose value a dequeue returns and in whether   *)
(* the node that is unlinked is recycled.                                  *)
CCQueue   == [announces |-> "arg", skipsGuard |-> TRUE, returns |-> "new", recycles |-> TRUE]
DSMQueue  == [announces |-> "arg", skipsGuard |-> TRUE, returns |-> "new", recycles |-> TRUE]
HQueue    == [announces |-> "arg", skipsGuard |-> TRUE, returns |-> "new", recycles |-> TRUE]
OsciQueue == [announces |-> "arg", skipsGuard |-> TRUE, returns |-> "new", recycles |-> TRUE]
FCQueue   == [announces |-> "pid", skipsGuard |-> FALSE, returns |-> "old", recycles |-> FALSE]

Source == [CCQueue |-> CCQueue, DSMQueue |-> DSMQueue, HQueue |-> HQueue,
           OsciQueue |-> OsciQueue, FCQueue |-> FCQueue][Variant]

(* Node 0 is the guard embedded in the queue structure.                     *)
Nodes == 0 .. MaxNodes

VARIABLES
  first, last,  (* of the queue                                            *)
  next, val,    (* fields of the nodes                                     *)
  used,         (* nodes taken out of blocks so far                        *)
  pool,         (* recycle_list of each thread's pool_node                 *)
  op,           (* op[t]: idle, pending with its request, done with answer *)
  side,         (* side[t]: the combining object t has called              *)
  enq, deq,     (* the serial functions that are running: who runs for     *)
                (* whom, and on which node; NULL when none is              *)
  answer        (* answer[t]: what the last call of t returned             *)

vars == <<first, last, next, val, used, pool, op, side, enq, deq, answer>>

Idle       == [status |-> "idle"]
Pending(r) == [status |-> "pending", arg |-> r]
Done(r)    == [status |-> "done", ret |-> r]

Requests == ({"enq"} \X Values) \cup {<<"deq", NULL>>}

-----------------------------------------------------------------------------
(* *QueueStructInit, and *QueueThreadStateInit of every thread. *)
Init ==
  /\ first = 0 /\ last = 0
  /\ next = [n \in Nodes |-> NULL]
  /\ val = [n \in Nodes |-> Guard]
  /\ used = 0
  /\ pool = [t \in Threads |-> <<>>]
  /\ op = [t \in Threads |-> Idle]
  /\ side = [t \in Threads |-> NULL]
  /\ enq = NULL /\ deq = NULL
  /\ answer = [t \in Threads |-> NULL]

Free == UNION {{pool[t][i] : i \in 1 .. Len(pool[t])} : t \in Threads}

(* The bound on nodes: no more enqueuers than nodes they could still get.   *)
NodesLeft ==
  Cardinality({t \in Threads : side[t] = "enq"}) < MaxNodes - used + Cardinality(Free)

(* *QueueApplyEnqueue and *QueueApplyDequeue pass the request on.           *)
Call(t, r) ==
  /\ op[t] = Idle
  /\ r[1] = "enq" => NodesLeft
  /\ op' = [op EXCEPT ![t] = Pending(r)]
  /\ side' = [side EXCEPT ![t] = r[1]]
  /\ answer' = [answer EXCEPT ![t] = NULL]
  /\ UNCHANGED <<first, last, next, val, used, pool, enq, deq>>

Return(t) ==
  /\ op[t].status = "done"
  /\ answer' = [answer EXCEPT ![t] = op[t].ret]
  /\ op' = [op EXCEPT ![t] = Idle]
  /\ side' = [side EXCEPT ![t] = NULL]
  /\ \A job \in {enq, deq} \ {NULL} : job.by # t
  /\ UNCHANGED <<first, last, next, val, used, pool, enq, deq>>

(* Combiner c may run the request of t on side s. *)
MayServe(c, t, s) ==
  /\ side[c] = s
  /\ op[t].status = "pending" /\ op[t].arg[1] = s

(* serialEnqueue: a node is taken from the pool of the combiner and filled. *)
AllocNode(c, t) ==
  /\ enq = NULL /\ MayServe(c, t, "enq")
  /\ \E n \in Nodes :
       /\ IF pool[c] # <<>>
            THEN n = Head(pool[c]) /\ pool' = [pool EXCEPT ![c] = Tail(@)] /\ UNCHANGED used
            ELSE n = used + 1 /\ used' = n /\ UNCHANGED pool
       /\ next' = [next EXCEPT ![n] = NULL]
       /\ val' = [val EXCEPT ![n] = IF Source.announces = "pid" THEN t ELSE op[t].arg[2]]
       /\ enq' = [by |-> c, for |-> t, node |-> n, linked |-> FALSE]
  /\ UNCHANGED <<first, last, op, side, deq, answer>>

(* st->last->next = node. From here on the dequeuers see the node.          *)
Link ==
  /\ enq # NULL /\ ~enq.linked
  /\ next' = [next EXCEPT ![last] = enq.node]
  /\ enq' = [enq EXCEPT !.linked = TRUE]
  /\ UNCHANGED <<first, last, val, used, pool, op, side, deq, answer>>

(* st->last = node; return *)
SetLast ==
  /\ enq # NULL /\ enq.linked
  /\ last' = enq.node
  /\ op' = [op EXCEPT ![enq.for] = Done(NULL)]
  /\ enq' = NULL
  /\ UNCHANGED <<first, next, val, used, pool, side, deq, answer>>

(* Mutant of Advance: the queue counts as empty when first meets last, as   *)
(* in a queue with one lock.                                                *)
AdvanceUnlessLast(c, t) ==
  /\ deq = NULL /\ MayServe(c, t, "deq")
  /\ IF first = last
       THEN op' = [op EXCEPT ![t] = Done(Failure)] /\ UNCHANGED <<first, deq>>
       ELSE /\ first' = next[first]
            /\ deq' = [by |-> c, for |-> t, prev |-> first]
            /\ UNCHANGED op
  /\ UNCHANGED <<last, next, val, used, pool, side, enq, answer>>

(* serialDequeue: st->first->next is read; if there is a node, first moves. *)
(* (The second read of the pointer finds what the first one found: next of  *)
(* a listed node does not change again.)                                    *)
Advance(c, t) ==
  /\ deq = NULL /\ MayServe(c, t, "deq")
  /\ IF next[first] = NULL
       THEN op' = [op EXCEPT ![t] = Done(Failure)] /\ UNCHANGED <<first, deq>>
       ELSE /\ first' = next[first]
            /\ deq' = [by |-> c, for |-> t, prev |-> first]
            /\ UNCHANGED op
  /\ UNCHANGED <<last, next, val, used, pool, side, enq, answer>>

(* node->val is not GUARD_VALUE: prev is recycled, which overwrites its     *)
(* first word (val) with the link of the recycle list, and the value is     *)
(* returned. The guard inside the queue is recycled like any other node.    *)
SkipsFirst == Source.skipsGuard /\ val[first] = Guard

Answer == IF Source.returns = "new" THEN val[first] ELSE val[deq.prev]

(* Mutant of Take: the new first node is recycled in place of the old one. *)
TakeNode ==
  /\ deq # NULL /\ ~SkipsFirst
  /\ pool' = [pool EXCEPT ![deq.by] = <<first>> \o @]
  /\ op' = [op EXCEPT ![deq.for] = Done(Answer)]
  /\ deq' = NULL
  /\ UNCHANGED <<first, last, next, val, used, side, enq, answer>>

Take ==
  /\ deq # NULL /\ ~SkipsFirst
  /\ IF Source.recycles
       THEN /\ pool' = [pool EXCEPT ![deq.by] = <<deq.prev>> \o @]
            /\ val' = [val EXCEPT ![deq.prev] = NULL]
       ELSE UNCHANGED <<pool, val>>
  /\ op' = [op EXCEPT ![deq.for] = Done(Answer)]
  /\ deq' = NULL
  /\ UNCHANGED <<first, last, next, used, side, enq, answer>>

(* node->val is GUARD_VALUE: serialDequeue starts again, without recycling. *)
Skip ==
  /\ deq # NULL /\ SkipsFirst
  /\ deq' = NULL
  /\ UNCHANGED <<first, last, next, val, used, pool, op, side, enq, answer>>

Next ==
  \/ \E t \in Threads : Return(t) \/ \E r \in Requests : Call(t, r)
  \/ \E c, t \in Threads : AllocNode(c, t) \/ Advance(c, t)
  \/ Link \/ SetLast \/ Take \/ Skip

Spec == Init /\ [][Next]_vars

-----------------------------------------------------------------------------
(* The type of the state. *)
TypeOK ==
  /\ first \in Nodes /\ last \in Nodes
  /\ next \in [Nodes -> Nodes \cup {NULL}]
  /\ val \in [Nodes -> Values \cup Threads \cup {Guard, NULL}]
  /\ used \in 0 .. MaxNodes
  /\ \A t \in Threads : \A i \in 1 .. Len(pool[t]) : pool[t][i] \in Nodes
  /\ \A t \in Threads : op[t].status \in {"idle", "pending", "done"}
  /\ enq \in Enqueuing \cup {NULL} /\ deq \in Dequeuing \cup {NULL}

(* The i-th node of the list after first. *)
Reached[i \in 0 .. MaxNodes + 1] ==
  IF i = 0 THEN first
  ELSE IF Reached[i - 1] = NULL THEN NULL ELSE next[Reached[i - 1]]

Listed == {Reached[i] : i \in 0 .. MaxNodes + 1} \ {NULL}

(* A node in a pool is in the list no more, is in no other pool, and is not *)
(* written by the enqueuing combiner: last may point to it only while last  *)
(* is about to move. The dequeuing combiner relies on it, for it recycles   *)
(* a node without looking at last.                                          *)
FreeNodesAreApart ==
  /\ Free \cap Listed = {}
  /\ last \in Free => enq # NULL /\ enq.linked
  /\ enq # NULL => enq.node \notin Free
  /\ \A t, u \in Threads : \A i \in 1 .. Len(pool[t]), j \in 1 .. Len(pool[u]) :
       pool[t][i] = pool[u][j] => t = u /\ i = j

(* The values in the list behind first, as far as its i-th node.            *)
ContentUpTo[i \in 0 .. MaxNodes + 1] ==
  IF i = 0 THEN <<>>
  ELSE IF Reached[i] = NULL \/ val[Reached[i]] = Guard THEN ContentUpTo[i - 1]
  ELSE Append(ContentUpTo[i - 1], val[Reached[i]])

Content == ContentUpTo[MaxNodes + 1]

(* What the queues promise: a FIFO queue, in which an element equal to      *)
(* GUARD_VALUE is lost.                                                     *)
QueueState(s, r, t) ==
  CASE r[1] = "enq" -> IF r[2] = Guard THEN s ELSE Append(s, r[2])
    [] r[1] = "deq" -> IF s = <<>> THEN s ELSE Tail(s)

QueueResult(s, r, t) ==
  CASE r[1] = "enq" -> NULL
    [] r[1] = "deq" -> IF s = <<>> THEN Failure ELSE Head(s)

(* A request takes effect when its node is linked, or first moves to a node *)
(* with a value, or the last next pointer is found NULL.                    *)
Served(t) ==
  IF enq # NULL /\ enq.for = t /\ enq.linked THEN Done(NULL)
  ELSE IF deq # NULL /\ deq.for = t /\ ~SkipsFirst THEN Done(val[first])
  ELSE op[t]

Fifo == INSTANCE AtomicObject WITH
          Args <- Requests,
          InitialState <- <<>>,
          NoResult <- NULL,
          NewState <- QueueState,
          Result <- QueueResult,
          obj <- Content,
          op <- [t \in Threads |-> Served(t)],
          result <- answer

(* The queue is a linearizable FIFO queue, although its two ends are        *)
(* operated at the same time.                                               *)
ImplementsFifo == Fifo!Spec

(* What fcqueue.h says of the dequeue: a value it returns is the value of   *)
(* an element of the queue, so it was enqueued, or the queue was empty.     *)
AnswersWereEnqueued ==
  \A t \in Threads : answer[t] \in Values \cup {Failure, NULL}
=============================================================================
