-------------------------------- MODULE LCRQ --------------------------------
(***************************************************************************)
(* LCRQ (libconcurrent/concurrent/lcrq.c): a list of rings. Enqueuers and  *)
(* dequeuers of a ring draw numbers by Fetch&Add from its tail and head;   *)
(* the cell of a number is taken by a 128-bit CAS on its value and index.  *)
(* A dequeuer that comes first makes its cell useless to the enqueuer that *)
(* is late; an enqueuer that finds no cell closes the ring and opens the   *)
(* next one. Rings are never given back (HAVE_HPTRS is not defined).       *)
(***************************************************************************)
EXTENDS Integers, Sequences, FiniteSets

CONSTANTS
  Threads,
  Requests,      (* Requests[t]: what t calls, in order: a value to        *)
                 (* enqueue, or DEQ                                        *)
  DEQ,
  EMPTY,         (* the value -1 of a cell                                 *)
  EMPTY_QUEUE,
  NULL,
  RingSize,      (* RING_SIZE, 2^14 in the code                            *)
  Tries,         (* the 10 of close_crq                                    *)
  MaxRings       (* a bound on the rings                                   *)

ConstantsAssumption ==
  /\ RingSize \in Nat \ {0} /\ Tries \in Nat /\ MaxRings \in Nat \ {0}
  /\ NULL \notin 1 .. MaxRings

Rings == 1 .. MaxRings

VARIABLES
  head, tail,    (* queue->head and queue->tail                            *)
  ring,          (* the rings: head, tail (its bit 63 is closed), next,    *)
                 (* and the cells of array: val, idx (its bit 63 is unsafe)*)
  rings,         (* how many are allocated                                 *)
  nrq,           (* the ring a thread has in reserve                       *)
  pc, calls,
  my,            (* locals of the call                                     *)
  lin            (* the queues that explain the answers given so far, see  *)
                 (* Linearizable                                           *)

vars == <<head, tail, ring, rings, nrq, pc, calls, my, lin>>

Fresh == [rq |-> NULL, n |-> 0, idx |-> 0, unsafe |-> FALSE, val |-> EMPTY,
          tt |-> [n |-> 0, closed |-> FALSE], r |-> "first", try_close |-> 0]

(* init_ring *)
NewRing ==
  [head |-> 0, tail |-> [n |-> 0, closed |-> FALSE], next |-> NULL,
   array |-> [i \in 0 .. RingSize - 1 |-> [val |-> EMPTY, idx |-> i, unsafe |-> FALSE]]]

Arg(t) == Requests[t][calls[t]]
rq(t) == ring[my[t].rq]
place(t) == my[t].n % RingSize         \* of cell
cell(t) == rq(t).array[place(t)]

Goto(t, from, to) ==
  /\ pc[t] = from
  /\ pc' = [pc EXCEPT ![t] = to]

-----------------------------------------------------------------------------
(* Linearizability. A pair [queue, done] of lin is one way to order the     *)
(* calls so far: the queue it leaves, and the answers of the calls that     *)
(* took effect and have not returned yet.                                   *)
Effect(c, t) ==
  IF Arg(t) # DEQ
  THEN [queue |-> Append(c.queue, Arg(t)), done |-> [c.done EXCEPT ![t] = Arg(t)]]
  ELSE IF c.queue = <<>>
  THEN [c EXCEPT !.done[t] = EMPTY_QUEUE]
  ELSE [queue |-> Tail(c.queue), done |-> [c.done EXCEPT ![t] = Head(c.queue)]]

(* More of the pending calls take effect, in any order.                     *)
Explained ==
  LET more[k \in 0 .. Cardinality(Threads)] ==
        IF k = 0 THEN lin
        ELSE more[k - 1] \cup
             UNION {{Effect(c, t) : t \in {u \in Threads : pc[u] # "out" /\ c.done[u] = NULL}} :
                    c \in more[k - 1]}
  IN  more[Cardinality(Threads)]

(* The call of t returns v.                                                 *)
Return(t, from, v) ==
  /\ Goto(t, from, "out")
  /\ my' = [my EXCEPT ![t] = Fresh]
  /\ lin' = {[c EXCEPT !.done[t] = NULL] : c \in {d \in Explained : d.done[t] = v}}

(* LCRQInit and LCRQThreadStateInit *)
Init ==
  /\ head = 1 /\ tail = 1
  /\ ring = [r \in Rings |-> NewRing]
  /\ rings = 1
  /\ nrq = [t \in Threads |-> NULL]
  /\ pc = [t \in Threads |-> "out"]
  /\ calls = [t \in Threads |-> 0]
  /\ my = [t \in Threads |-> Fresh]
  /\ lin = {[queue |-> <<>>, done |-> [t \in Threads |-> NULL]]}

Call(t) ==
  /\ calls[t] < Len(Requests[t])
  /\ Goto(t, "out", IF Requests[t][calls[t] + 1] = DEQ THEN "deqHead" ELSE "enqTail")
  /\ calls' = [calls EXCEPT ![t] = @ + 1]
  /\ UNCHANGED <<head, tail, ring, rings, nrq, my, lin>>

(* The loop of the call starts again; try_close outlives it.                *)
Again(t) == [Fresh EXCEPT !.try_close = my[t].try_close]

-----------------------------------------------------------------------------
(* LCRQEnqueue: rq = queue->tail *)
EnqTail(t) ==
  /\ Goto(t, "enqTail", "enqNext")
  /\ my' = [my EXCEPT ![t].rq = tail]
  /\ UNCHANGED <<head, tail, ring, rings, nrq, calls, lin>>

(* next = rq->next *)
EnqNext(t) ==
  /\ Goto(t, "enqNext", IF rq(t).next = NULL THEN "enqNumber" ELSE "enqAdvance")
  /\ UNCHANGED <<head, tail, ring, rings, nrq, calls, my, lin>>

(* synchCASPTR(&queue->tail, rq, next) *)
EnqAdvance(t) ==
  /\ Goto(t, "enqAdvance", "enqTail")
  /\ tail' = IF tail = my[t].rq THEN rq(t).next ELSE tail
  /\ my' = [my EXCEPT ![t] = Again(t)]
  /\ UNCHANGED <<head, ring, rings, nrq, calls, lin>>

(* t = synchFAA64(&rq->tail, 1) *)
EnqNumber(t) ==
  /\ Goto(t, "enqNumber", IF rq(t).tail.closed THEN "alloc" ELSE "enqIdx")
  /\ ring' = [ring EXCEPT ![my[t].rq].tail.n = @ + 1]
  /\ my' = [my EXCEPT ![t].n = rq(t).tail.n]
  /\ UNCHANGED <<head, tail, rings, nrq, calls, lin>>

(* idx = cell->idx, and then val = cell->val                                *)
ReadIdx(t, from, to) ==
  /\ Goto(t, from, to)
  /\ my' = [my EXCEPT ![t].idx = cell(t).idx, ![t].unsafe = cell(t).unsafe]
  /\ UNCHANGED <<head, tail, ring, rings, nrq, calls, lin>>

EnqIdx(t) == ReadIdx(t, "enqIdx", "enqVal")

EnqVal(t) ==
  /\ Goto(t, "enqVal", IF cell(t).val # EMPTY \/ my[t].idx > my[t].n THEN "enqFull"
                       ELSE IF my[t].unsafe THEN "enqUnsafe" ELSE "enqCAS")
  /\ UNCHANGED <<head, tail, ring, rings, nrq, calls, my, lin>>

(* rq->head < t: an unsafe cell will do if no dequeuer is as far.           *)
EnqUnsafe(t) ==
  /\ Goto(t, "enqUnsafe", IF rq(t).head < my[t].n THEN "enqCAS" ELSE "enqFull")
  /\ UNCHANGED <<head, tail, ring, rings, nrq, calls, my, lin>>

(* The cell is still as it was read (synchCAS128).                          *)
CellIs(t, v) == cell(t) = [val |-> v, idx |-> my[t].idx, unsafe |-> my[t].unsafe]
SetCell(t, v, i, u) ==
  ring' = [ring EXCEPT ![my[t].rq].array[place(t)] = [val |-> v, idx |-> i, unsafe |-> u]]

(* synchCAS128(cell, -1, idx, arg, t): the call returns,                    *)
EnqCAS(t) ==
  /\ Return(t, "enqCAS", Arg(t))
  /\ CellIs(t, EMPTY)
  /\ SetCell(t, Arg(t), my[t].n, FALSE)
  /\ UNCHANGED <<head, tail, rings, nrq, calls>>

(* or it fails.                                                             *)
EnqCASFails(t) ==
  /\ Goto(t, "enqCAS", "enqFull")
  /\ ~CellIs(t, EMPTY)
  /\ UNCHANGED <<head, tail, ring, rings, nrq, calls, my, lin>>

(* h = rq->head: is the ring full?                                          *)
EnqFull(t) ==
  LET full == my[t].n - rq(t).head >= RingSize
  IN  /\ Goto(t, "enqFull", IF full THEN "enqClose" ELSE "enqTail")
      /\ my' = [my EXCEPT ![t] = IF full THEN [@ EXCEPT !.try_close = @ + 1] ELSE Again(t)]
      /\ UNCHANGED <<head, tail, ring, rings, nrq, calls, lin>>

(* close_crq: by a CAS of the tail, or after some tries without asking.     *)
EnqClose(t) ==
  LET closes == my[t].try_close >= Tries \/ rq(t).tail = [n |-> my[t].n + 1, closed |-> FALSE]
  IN  /\ Goto(t, "enqClose", IF closes THEN "alloc" ELSE "enqTail")
      /\ ring' = IF closes THEN [ring EXCEPT ![my[t].rq].tail.closed = TRUE] ELSE ring
      /\ my' = [my EXCEPT ![t] = IF closes THEN @ ELSE Again(t)]
      /\ UNCHANGED <<head, tail, rings, nrq, calls, lin>>

(* A new ring with arg in its first cell, linked by                         *)
(* synchCASPTR(&rq->next, NULL, nrq)                                        *)
Solo(new, arg) ==
  [new EXCEPT !.tail.n = 1, !.array[0] = [val |-> arg, idx |-> 0, unsafe |-> FALSE]]

Alloc(t) ==
  LET linked == rq(t).next = NULL
      new == IF nrq[t] = NULL THEN rings + 1 ELSE nrq[t]
  IN  /\ Goto(t, "alloc", IF linked THEN "enqSwing" ELSE "enqTail")
      /\ new \in Rings
      /\ rings' = IF nrq[t] = NULL THEN new ELSE rings
      /\ nrq' = [nrq EXCEPT ![t] = new]
      /\ ring' = [ring EXCEPT ![new] = Solo(@, Arg(t)),
                              ![my[t].rq].next = IF linked THEN new ELSE @]
      /\ my' = [my EXCEPT ![t] = IF linked THEN @ ELSE Again(t)]
      /\ UNCHANGED <<head, tail, calls, lin>>

(* synchCASPTR(&queue->tail, rq, nrq); return *)
EnqSwing(t) ==
  /\ Return(t, "enqSwing", Arg(t))
  /\ tail' = IF tail = my[t].rq THEN nrq[t] ELSE tail
  /\ nrq' = [nrq EXCEPT ![t] = NULL]
  /\ UNCHANGED <<head, ring, rings, calls>>

-----------------------------------------------------------------------------
(* LCRQDequeue: rq = queue->head *)
DeqHead(t) ==
  /\ Goto(t, "deqHead", "deqNumber")
  /\ my' = [my EXCEPT ![t].rq = head]
  /\ UNCHANGED <<head, tail, ring, rings, nrq, calls, lin>>

(* h = synchFAA64(&rq->head, 1) *)
DeqNumber(t) ==
  /\ Goto(t, "deqNumber", "deqIdx")
  /\ ring' = [ring EXCEPT ![my[t].rq].head = @ + 1]
  /\ my' = [my EXCEPT ![t].n = rq(t).head]
  /\ UNCHANGED <<head, tail, rings, nrq, calls, lin>>

DeqIdx(t) == ReadIdx(t, "deqIdx", "deqVal")

(* val = cell->val: what is in the cell?                                    *)
DeqVal(t) ==
  LET v == cell(t).val
  IN  /\ Goto(t, "deqVal", IF my[t].idx > my[t].n THEN "deqTail"
                           ELSE IF v = EMPTY THEN "deqEmpty"
                           ELSE IF my[t].idx = my[t].n THEN "deqTake" ELSE "deqMark")
      /\ my' = [my EXCEPT ![t].val = IF my[t].idx > my[t].n THEN EMPTY ELSE v]
      /\ UNCHANGED <<head, tail, ring, rings, nrq, calls, lin>>

(* The value of this number: the CAS takes it out, and the call returns it. *)
DeqTake(t) ==
  /\ Return(t, "deqTake", my[t].val)
  /\ CellIs(t, my[t].val)
  /\ SetCell(t, EMPTY, my[t].n + RingSize, my[t].unsafe)
  /\ UNCHANGED <<head, tail, rings, nrq, calls>>

(* An older value: the CAS makes the cell unsafe.                           *)
DeqMark(t) ==
  /\ Goto(t, "deqMark", "deqTail")
  /\ CellIs(t, my[t].val)
  /\ SetCell(t, my[t].val, my[t].idx, TRUE)
  /\ UNCHANGED <<head, tail, rings, nrq, calls, my, lin>>

(* An empty cell. rq->tail is read in the first round of the inner loop and *)
(* in every 1024th: tt may be old. The rounds counted by r are the first,   *)
(* some, or more than 200000.                                               *)
DeqEmpty(t) ==
  /\ Goto(t, "deqEmpty", "deqDecide")
  /\ \/ my' = [my EXCEPT ![t].tt = rq(t).tail]
     \/ my[t].r # "first" /\ UNCHANGED my
  /\ UNCHANGED <<head, tail, ring, rings, nrq, calls, lin>>

(* Nobody will come, or the thread has waited long enough.                  *)
GivesUp(t) ==
  \/ my[t].unsafe
  \/ my[t].tt.n < my[t].n + 1
  \/ my[t].r = "many"
  \/ my[t].tt.closed

DeqWait(t) ==
  /\ Goto(t, "deqDecide", "deqIdx")
  /\ ~GivesUp(t)
  /\ \E r \in {"some", "many"} : my' = [my EXCEPT ![t].r = r]
  /\ UNCHANGED <<head, tail, ring, rings, nrq, calls, lin>>

(* The CAS moves the index of the cell past the number. After many rounds   *)
(* the ring is closed, if tt > RING_SIZE (the bit of closed counts).        *)
DeqPass(t) ==
  /\ Goto(t, "deqDecide", IF ~my[t].unsafe /\ my[t].r = "many"
                             /\ (my[t].tt.closed \/ my[t].tt.n > RingSize)
                          THEN "deqClose" ELSE "deqTail")
  /\ GivesUp(t)
  /\ CellIs(t, EMPTY)
  /\ SetCell(t, EMPTY, my[t].n + RingSize, my[t].unsafe)
  /\ UNCHANGED <<head, tail, rings, nrq, calls, my, lin>>

(* synchBitTAS64(&rq->tail, 63) *)
DeqClose(t) ==
  /\ Goto(t, "deqClose", "deqTail")
  /\ ring' = [ring EXCEPT ![my[t].rq].tail.closed = TRUE]
  /\ UNCHANGED <<head, tail, rings, nrq, calls, my, lin>>

(* A CAS that fails: the inner loop starts again.                           *)
DeqCASFails(t) ==
  /\ \/ pc[t] \in {"deqTake", "deqMark"} /\ ~CellIs(t, my[t].val)
     \/ pc[t] = "deqDecide" /\ GivesUp(t) /\ ~CellIs(t, EMPTY)
  /\ pc' = [pc EXCEPT ![t] = "deqIdx"]
  /\ UNCHANGED <<head, tail, ring, rings, nrq, calls, my, lin>>

(* tail_index(rq->tail) <= h + 1 *)
DeqTail(t) ==
  LET seemsEmpty == rq(t).tail.n <= my[t].n + 1
  IN  /\ Goto(t, "deqTail", IF seemsEmpty THEN "fixTail" ELSE "deqHead")
      /\ my' = [my EXCEPT ![t] = IF seemsEmpty THEN @ ELSE Fresh]
      /\ UNCHANGED <<head, tail, ring, rings, nrq, calls, lin>>

(* fix_state: t = tail, *)
FixTail(t) ==
  /\ Goto(t, "fixTail", "fixHead")
  /\ my' = [my EXCEPT ![t].tt = rq(t).tail]
  /\ UNCHANGED <<head, tail, ring, rings, nrq, calls, lin>>

(* h = head, *)
FixHead(t) ==
  /\ Goto(t, "fixHead", "fixCheck")
  /\ my' = [my EXCEPT ![t].idx = rq(t).head]
  /\ UNCHANGED <<head, tail, ring, rings, nrq, calls, lin>>

(* again if the tail moved; h > t, where a closed t is large,               *)
FixCheck(t) ==
  /\ Goto(t, "fixCheck", IF rq(t).tail # my[t].tt THEN "fixTail"
                         ELSE IF ~my[t].tt.closed /\ my[t].idx > my[t].tt.n THEN "fixCAS"
                         ELSE "deqNext")
  /\ UNCHANGED <<head, tail, ring, rings, nrq, calls, my, lin>>

(* and the tail follows the head.                                           *)
FixCAS(t) ==
  LET same == rq(t).tail = my[t].tt
  IN  /\ Goto(t, "fixCAS", IF same THEN "deqNext" ELSE "fixTail")
      /\ ring' = IF same THEN [ring EXCEPT ![my[t].rq].tail.n = my[t].idx] ELSE ring
      /\ UNCHANGED <<head, tail, rings, nrq, calls, my, lin>>

(* next = rq->next: if there is none the queue is empty.                    *)
DeqNone(t) ==
  /\ Return(t, "deqNext", EMPTY_QUEUE)
  /\ rq(t).next = NULL
  /\ UNCHANGED <<head, tail, ring, rings, nrq, calls>>

(* Mutant of DeqNext: the ring is left without another look at its tail.    *)
DeqNextHasty(t) ==
  /\ Goto(t, "deqNext", "deqSwing")
  /\ rq(t).next # NULL
  /\ UNCHANGED <<head, tail, ring, rings, nrq, calls, my, lin>>

DeqNext(t) ==
  /\ Goto(t, "deqNext", "deqTailAgain")
  /\ rq(t).next # NULL
  /\ UNCHANGED <<head, tail, ring, rings, nrq, calls, my, lin>>

DeqTailAgain(t) ==
  LET empty == rq(t).tail.n <= my[t].n + 1
  IN  /\ Goto(t, "deqTailAgain", IF empty THEN "deqSwing" ELSE "deqHead")
      /\ my' = [my EXCEPT ![t] = IF empty THEN @ ELSE Fresh]
      /\ UNCHANGED <<head, tail, ring, rings, nrq, calls, lin>>

(* synchCASPTR(&queue->head, rq, next) *)
DeqSwing(t) ==
  /\ Goto(t, "deqSwing", "deqHead")
  /\ head' = IF head = my[t].rq THEN rq(t).next ELSE head
  /\ my' = [my EXCEPT ![t] = Fresh]
  /\ UNCHANGED <<tail, ring, rings, nrq, calls, lin>>

LCRQEnqueue(t) ==
  \/ EnqTail(t) \/ EnqNext(t) \/ EnqAdvance(t) \/ EnqNumber(t) \/ EnqIdx(t) \/ EnqVal(t)
  \/ EnqUnsafe(t) \/ EnqCAS(t) \/ EnqCASFails(t) \/ EnqFull(t) \/ EnqClose(t)
  \/ Alloc(t) \/ EnqSwing(t)

fix_state(t) == FixTail(t) \/ FixHead(t) \/ FixCheck(t) \/ FixCAS(t)

LCRQDequeue(t) ==
  \/ DeqHead(t) \/ DeqNumber(t) \/ DeqIdx(t) \/ DeqVal(t) \/ DeqTake(t) \/ DeqMark(t)
  \/ DeqEmpty(t) \/ DeqWait(t) \/ DeqPass(t) \/ DeqClose(t) \/ DeqCASFails(t)
  \/ DeqTail(t) \/ fix_state(t) \/ DeqNone(t) \/ DeqNext(t) \/ DeqTailAgain(t)
  \/ DeqSwing(t)

Next == \E t \in Threads : Call(t) \/ LCRQEnqueue(t) \/ LCRQDequeue(t)

Spec == Init /\ [][Next]_vars

-----------------------------------------------------------------------------
(* LCRQ is a linearizable queue: some order of the calls, each placed       *)
(* between its start and its return, explains all answers so far. (No fixed *)
(* step of an enqueuer can be named as its effect: an enqueuer with a later *)
(* number may overtake it, or a dequeuer may spoil its cell.)               *)
Linearizable == lin # {}
=============================================================================
