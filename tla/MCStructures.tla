---------------------------- MODULE MCStructures ----------------------------
(* The stacks, the queues, the hash tables and the lock-free objects for    *)
(* TLC, side by side: a behaviour is one of them, which is chosen at the    *)
(* start, and the others stay as they are initialised. (Several variants of *)
(* one module share its variables.)                                         *)
EXTENDS LFUObject, TLC, Integers

CONSTANTS
  Values, Guard, Failure, POP_OP, EMPTY_STACK, EMPTY_QUEUE, DEQ, Keys,
  LinkedNodes, MSNodes, LFNodes,   (* MaxNodes of the modules              *)
  TableSize,                       (* size of HashTable                    *)
  Callers, Bits32, Bits64, Addends (* of Emulation                         *)

(* A counter modulo 3 that answers with its old value: additions of 0 leave *)
(* it as it is, and those of 1 and 2 bring it back to an old value.         *)
AddState(s, a, t) == (s + a) % 3
OldState(s, a, t) == s

(* Emulation *)
UpAndDown == {-1, 1}

(* LCRQ: two threads that enqueue and one that dequeues meet on a ring of   *)
(* one cell.                                                                *)
Workload == ("t" :> <<"a">>) @@ ("u" :> <<"b">>) @@ ("v" :> <<DEQ>>)

(* And two threads that both enqueue and dequeue go round a ring of two.    *)
Crossing == ("t" :> <<"a", "c">>) @@ ("u" :> <<DEQ, "b", DEQ>>)

VARIABLES
  which,       (* the component this behaviour is of                       *)
  q_first, q_last, q_next, q_val, q_used, q_pool, q_op, q_side, q_enq, q_deq,
  q_answer,
  k_top, k_next, k_val, k_used, k_pool, k_op, k_answer,
  m_head, m_tail, m_next, m_val, m_pc, m_my, m_answer,
  s_top, s_next, s_val, s_used, s_pc, s_n, s_old_top, s_old_next, s_answer,
  c_head, c_tail, c_ring, c_rings, c_nrq, c_pc, c_calls, c_my, c_lin,
  e_word, e_pc, e_call, e_old_val, e_answer,
  h_cells, h_announce, h_pc, h_answer, h_members

q_vars ==
  <<q_first, q_last, q_next, q_val, q_used, q_pool, q_op, q_side, q_enq, q_deq,
  q_answer>>
k_vars ==
  <<k_top, k_next, k_val, k_used, k_pool, k_op, k_answer>>
m_vars ==
  <<m_head, m_tail, m_next, m_val, m_pc, m_my, m_answer>>
s_vars ==
  <<s_top, s_next, s_val, s_used, s_pc, s_n, s_old_top, s_old_next, s_answer>>
c_vars ==
  <<c_head, c_tail, c_ring, c_rings, c_nrq, c_pc, c_calls, c_my, c_lin>>
e_vars ==
  <<e_word, e_pc, e_call, e_old_val, e_answer>>
h_vars ==
  <<h_cells, h_announce, h_pc, h_answer, h_members>>

Q == INSTANCE LinkedQueue WITH
  first <- q_first, last <- q_last, next <- q_next, val <- q_val, used <-
  q_used, pool <- q_pool, op <- q_op, side <- q_side, enq <- q_enq, deq <-
  q_deq, answer <- q_answer, Variant <- "CCQueue", MaxNodes <- LinkedNodes

K == INSTANCE LinkedStack WITH
  top <- k_top, next <- k_next, val <- k_val, used <- k_used, pool <- k_pool,
  op <- k_op, answer <- k_answer, Variant <- "CCStack", MaxNodes <-
  LinkedNodes

M == INSTANCE MSQueue WITH
  head <- m_head, tail <- m_tail, next <- m_next, val <- m_val, pc <- m_pc, my
  <- m_my, answer <- m_answer, MaxNodes <- MSNodes

S == INSTANCE LFStack WITH
  top <- s_top, next <- s_next, val <- s_val, used <- s_used, pc <- s_pc, n <-
  s_n, old_top <- s_old_top, old_next <- s_old_next, answer <- s_answer,
  MaxNodes <- LFNodes

C == INSTANCE LCRQ WITH
  head <- c_head, tail <- c_tail, ring <- c_ring, rings <- c_rings, nrq <-
  c_nrq, pc <- c_pc, calls <- c_calls, my <- c_my, lin <- c_lin, Threads <-
  DOMAIN Workload, Requests <- Workload, EMPTY <- "none", RingSize <- 1, Tries
  <- 2, MaxRings <- 4

E == INSTANCE Emulation WITH
  word <- e_word, pc <- e_pc, call <- e_call, old_val <- e_old_val, answer <-
  e_answer, Threads <- Callers

H == INSTANCE HashTable WITH
  cells <- h_cells, announce <- h_announce, pc <- h_pc, answer <- h_answer,
  members <- h_members, size <- TableSize, Variant <- "CLHHash"

KF == INSTANCE LinkedStack WITH
  top <- k_top, next <- k_next, val <- k_val, used <- k_used, pool <- k_pool,
  op <- k_op, answer <- k_answer, Variant <- "FCStack", MaxNodes <-
  LinkedNodes

HD == INSTANCE HashTable WITH
  cells <- h_cells, announce <- h_announce, pc <- h_pc, answer <- h_answer,
  members <- h_members, size <- TableSize, Variant <- "DSMHash"

CT == INSTANCE LCRQ WITH
  head <- c_head, tail <- c_tail, ring <- c_ring, rings <- c_rings, nrq <-
  c_nrq, pc <- c_pc, calls <- c_calls, my <- c_my, lin <- c_lin, Threads <-
  DOMAIN Crossing, Requests <- Crossing, EMPTY <- "none", RingSize <- 2, Tries
  <- 2, MaxRings <- 6

ASSUME StructuresAssumption ==
  /\ Q!ConstantsAssumption /\ K!ConstantsAssumption /\ M!ConstantsAssumption
  /\ S!ConstantsAssumption /\ C!ConstantsAssumption /\ CT!ConstantsAssumption
  /\ E!ConstantsAssumption /\ H!ConstantsAssumption

MCInit ==
  /\ which \in {"LFUObject", "CCQueue", "CCStack", "FCStack", "MSQueue", "LFStack",
                "LCRQ", "LCRQ of two", "Emulation", "CLHHash", "DSMHash"}
  /\ Init /\ Q!Init /\ K!Init /\ M!Init /\ S!Init /\ E!Init /\ H!Init
  /\ IF which = "LCRQ of two" THEN CT!Init ELSE C!Init

MCNext ==
  \/ /\ which = "LFUObject" /\ Next
     /\ UNCHANGED <<which, q_vars, k_vars, m_vars, s_vars, c_vars, e_vars, h_vars>>
  \/ /\ which = "CCQueue" /\ Q!Next
     /\ UNCHANGED <<which, vars, k_vars, m_vars, s_vars, c_vars, e_vars, h_vars>>
  \/ /\ which = "CCStack" /\ K!Next
     /\ UNCHANGED <<which, vars, q_vars, m_vars, s_vars, c_vars, e_vars, h_vars>>
  \/ /\ which = "FCStack" /\ KF!Next
     /\ UNCHANGED <<which, vars, q_vars, m_vars, s_vars, c_vars, e_vars, h_vars>>
  \/ /\ which = "MSQueue" /\ M!Next
     /\ UNCHANGED <<which, vars, q_vars, k_vars, s_vars, c_vars, e_vars, h_vars>>
  \/ /\ which = "LFStack" /\ S!Next
     /\ UNCHANGED <<which, vars, q_vars, k_vars, m_vars, c_vars, e_vars, h_vars>>
  \/ /\ which = "LCRQ" /\ C!Next
     /\ UNCHANGED <<which, vars, q_vars, k_vars, m_vars, s_vars, e_vars, h_vars>>
  \/ /\ which = "LCRQ of two" /\ CT!Next
     /\ UNCHANGED <<which, vars, q_vars, k_vars, m_vars, s_vars, e_vars, h_vars>>
  \/ /\ which = "Emulation" /\ E!Next
     /\ UNCHANGED <<which, vars, q_vars, k_vars, m_vars, s_vars, c_vars, h_vars>>
  \/ /\ which = "CLHHash" /\ H!Next
     /\ UNCHANGED <<which, vars, q_vars, k_vars, m_vars, s_vars, c_vars, e_vars>>
  \/ /\ which = "DSMHash" /\ HD!Next
     /\ UNCHANGED <<which, vars, q_vars, k_vars, m_vars, s_vars, c_vars, e_vars>>

MCSpec ==
  MCInit /\ [][MCNext]_<<which, vars, q_vars, k_vars, m_vars, s_vars, c_vars, e_vars, h_vars>>

Symmetry == Permutations(Threads)

-----------------------------------------------------------------------------
(* The queue on two combining objects, whose enqueue and dequeue sides run  *)
(* at the same time and meet at the last node (ccqueue.c:24-61), and the    *)
(* Michael-Scott queue, whose Tail lags behind (msqueue.c:17-64), are first *)
(* in, first out, and each call takes effect once. (These are the formulas  *)
(* ImplementsFifo of the modules, each for its own behaviours.)             *)
QueuesAreFifo ==
  /\ Q!Fifo!Init /\ [][which = "CCQueue" => Q!Fifo!Next]_<<which, Q!Fifo!vars>>
  /\ M!Fifo!Init /\ [][which = "MSQueue" => M!Fifo!Next]_<<which, M!Fifo!vars>>

(* The stacks on a combining object (ccstack.c:20-53, fcstack.c:21-49) and  *)
(* the lock-free stack, which never reuses a node (lfstack.c:13-40), are    *)
(* last in, first out. (These are the formulas ImplementsLifo.)             *)
StacksAreLifo ==
  /\ K!Lifo!Init /\ [][which = "CCStack" => K!Lifo!Next]_<<which, K!Lifo!vars>>
  /\ KF!Lifo!Init /\ [][which = "FCStack" => KF!Lifo!Next]_<<which, KF!Lifo!vars>>
  /\ S!Lifo!Init /\ [][which = "LFStack" => S!Lifo!Next]_<<which, S!Lifo!vars>>

(* No node of the linked queue is reused while the queue or a call on       *)
(* either side still reaches it (ccqueue.c:48), and Tail of the             *)
(* Michael-Scott queue is one node behind at most.                          *)
QueueNodesAreApart ==
  /\ which = "CCQueue" => Q!TypeOK /\ Q!FreeNodesAreApart
  /\ which = "MSQueue" => M!TailIsNearEnd

(* LCRQ is a linearizable queue: some order of the calls explains all the   *)
(* answers given so far, although rings are closed and left behind          *)
(* (lcrq.c:140-266).                                                        *)
LCRQIsLinearizable == which \in {"LCRQ", "LCRQ of two"} => C!Linearizable

(* SWAP and Fetch&Add as primitives.c emulates them are atomic, as all the  *)
(* other models take them to be. (The formula ImplementsAtomicWord.)        *)
EmulatedWordsAreAtomic ==
  E!Atomic!Init /\ [][which = "Emulation" => E!Atomic!Next]_<<which, E!Atomic!vars>>

(* A key of a hash table has one node at most, in the cell of its hash, and *)
(* only while it is a member (clhhash.c:31-95).                             *)
KeysHaveOneNode ==
  /\ which = "CLHHash" => H!OneNodePerMember
  /\ which = "DSMHash" => HD!OneNodePerMember
=============================================================================
