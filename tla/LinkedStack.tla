---------------------------- MODULE LinkedStack ----------------------------
(***************************************************************************)
(* The linked stacks on a combining object: ccstack.c, dsmstack.c,         *)
(* hstack.c, oscistack.c and fcstack.c of libconcurrent/concurrent.        *)
(*                                                                         *)
(* The combining object appears by what it promises: serialPushPop runs    *)
(* for one request at a time, once for each, on a thread that is inside a  *)
(* call, and it is this thread whose pool gives and takes the nodes. A     *)
(* request is one word: POP_OP asks for a pop, anything else is pushed.    *)
(***************************************************************************)
EXTENDS Integers, Sequences, FiniteSets

CONSTANTS
  Threads,
  Values,      (* the words that threads push                              *)
  POP_OP,      (* INT_MIN                                                  *)
  EMPTY_STACK,
  NULL,
  MaxNodes,    (* a bound on the nodes taken out of the pools' blocks      *)
  Variant      (* the name of one of the stacks below                      *)

ConstantsAssumption ==
  MaxNodes \in Nat \ {0} /\ NULL \notin Values \cup (1 .. MaxNodes) \cup {POP_OP}

(* The sources differ in the answers and in whether nodes are recycled.     *)
CCStack   == [recycles |-> TRUE, empty |-> EMPTY_STACK]
DSMStack  == [recycles |-> TRUE, empty |-> EMPTY_STACK]
HStack    == [recycles |-> TRUE, empty |-> EMPTY_STACK]
OsciStack == [recycles |-> TRUE, empty |-> EMPTY_STACK]
FCStack   == [recycles |-> FALSE, empty |-> -1]

Source == [CCStack |-> CCStack, DSMStack |-> DSMStack, HStack |-> HStack,
           OsciStack |-> OsciStack, FCStack |-> FCStack][Variant]

PUSH_SUCCESS == 0
Nodes == 1 .. MaxNodes

VARIABLES
  top,
  next, val,   (* fields of the nodes; val is also the link of recycle_list *)
  used,        (* nodes taken out of blocks so far                         *)
  pool,        (* recycle_list of each thread's pool_node                  *)
  op,          (* op[t]: idle, pending with its word, done with its answer *)
  answer       (* answer[t]: what the last call of t returned              *)

vars == <<top, next, val, used, pool, op, answer>>

Idle       == [status |-> "idle"]
Pending(r) == [status |-> "pending", arg |-> r]
Done(r)    == [status |-> "done", ret |-> r]

-----------------------------------------------------------------------------
(* *StackInit, and *StackThreadStateInit of every thread. *)
Init ==
  /\ top = NULL
  /\ next = [n \in Nodes |-> NULL] /\ val = [n \in Nodes |-> NULL]
  /\ used = 0
  /\ pool = [t \in Threads |-> <<>>]
  /\ op = [t \in Threads |-> Idle]
  /\ answer = [t \in Threads |-> NULL]

(* *StackPush(v), or *StackPop, which passes POP_OP on.                     *)
Call(t, v) ==
  /\ op[t] = Idle
  /\ op' = [op EXCEPT ![t] = Pending(v)]
  /\ answer' = [answer EXCEPT ![t] = NULL]
  /\ UNCHANGED <<top, next, val, used, pool>>

Return(t) ==
  /\ op[t].status = "done"
  /\ answer' = [answer EXCEPT ![t] = op[t].ret]
  /\ op' = [op EXCEPT ![t] = Idle]
  /\ UNCHANGED <<top, next, val, used, pool>>

(* Thread c may run serialPushPop for the request of t.                     *)
MayServe(c, t) == op[c].status # "idle" /\ op[t].status = "pending"

Push(c, t) ==
  /\ MayServe(c, t) /\ op[t].arg # POP_OP
  /\ \E n \in Nodes :
       /\ IF pool[c] # <<>>
            THEN n = Head(pool[c]) /\ pool' = [pool EXCEPT ![c] = Tail(@)] /\ UNCHANGED used
            ELSE n = used + 1 /\ used' = n /\ UNCHANGED pool
       /\ next' = [next EXCEPT ![n] = top]
       /\ val' = [val EXCEPT ![n] = op[t].arg]
       /\ top' = n
  /\ op' = [op EXCEPT ![t] = Done(PUSH_SUCCESS)]
  /\ UNCHANGED answer

Pop(c, t) ==
  /\ MayServe(c, t) /\ op[t].arg = POP_OP /\ top # NULL
  /\ top' = next[top]
  /\ IF Source.recycles
       THEN /\ pool' = [pool EXCEPT ![c] = <<top>> \o @]
            /\ val' = [val EXCEPT ![top] = NULL]
       ELSE UNCHANGED <<pool, val>>
  /\ op' = [op EXCEPT ![t] = Done(val[top])]
  /\ UNCHANGED <<next, used, answer>>

PopEmpty(c, t) ==
  /\ MayServe(c, t) /\ op[t].arg = POP_OP /\ top = NULL
  /\ op' = [op EXCEPT ![t] = Done(Source.empty)]
  /\ UNCHANGED <<top, next, val, used, pool, answer>>

Next ==
  \/ \E t \in Threads : Return(t) \/ \E v \in Values \cup {POP_OP} : Call(t, v)
  \/ \E c, t \in Threads : Push(c, t) \/ Pop(c, t) \/ PopEmpty(c, t)

Spec == Init /\ [][Next]_vars

-----------------------------------------------------------------------------
(* The i-th node of the stack. *)
Reached[i \in 1 .. MaxNodes + 1] ==
  IF i = 1 THEN top
  ELSE IF Reached[i - 1] = NULL THEN NULL ELSE next[Reached[i - 1]]

Content ==
  [i \in 1 .. Cardinality({j \in Nodes : Reached[j] # NULL}) |-> val[Reached[i]]]

(* What the stacks promise, for words other than POP_OP: a LIFO stack.      *)
StackState(s, v, t) == IF v # POP_OP THEN <<v>> \o s ELSE IF s = <<>> THEN s ELSE Tail(s)
StackResult(s, v, t) ==
  IF v # POP_OP THEN PUSH_SUCCESS ELSE IF s = <<>> THEN Source.empty ELSE Head(s)

Lifo == INSTANCE AtomicObject WITH
          Args <- Values \cup {POP_OP},
          InitialState <- <<>>,
          NoResult <- NULL,
          NewState <- StackState,
          Result <- StackResult,
          obj <- Content,
          op <- op,
          result <- answer

(* The stack is a linearizable LIFO stack, although its nodes move from the *)
(* pool of one combiner to that of another and are used again.              *)
ImplementsLifo == Lifo!Spec
=============================================================================
