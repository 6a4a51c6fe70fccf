------------------------------ MODULE LFStack ------------------------------
(***************************************************************************)
(* The lock-free stack of libconcurrent/concurrent/lfstack.c: a list whose *)
(* top is moved by CAS. The CAS compares pointers only, so the stack       *)
(* depends on a node never coming back to the top: nodes are not recycled. *)
(***************************************************************************)
EXTENDS Integers, Sequences, FiniteSets

CONSTANTS
  Threads,
  Values,
  NULL,
  EMPTY_STACK,
  MaxNodes     (* a bound on the nodes pushed                              *)

ConstantsAssumption ==
  MaxNodes \in Nat \ {0} /\ NULL \notin Values \cup 1 .. MaxNodes

Nodes == 1 .. MaxNodes

VARIABLES
  top,         (* l->top                                                   *)
  next, val,   (* fields of the nodes                                      *)
  used,        (* nodes allocated so far                                   *)
  pc,
  n,           (* the new node of LFStackPush                              *)
  old_top,     (* locals                                                   *)
  old_next,    (* old_top->next, the argument of the CAS in LFStackPop     *)
  answer       (* what the last call returned                              *)

vars == <<top, next, val, used, pc, n, old_top, old_next, answer>>

Goto(t, from, to) ==
  /\ pc[t] = from
  /\ pc' = [pc EXCEPT ![t] = to]

-----------------------------------------------------------------------------
(* LFStackInit and LFStackThreadStateInit *)
Init ==
  /\ top = NULL
  /\ next = [m \in Nodes |-> NULL]
  /\ val = [m \in Nodes |-> NULL]
  /\ used = 0
  /\ pc = [t \in Threads |-> "out"]
  /\ n = [t \in Threads |-> NULL]
  /\ old_top = [t \in Threads |-> NULL]
  /\ old_next = [t \in Threads |-> NULL]
  /\ answer = [t \in Threads |-> NULL]

(* LFStackPush: synchAllocObj; n->val = arg *)
Push(t, v) ==
  /\ used < MaxNodes
  /\ Goto(t, "out", "pushRead")
  /\ used' = used + 1
  /\ n' = [n EXCEPT ![t] = used']
  /\ val' = [val EXCEPT ![used'] = v]
  /\ answer' = [answer EXCEPT ![t] = NULL]
  /\ UNCHANGED <<top, next, old_top, old_next>>

(* old_top = l->top; n->next = old_top *)
PushRead(t) ==
  /\ Goto(t, "pushRead", "pushCAS")
  /\ old_top' = [old_top EXCEPT ![t] = top]
  /\ next' = [next EXCEPT ![n[t]] = top]
  /\ UNCHANGED <<top, val, used, n, old_next, answer>>

(* synchCASPTR(&l->top, old_top, n) *)
PushCAS(t) ==
  LET done == top = old_top[t]
  IN  /\ Goto(t, "pushCAS", IF done THEN "pushed" ELSE "pushRead")
      /\ top' = IF done THEN n[t] ELSE top
      /\ n' = [n EXCEPT ![t] = IF done THEN NULL ELSE @]
      /\ old_top' = [old_top EXCEPT ![t] = NULL]
      /\ UNCHANGED <<next, val, used, old_next, answer>>

(* LFStackPop *)
Pop(t) ==
  /\ Goto(t, "out", "popRead")
  /\ answer' = [answer EXCEPT ![t] = NULL]
  /\ UNCHANGED <<top, next, val, used, n, old_top, old_next>>

(* old_top = l->top; if (old_top == NULL) return EMPTY_STACK *)
PopRead(t) ==
  /\ Goto(t, "popRead", IF top = NULL THEN "popped" ELSE "popNext")
  /\ old_top' = [old_top EXCEPT ![t] = top]
  /\ UNCHANGED <<top, next, val, used, n, old_next, answer>>

(* old_top->next is read for the CAS that follows. *)
PopNext(t) ==
  /\ Goto(t, "popNext", "popCAS")
  /\ old_next' = [old_next EXCEPT ![t] = next[old_top[t]]]
  /\ UNCHANGED <<top, next, val, used, n, old_top, answer>>

(* Mutant of PopCAS: the popped node is recycled, if it is the latest one.  *)
PopCASRecycling(t) ==
  LET done == top = old_top[t]
  IN  /\ Goto(t, "popCAS", IF done THEN "popped" ELSE "popRead")
      /\ top' = IF done THEN old_next[t] ELSE top
      /\ used' = IF done /\ old_top[t] = used THEN used - 1 ELSE used
      /\ old_top' = [old_top EXCEPT ![t] = IF done THEN @ ELSE NULL]
      /\ old_next' = [old_next EXCEPT ![t] = NULL]
      /\ UNCHANGED <<next, val, n, answer>>

(* synchCASPTR(&l->top, old_top, old_top->next) *)
PopCAS(t) ==
  LET done == top = old_top[t]
  IN  /\ Goto(t, "popCAS", IF done THEN "popped" ELSE "popRead")
      /\ top' = IF done THEN old_next[t] ELSE top
      /\ old_top' = [old_top EXCEPT ![t] = IF done THEN @ ELSE NULL]
      /\ old_next' = [old_next EXCEPT ![t] = NULL]
      /\ UNCHANGED <<next, val, used, n, answer>>

ReturnPush(t) ==
  /\ Goto(t, "pushed", "out")
  /\ UNCHANGED <<top, next, val, used, n, old_top, old_next, answer>>

(* return old_top->val, or EMPTY_STACK *)
Popped(t) == IF old_top[t] = NULL THEN EMPTY_STACK ELSE val[old_top[t]]

ReturnPop(t) ==
  /\ Goto(t, "popped", "out")
  /\ answer' = [answer EXCEPT ![t] = Popped(t)]
  /\ old_top' = [old_top EXCEPT ![t] = NULL]
  /\ UNCHANGED <<top, next, val, used, n, old_next>>

Step(t) ==
  \/ PushRead(t) \/ PushCAS(t) \/ ReturnPush(t)
  \/ PopRead(t) \/ PopNext(t) \/ PopCAS(t) \/ ReturnPop(t)

Next == \E t \in Threads : Step(t) \/ Pop(t) \/ \E v \in Values : Push(t, v)

Spec == Init /\ [][Next]_vars

-----------------------------------------------------------------------------
(* The i-th node of the stack.                                              *)
Reached[i \in 1 .. MaxNodes + 1] ==
  IF i = 1 THEN top
  ELSE IF Reached[i - 1] = NULL THEN NULL ELSE next[Reached[i - 1]]

Content ==
  LET size == Cardinality({i \in Nodes : Reached[i] # NULL})
  IN  [i \in 1 .. size |-> val[Reached[i]]]

StackState(s, r, t) ==
  CASE r[1] = "push" -> <<r[2]>> \o s
    [] r[1] = "pop" -> IF s = <<>> THEN s ELSE Tail(s)

StackResult(s, r, t) ==
  CASE r[1] = "push" -> NULL
    [] r[1] = "pop" -> IF s = <<>> THEN EMPTY_STACK ELSE Head(s)

(* A push takes effect with its CAS; a pop with its CAS, or when it reads   *)
(* top = NULL.                                                              *)
Served(t) ==
  CASE pc[t] = "out" -> [status |-> "idle"]
    [] pc[t] \in {"pushRead", "pushCAS"} ->
         [status |-> "pending", arg |-> <<"push", val[n[t]]>>]
    [] pc[t] = "pushed" -> [status |-> "done", ret |-> NULL]
    [] pc[t] = "popped" -> [status |-> "done", ret |-> Popped(t)]
    [] OTHER -> [status |-> "pending", arg |-> <<"pop", NULL>>]

Lifo == INSTANCE AtomicObject WITH
          Args <- ({"push"} \X Values) \cup {<<"pop", NULL>>},
          InitialState <- <<>>,
          NoResult <- NULL,
          NewState <- StackState,
          Result <- StackResult,
          obj <- Content,
          op <- [t \in Threads |-> Served(t)],
          result <- answer

(* The stack is linearizable: top moves only from the node that was read to *)
(* the one below it.                                                        *)
ImplementsLifo == Lifo!Spec
=============================================================================
