---------------------------- MODULE RetryObject ----------------------------
(***************************************************************************)
(* What the lock-free objects promise: AtomicObject for operations that    *)
(* may be tried again. A request that has taken effect without changing    *)
(* the object (a dequeue that found the queue empty, say) may be taken     *)
(* back when another one takes effect, until it is settled; its caller has *)
(* not heard of it, and nobody else could see it. The calls and answers    *)
(* are those of AtomicObject: a request takes effect, for good, once       *)
(* between its call and its return.                                        *)
(***************************************************************************)
CONSTANTS
  Threads, Args, InitialState, NoResult,
  NewState(_, _, _), Result(_, _, _)   (* as in AtomicObject               *)

VARIABLES obj, op, result

vars == <<obj, op, result>>

Idle == [status |-> "idle"]
Pending(a) == [status |-> "pending", arg |-> a]
Done(a, r, pure) == [status |-> "done", arg |-> a, ret |-> r, pure |-> pure]

Init ==
  /\ obj = InitialState
  /\ op = [t \in Threads |-> Idle]
  /\ result = [t \in Threads |-> NoResult]

Call(t, a) ==
  /\ op[t] = Idle
  /\ op' = [op EXCEPT ![t] = Pending(a)]
  /\ result' = [result EXCEPT ![t] = NoResult]
  /\ UNCHANGED obj

(* The requests in T, which changed nothing, are to be tried again.         *)
MayRetry(T) == \A t \in T : op[t].status = "done" /\ op[t].pure
Retried(T) == [t \in Threads |-> IF t \in T THEN Pending(op[t].arg) ELSE op[t]]

(* The request of t takes effect; others may have to retry because of it.   *)
Apply(t) ==
  /\ op[t].status = "pending"
  /\ LET a == op[t].arg
     IN  /\ obj' = NewState(obj, a, t)
         /\ \E T \in SUBSET (Threads \ {t}), pure \in BOOLEAN :
              /\ MayRetry(T) /\ (pure => NewState(obj, a, t) = obj)
              /\ op' = [Retried(T) EXCEPT ![t] = Done(a, Result(obj, a, t), pure)]
  /\ UNCHANGED result

(* From here on t does not try its request again.                           *)
Settle(t) ==
  /\ op[t].status = "done"
  /\ op' = [op EXCEPT ![t] = Done(op[t].arg, op[t].ret, FALSE)]
  /\ UNCHANGED <<obj, result>>

Return(t) ==
  /\ op[t].status = "done"
  /\ result' = [result EXCEPT ![t] = op[t].ret]
  /\ op' = [op EXCEPT ![t] = Idle]
  /\ UNCHANGED obj

Next ==
  \E t \in Threads :
    \/ \E a \in Args : Call(t, a)
    \/ Apply(t) \/ Settle(t) \/ Return(t)

Spec == Init /\ [][Next]_vars
=============================================================================
