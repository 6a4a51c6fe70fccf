---------------------------- MODULE AtomicObject ----------------------------
(***************************************************************************)
(* What a combining object of the framework promises its callers: the      *)
(* *ApplyOp functions of includes/ccsynch.h, dsmsynch.h, hsynch.h, oyama.h,*)
(* osci.h and fc.h each take a serial function sfunc, a request and a      *)
(* thread, and behave as if sfunc ran on the object's state in one         *)
(* indivisible step, once per call, between the call and its return.       *)
(*                                                                         *)
(* The object is given by the two halves of sfunc: NewState(s, a, t) is    *)
(* what sfunc(state, arg, pid) leaves in *state and Result(s, a, t) is the *)
(* RetVal it returns.                                                      *)
(***************************************************************************)
CONSTANTS
  Threads,            (* the calling threads, pid in the code              *)
  Args,               (* the requests they may pass                        *)
  InitialState,       (* the object before any request                     *)
  NoResult,           (* "this thread has had no answer yet"               *)
  NewState(_, _, _),
  Result(_, _, _)

VARIABLES
  obj,      (* the object's state                                          *)
  op,       (* op[t]: the request t is waiting for, as a record            *)
  result    (* result[t]: the answer of t's last call, until it calls again *)

vars == <<obj, op, result>>

Idle       == [status |-> "idle"]
Pending(a) == [status |-> "pending", arg |-> a]
Done(r)    == [status |-> "done", ret |-> r]

Init ==
  /\ obj = InitialState
  /\ op = [t \in Threads |-> Idle]
  /\ result = [t \in Threads |-> NoResult]

(* Thread t invokes the operation with request a. *)
Call(t, a) ==
  /\ op[t] = Idle
  /\ op' = [op EXCEPT ![t] = Pending(a)]
  /\ result' = [result EXCEPT ![t] = NoResult]
  /\ UNCHANGED obj

(* The request of t takes effect. Who runs sfunc is not visible here. *)
Apply(t) ==
  /\ op[t].status = "pending"
  /\ obj' = NewState(obj, op[t].arg, t)
  /\ op' = [op EXCEPT ![t] = Done(Result(obj, op[t].arg, t))]
  /\ UNCHANGED result

(* The call of t returns the answer sfunc gave to its own request. *)
Return(t) ==
  /\ op[t].status = "done"
  /\ result' = [result EXCEPT ![t] = op[t].ret]
  /\ op' = [op EXCEPT ![t] = Idle]
  /\ UNCHANGED obj

Next ==
  \E t \in Threads :
    \/ \E a \in Args : Call(t, a)
    \/ Apply(t)
    \/ Return(t)

Spec == Init /\ [][Next]_vars
=============================================================================
