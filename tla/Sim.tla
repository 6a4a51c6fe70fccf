-------------------------------- MODULE Sim --------------------------------
(***************************************************************************)
(* PSim, the wait-free universal construction (libconcurrent/concurrent/   *)
(* sim.c). A thread announces its request, flips its bit in a_toggles by a *)
(* Fetch&Add, and then twice at most copies the current record of the      *)
(* object, runs sfunc on the copy for every thread whose bit differs from  *)
(* the copy's applied vector, and tries to install the copy by a CAS on    *)
(* sp. Records come from a pool of PoolSize per thread and are reused; a   *)
(* slow thread may read a record that its owner is overwriting.            *)
(*                                                                         *)
(* One action is one access to memory that other threads may touch. The    *)
(* copy of a record is three accesses, one per field, so that it can tear. *)
(* Toggle vectors fit one word, read atomically: at most 64 threads.       *)
(***************************************************************************)
EXTENDS Integers, Sequences, FiniteSets

CONSTANTS
  N,                  (* nthreads                                          *)
  PoolSize,           (* _SIM_LOCAL_POOL_SIZE_, 4 in the code              *)
  SeqModulus,         (* 2^40: pointer_t gives seq 40 bits                 *)
  Requests,           (* Requests[t]: the requests t will make, in order   *)
  NULL,
  InitialState,
  NewState(_, _, _),  (* the two halves of sfunc, see AtomicObject         *)
  Result(_, _, _)

Threads == 0 .. N - 1

Args == UNION {{Requests[t][i] : i \in DOMAIN Requests[t]} : t \in Threads}

(* The calls the threads will make, each with its number.                   *)
Calls == UNION {{t} \X (1 .. Len(Requests[t])) : t \in Threads}

(* With two records per thread a reader may see the record being prepared   *)
(* after the one it wanted; from three on it is two installations behind by *)
(* then, and its request has been applied. And seq must not wrap around     *)
(* while a thread sleeps: fewer calls are made than it has values.          *)
ASSUME ConstantsAssumption ==
  /\ N \in Nat \ {0}
  /\ PoolSize \in Nat /\ PoolSize >= 3
  /\ SeqModulus \in Nat
  /\ Requests \in [Threads -> Seq(Args)]
  /\ Cardinality(Calls) < SeqModulus

(* Indices of pool: PoolSize records for each thread, one for the start.    *)
Records == 0 .. PoolSize * N

VARIABLES
  announce,     (* sim_struct->announce                                    *)
  a_toggles,
  sp,           (* [index, seq]                                            *)
  state,        (* fields of the records of sim_struct->pool               *)
  applied,
  ret,
  pc,           (* where each thread is in SimApplyOp                      *)
  calls,        (* how many calls each thread has started                  *)
  my_bit,       (* fields of SimThreadState                                *)
  local_index,
  j,            (* locals of SimApplyOp: the attempt,                      *)
  old_sp,       (*   the sp it started from,                               *)
  l_toggles,    (*   the a_toggles it read,                                *)
  diffs,        (*   the threads still to be helped                        *)
  result        (* the value returned by the last call                     *)

recordVars == <<state, applied, ret>>
attemptVars == <<j, old_sp, l_toggles, diffs>>
vars == <<announce, a_toggles, sp, recordVars, pc, calls, my_bit, local_index,
          attemptVars, result>>

NoSp == [index |-> 0, seq |-> 0]
NoBits == [t \in Threads |-> FALSE]

(* The record t is preparing. *)
Mine(t) == t * PoolSize + local_index[t]

(* The threads whose bit differs: TVEC_XOR, as a set.                       *)
Differ(v, w) == {t \in Threads : v[t] # w[t]}

Goto(t, from, to) ==
  /\ pc[t] = from
  /\ pc' = [pc EXCEPT ![t] = to]

-----------------------------------------------------------------------------
(* synchSimStructInit, and SimThreadStateInit of every thread: my_bit is    *)
(* set there and flipped by each call. Other records are not initialised.   *)
Init ==
  /\ announce = [t \in Threads |-> NULL]
  /\ a_toggles = NoBits
  /\ sp = [index |-> PoolSize * N, seq |-> 0]
  /\ state = [r \in Records |-> InitialState]
  /\ applied = [r \in Records |-> NoBits]
  /\ ret = [r \in Records |-> [t \in Threads |-> NULL]]
  /\ pc = [t \in Threads |-> "idle"]
  /\ calls = [t \in Threads |-> 0]
  /\ my_bit = [t \in Threads |-> TRUE]
  /\ local_index = [t \in Threads |-> 0]
  /\ j = [t \in Threads |-> 0]
  /\ old_sp = [t \in Threads |-> NoSp]
  /\ l_toggles = [t \in Threads |-> NoBits]
  /\ diffs = [t \in Threads |-> {}]
  /\ result = [t \in Threads |-> NULL]

(* announce[pid] = arg, and the flip of the thread's own my_bit.            *)
Announce(t) ==
  /\ calls[t] < Len(Requests[t])
  /\ Goto(t, "idle", "toggle")
  /\ calls' = [calls EXCEPT ![t] = @ + 1]
  /\ announce' = [announce EXCEPT ![t] = Requests[t][calls[t] + 1]]
  /\ my_bit' = [my_bit EXCEPT ![t] = ~@]
  /\ result' = [result EXCEPT ![t] = NULL]
  /\ UNCHANGED <<a_toggles, sp, recordVars, local_index, attemptVars>>

(* The Fetch&Add of +mask or -mask in turn, which flips the thread's bit.   *)
Toggle(t) ==
  /\ Goto(t, "toggle", "readSp")
  /\ a_toggles' = [a_toggles EXCEPT ![t] = ~@]
  /\ UNCHANGED <<announce, sp, recordVars, calls, my_bit, local_index,
                 attemptVars, result>>

(* old_sp = sim_struct->sp, at the head of the loop                         *)
ReadSp(t) ==
  /\ Goto(t, "readSp", "readApplied")
  /\ old_sp' = [old_sp EXCEPT ![t] = sp]
  /\ UNCHANGED <<announce, a_toggles, sp, recordVars, calls, my_bit,
                 local_index, j, l_toggles, diffs, result>>

(* The thread's own bit of applied against my_bit: equal bits mean pending, *)
(* different ones that the request has been applied.                        *)
AppliedBit(t) == applied[old_sp[t].index][t] # my_bit[t]

FindApplied(t) ==
  /\ Goto(t, "readApplied", "last")
  /\ AppliedBit(t)
  /\ UNCHANGED <<announce, a_toggles, sp, recordVars, calls, my_bit,
                 local_index, attemptVars, result>>

FindPending(t) ==
  /\ Goto(t, "readApplied", "copyState")
  /\ ~AppliedBit(t)
  /\ UNCHANGED <<announce, a_toggles, sp, recordVars, calls, my_bit,
                 local_index, attemptVars, result>>

(* SimStateCopy: a memcpy of the whole record, in three pieces.             *)
CopyState(t) ==
  /\ Goto(t, "copyState", "copyApplied")
  /\ state' = [state EXCEPT ![Mine(t)] = state[old_sp[t].index]]
  /\ UNCHANGED <<announce, a_toggles, sp, applied, ret, calls, my_bit,
                 local_index, attemptVars, result>>

CopyApplied(t) ==
  /\ Goto(t, "copyApplied", "copyRet")
  /\ applied' = [applied EXCEPT ![Mine(t)] = applied[old_sp[t].index]]
  /\ UNCHANGED <<announce, a_toggles, sp, state, ret, calls, my_bit,
                 local_index, attemptVars, result>>

CopyRet(t) ==
  /\ Goto(t, "copyRet", "readToggles")
  /\ ret' = [ret EXCEPT ![Mine(t)] = ret[old_sp[t].index]]
  /\ UNCHANGED <<announce, a_toggles, sp, state, applied, calls, my_bit,
                 local_index, attemptVars, result>>

(* l_toggles = a_toggles                                                    *)
ReadToggles(t) ==
  /\ Goto(t, "readToggles", "recheck")
  /\ l_toggles' = [l_toggles EXCEPT ![t] = a_toggles]
  /\ UNCHANGED <<announce, a_toggles, sp, recordVars, calls, my_bit,
                 local_index, j, old_sp, diffs, result>>

(* Mutant of NextAttempt: one attempt only. *)
GiveUp(t, from) ==
  /\ Goto(t, from, "last")
  /\ j' = [j EXCEPT ![t] = @ + 1]
  /\ UNCHANGED <<announce, a_toggles, sp, recordVars, calls, my_bit,
                 local_index, old_sp, l_toggles, diffs, result>>

(* sp has moved: continue, with the next attempt if there is one.           *)
NextAttempt(t, from) ==
  /\ Goto(t, from, IF j[t] = 0 THEN "readSp" ELSE "last")
  /\ j' = [j EXCEPT ![t] = @ + 1]
  /\ UNCHANGED <<announce, a_toggles, sp, recordVars, calls, my_bit,
                 local_index, old_sp, l_toggles, diffs, result>>

RecheckFails(t) == sp # old_sp[t] /\ NextAttempt(t, "recheck")

(* sp is the same: the copy is good. diffs = applied XOR l_toggles.         *)
RecheckHolds(t) ==
  /\ Goto(t, "recheck", "own")
  /\ sp = old_sp[t]
  /\ diffs' = [diffs EXCEPT ![t] = Differ(applied[Mine(t)], l_toggles[t])]
  /\ UNCHANGED <<announce, a_toggles, sp, recordVars, calls, my_bit,
                 local_index, j, old_sp, l_toggles, result>>

(* sfunc runs on the private copy for the request a of thread q.            *)
Serve(t, q, a) ==
  /\ state' = [state EXCEPT ![Mine(t)] = NewState(@, a, q)]
  /\ ret' = [ret EXCEPT ![Mine(t)][q] = Result(state[Mine(t)], a, q)]
  /\ UNCHANGED <<announce, a_toggles, sp, applied, calls, my_bit, local_index,
                 j, old_sp, l_toggles, result>>

(* The thread's own request comes from its argument and its own bit is      *)
(* flipped in diffs, whatever it was.                                       *)
ServeOwn(t) ==
  /\ Goto(t, "own", "help")
  /\ Serve(t, t, Requests[t][calls[t]])
  /\ diffs' = [diffs EXCEPT ![t] = (@ \ {t}) \cup ({t} \ @)]

(* The other requests are read from announce, in the order of the bits.     *)
Help(t, q) ==
  /\ Goto(t, "help", "help")
  /\ q \in diffs[t]
  /\ \A r \in diffs[t] : q <= r
  /\ Serve(t, q, announce[q])
  /\ diffs' = [diffs EXCEPT ![t] = @ \ {q}]

(* lsp_data->applied = l_toggles                                            *)
SetApplied(t) ==
  /\ Goto(t, "help", "cas")
  /\ diffs[t] = {}
  /\ applied' = [applied EXCEPT ![Mine(t)] = l_toggles[t]]
  /\ UNCHANGED <<announce, a_toggles, sp, state, ret, calls, my_bit,
                 local_index, attemptVars, result>>

(* The locals of SimApplyOp do not outlive the call.                        *)
Return(t, v) ==
  /\ result' = [result EXCEPT ![t] = v]
  /\ j' = [j EXCEPT ![t] = 0]
  /\ old_sp' = [old_sp EXCEPT ![t] = NoSp]
  /\ l_toggles' = [l_toggles EXCEPT ![t] = NoBits]
  /\ diffs' = [diffs EXCEPT ![t] = {}]

(* Mutant of Install: the sequence number stays the same. *)
InstallUnstamped(t) ==
  /\ Goto(t, "cas", "returnOwn")
  /\ sp = old_sp[t]
  /\ sp' = [index |-> Mine(t), seq |-> old_sp[t].seq]
  /\ UNCHANGED <<announce, a_toggles, recordVars, calls, my_bit, local_index,
                 attemptVars, result>>

(* The CAS installs the record, and the thread takes the next of its pool.  *)
(* (The comparison before the CAS reads what the CAS compares again.)       *)
Install(t) ==
  /\ Goto(t, "cas", "returnOwn")
  /\ sp = old_sp[t]
  /\ sp' = [index |-> Mine(t), seq |-> (old_sp[t].seq + 1) % SeqModulus]
  /\ UNCHANGED <<announce, a_toggles, recordVars, calls, my_bit, local_index,
                 attemptVars, result>>

InstallFails(t) == sp # old_sp[t] /\ NextAttempt(t, "cas")

(* Mutant of ReturnOwn: no step round the pool. *)
ReturnSameRecord(t) ==
  /\ Goto(t, "returnOwn", "idle")
  /\ Return(t, ret[Mine(t)][t])
  /\ UNCHANGED <<announce, a_toggles, sp, recordVars, calls, my_bit, local_index>>

(* return lsp_data->ret[pid], after the CAS                                 *)
ReturnOwn(t) ==
  /\ Goto(t, "returnOwn", "idle")
  /\ Return(t, ret[Mine(t)][t])
  /\ local_index' = [local_index EXCEPT ![t] = (@ + 1) % PoolSize]
  /\ UNCHANGED <<announce, a_toggles, sp, recordVars, calls, my_bit>>

(* return pool[sp.index]->ret[pid]: sp is read here, ...                    *)
ReadLastSp(t) ==
  /\ Goto(t, "last", "readRet")
  /\ old_sp' = [old_sp EXCEPT ![t] = sp]
  /\ UNCHANGED <<announce, a_toggles, sp, recordVars, calls, my_bit,
                 local_index, j, l_toggles, diffs, result>>

(* ... the answer later, when that record may have been reused.             *)
ReturnHelped(t) ==
  /\ Goto(t, "readRet", "idle")
  /\ Return(t, ret[old_sp[t].index][t])
  /\ UNCHANGED <<announce, a_toggles, sp, recordVars, calls, my_bit, local_index>>

Step(t) ==
  \/ Announce(t) \/ Toggle(t)
  \/ ReadSp(t) \/ FindApplied(t) \/ FindPending(t)
  \/ CopyState(t) \/ CopyApplied(t) \/ CopyRet(t)
  \/ ReadToggles(t) \/ RecheckFails(t) \/ RecheckHolds(t)
  \/ ServeOwn(t) \/ (\E q \in Threads : Help(t, q)) \/ SetApplied(t)
  \/ Install(t) \/ InstallFails(t) \/ ReturnOwn(t)
  \/ ReadLastSp(t) \/ ReturnHelped(t)

Next == \E t \in Threads : Step(t)

Spec == Init /\ [][Next]_vars

-----------------------------------------------------------------------------
PCs == {"idle", "toggle", "readSp", "readApplied", "copyState", "copyApplied",
        "copyRet", "readToggles", "recheck", "own", "help", "cas", "returnOwn",
        "last", "readRet"}

(* The type of the state. *)
TypeOK ==
  /\ DOMAIN announce = Threads
  /\ a_toggles \in [Threads -> BOOLEAN]
  /\ sp \in [index : Records, seq : 0 .. SeqModulus - 1]
  /\ DOMAIN state = Records
  /\ applied \in [Records -> [Threads -> BOOLEAN]]
  /\ DOMAIN ret = Records /\ \A r \in Records : DOMAIN ret[r] = Threads
  /\ pc \in [Threads -> PCs]
  /\ calls \in [Threads -> Nat]
  /\ my_bit \in [Threads -> BOOLEAN]
  /\ local_index \in [Threads -> 0 .. PoolSize - 1]
  /\ j \in [Threads -> 0 .. 2]
  /\ old_sp \in [Threads -> [index : Records, seq : 0 .. SeqModulus - 1]]
  /\ l_toggles \in [Threads -> [Threads -> BOOLEAN]]
  /\ diffs \in [Threads -> SUBSET Threads]
  /\ DOMAIN result = Threads

(* The two-attempt argument of wait freedom: a thread leaves the loop, by   *)
(* break or after two attempts, only when its request has been applied in   *)
(* the installed record; otherwise the last line returns an old answer.     *)
AppliedWhenLeavingLoop ==
  \A t \in Threads :
    pc[t] \in {"last", "readRet"} => applied[sp.index][t] = a_toggles[t]

(* A copy that passed the recheck, and can still be installed, is the copy  *)
(* of one version of the object: no piece of it comes from another version. *)
CopyIsNotTorn ==
  \A t \in Threads :
    pc[t] = "own" /\ sp = old_sp[t] =>
      /\ state[Mine(t)] = state[sp.index]
      /\ applied[Mine(t)] = applied[sp.index]
      /\ ret[Mine(t)] = ret[sp.index]

(* Nobody writes into the installed record. *)
InstalledRecordIsStable ==
  [][\A r \in Records :
       r = sp.index =>
         state'[r] = state[r] /\ applied'[r] = applied[r] /\ ret'[r] = ret[r]]_vars

(* The abstract object: a request is pending until the installed record has *)
(* it applied.                                                              *)
Started(t) == pc[t] \notin {"idle", "toggle"}

AbstractOp(t) ==
  CASE pc[t] = "idle" -> [status |-> "idle"]
    [] Started(t) /\ applied[sp.index][t] = a_toggles[t] ->
         [status |-> "done", ret |-> ret[sp.index][t]]
    [] OTHER -> [status |-> "pending", arg |-> announce[t]]

Ob == INSTANCE BatchedObject WITH
        NoResult <- NULL,
        obj <- state[sp.index],
        op <- [t \in Threads |-> AbstractOp(t)],
        result <- result

(* Sim is linearizable: it implements the batched object, every request     *)
(* takes effect exactly once, at the CAS that installs a record that has    *)
(* applied it, and each call returns its own answer.                        *)
ImplementsBatchedObject == Ob!Spec
=============================================================================
