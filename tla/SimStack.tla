------------------------------ MODULE SimStack ------------------------------
(***************************************************************************)
(* SimStack (libconcurrent/concurrent/simstack.c): Sim, specialised to a   *)
(* stack kept as a list. Only the pointer to the top is copied; a combiner *)
(* pushes nodes of its own pool for all the announced pushes, then pops    *)
(* for the announced pops, on nodes other combiners may pop and recycle    *)
(* meanwhile. The nodes of a failed attempt go back to the pool, and so do *)
(* the nodes popped by a successful one.                                   *)
(***************************************************************************)
EXTENDS Integers, Sequences, FiniteSets, SequencesExt

CONSTANTS
  N,               (* nthreads                                             *)
  PoolSize,        (* _SIM_LOCAL_POOL_SIZE_, 4 in the code                 *)
  Requests,        (* Requests[t]: what t calls, in order: a value to push,*)
                   (* or POP                                               *)
  POP,             (* LLONG_MIN                                            *)
  EMPTY_STACK,
  NULL,
  MaxNodes         (* a bound on the nodes taken from the blocks of pools  *)

Threads == 0 .. N - 1
Nodes == 1 .. MaxNodes
Records == 0 .. PoolSize * N

ConstantsAssumption ==
  /\ N \in Nat \ {0} /\ PoolSize \in Nat \ {0} /\ MaxNodes \in Nat \ {0}
  /\ DOMAIN Requests = Threads
  /\ NULL \notin Nodes

VARIABLES
  announce, a_toggles,
  sp,          (* [index, seq]                                             *)
  rec,         (* the records of stack->pool                               *)
  val, next,   (* fields of the nodes                                      *)
  used,        (* nodes cut out of blocks so far, by all threads           *)
  pc,
  calls,       (* how many calls each thread has made                      *)
  th,          (* SimStackThreadState; pool is its recycle list            *)
  my,          (* locals of SimStackApplyOp                                *)
  result       (* the answer of the last call                              *)

nodeVars == <<val, next, used>>
vars == <<announce, a_toggles, sp, rec, nodeVars, pc, calls, th, my, result>>

Fresh == [j |-> 0, old_sp |-> NULL, l_toggles |-> {}, diffs |-> {}, pops |-> {},
          push_counter |-> 0, pop_counter |-> 0, free_list |-> NULL]

(* A toggle vector is the set of its bits that are 1.                       *)
Xor(v, w) == (v \ w) \cup (w \ v)

Arg(t) == Requests[t][calls[t]]
lsp(t) == t * PoolSize + th[t].local_index     \* lsp_data

Goto(t, from, to) ==
  /\ pc[t] = from
  /\ pc' = [pc EXCEPT ![t] = to]

-----------------------------------------------------------------------------
(* SimStackStructInit, and SimStackThreadStateInit of every thread, which   *)
(* sets my_bit                                                              *)
Init ==
  /\ announce = [t \in Threads |-> NULL]
  /\ a_toggles = {}
  /\ sp = [index |-> PoolSize * N, seq |-> 0]
  /\ rec = [r \in Records |-> [head |-> NULL, applied |-> {},
                               ret |-> [t \in Threads |-> NULL]]]
  /\ val = [n \in Nodes |-> NULL]
  /\ next = [n \in Nodes |-> NULL]
  /\ used = 0
  /\ pc = [t \in Threads |-> "idle"]
  /\ calls = [t \in Threads |-> 0]
  /\ th = [t \in Threads |-> [my_bit |-> TRUE, local_index |-> 0, pool |-> <<>>]]
  /\ my = [t \in Threads |-> Fresh]
  /\ result = [t \in Threads |-> NULL]

(* announce[pid] = arg, and the flip of my_bit                              *)
Announce(t) ==
  /\ calls[t] < Len(Requests[t])
  /\ Goto(t, "idle", "toggle")
  /\ calls' = [calls EXCEPT ![t] = @ + 1]
  /\ announce' = [announce EXCEPT ![t] = Requests[t][calls[t] + 1]]
  /\ th' = [th EXCEPT ![t].my_bit = ~@]
  /\ result' = [result EXCEPT ![t] = NULL]
  /\ UNCHANGED <<a_toggles, sp, rec, nodeVars, my>>

(* The Fetch&Add that flips the thread's bit                                *)
Toggle(t) ==
  /\ Goto(t, "toggle", "readSp")
  /\ a_toggles' = Xor(a_toggles, {t})
  /\ UNCHANGED <<announce, sp, rec, nodeVars, calls, th, my, result>>

(* old_sp = stack->sp *)
ReadSp(t) ==
  /\ Goto(t, "readSp", "readApplied")
  /\ my' = [my EXCEPT ![t].old_sp = sp]
  /\ UNCHANGED <<announce, a_toggles, sp, rec, nodeVars, calls, th, result>>

(* TVEC_IS_SET(diffs, pid): the request has been applied already.           *)
ReadApplied(t) ==
  LET bit == t \in rec[my[t].old_sp.index].applied
  IN  /\ Goto(t, "readApplied", IF bit # th[t].my_bit THEN "last" ELSE "copy")
      /\ UNCHANGED <<announce, a_toggles, sp, rec, nodeVars, calls, th, my, result>>

(* SimStackStateCopy: head comes first, then applied and ret.               *)
CopyHead(t) ==
  /\ Goto(t, "copy", "copyRest")
  /\ rec' = [rec EXCEPT ![lsp(t)].head = rec[my[t].old_sp.index].head]
  /\ UNCHANGED <<announce, a_toggles, sp, nodeVars, calls, th, my, result>>

CopyRest(t) ==
  /\ Goto(t, "copyRest", "readToggles")
  /\ rec' = [rec EXCEPT ![lsp(t)] = [rec[my[t].old_sp.index] EXCEPT !.head = rec[lsp(t)].head]]
  /\ UNCHANGED <<announce, a_toggles, sp, nodeVars, calls, th, my, result>>

ReadToggles(t) ==
  /\ Goto(t, "readToggles", "recheck")
  /\ my' = [my EXCEPT ![t].l_toggles = a_toggles]
  /\ UNCHANGED <<announce, a_toggles, sp, rec, nodeVars, calls, th, result>>

(* The next turn of the loop, or the end of it                              *)
NextTurn(t, from) ==
  /\ Goto(t, from, IF my[t].j = 0 THEN "readSp" ELSE "last")
  /\ my' = [my EXCEPT ![t] = [Fresh EXCEPT !.j = my[t].j + 1]]

(* if (old_sp.raw_data != stack->sp.raw_data) continue                      *)
RecheckFails(t) ==
  /\ sp # my[t].old_sp
  /\ NextTurn(t, "recheck")
  /\ UNCHANGED <<announce, a_toggles, sp, rec, nodeVars, calls, th, result>>

RecheckHolds(t) ==
  /\ Goto(t, "recheck", "push")
  /\ sp = my[t].old_sp
  /\ my' = [my EXCEPT ![t].diffs = Xor(rec[lsp(t)].applied, my[t].l_toggles)]
  /\ UNCHANGED <<announce, a_toggles, sp, rec, nodeVars, calls, th, result>>

(* The next thread of a set, by its bit                                     *)
First(S) == CHOOSE q \in S : \A r \in S : q <= r

(* The loop over diffs: the pops are put off, ...                           *)
FindPop(t) ==
  /\ Goto(t, "push", "push")
  /\ my[t].diffs # {}
  /\ LET q == First(my[t].diffs)
     IN  /\ announce[q] = POP
         /\ my' = [my EXCEPT ![t].diffs = @ \ {q}, ![t].pops = @ \cup {q}]
  /\ UNCHANGED <<announce, a_toggles, sp, rec, nodeVars, calls, th, result>>

(* ... and a push is done with a node of the thread's pool (serialPush).    *)
Alloc(t, n) ==
  IF th[t].pool # <<>>
    THEN /\ n = Head(th[t].pool)
         /\ th' = [th EXCEPT ![t].pool = Tail(@)]
         /\ UNCHANGED used
    ELSE /\ n = used + 1
         /\ used' = n
         /\ UNCHANGED th

SerialPush(t) ==
  /\ Goto(t, "push", "push")
  /\ my[t].diffs # {}
  /\ \E n \in Nodes :
       LET q == First(my[t].diffs)
       IN  /\ announce[q] # POP
           /\ Alloc(t, n)
           /\ val' = [val EXCEPT ![n] = announce[q]]
           /\ next' = [next EXCEPT ![n] = rec[lsp(t)].head]
           /\ rec' = [rec EXCEPT ![lsp(t)].head = n]
           /\ my' = [my EXCEPT ![t].diffs = @ \ {q}, ![t].push_counter = @ + 1]
  /\ UNCHANGED <<announce, a_toggles, sp, calls, result>>

(* free_list = lsp_data->head *)
StartPops(t) ==
  /\ Goto(t, "push", IF my[t].pops = {} THEN "setApplied" ELSE "pop")
  /\ my[t].diffs = {}
  /\ my' = [my EXCEPT ![t].free_list = rec[lsp(t)].head]
  /\ UNCHANGED <<announce, a_toggles, sp, rec, nodeVars, calls, th, result>>

(* serialPop: the words of the top node are read, maybe after another       *)
(* combiner popped and recycled it.                                         *)
SerialPop(t) ==
  LET q == First(my[t].pops)
      h == rec[lsp(t)].head
  IN  /\ Goto(t, "pop", "recheckPop")
      /\ rec' = [rec EXCEPT
           ![lsp(t)].ret[q] = IF h = NULL THEN EMPTY_STACK ELSE val[h],
           ![lsp(t)].head = IF h = NULL THEN h ELSE next[h]]
      /\ my' = [my EXCEPT ![t].pops = @ \ {q},
                          ![t].pop_counter = IF h = NULL THEN @ ELSE @ + 1]
      /\ UNCHANGED <<announce, a_toggles, sp, nodeVars, calls, th, result>>

(* sp is compared after each pop; goto outer if it moved.                   *)
RecheckPop(t) ==
  /\ Goto(t, "recheckPop",
          IF my[t].pops = {} \/ sp # my[t].old_sp THEN "setApplied" ELSE "pop")
  /\ UNCHANGED <<announce, a_toggles, sp, rec, nodeVars, calls, th, my, result>>

(* Mutant of SetApplied: a_toggles is read again. *)
SetAppliedFresh(t) ==
  /\ Goto(t, "setApplied", "cas")
  /\ rec' = [rec EXCEPT ![lsp(t)].applied = a_toggles]
  /\ UNCHANGED <<announce, a_toggles, sp, nodeVars, calls, th, my, result>>

(* lsp_data->applied = l_toggles *)
SetApplied(t) ==
  /\ Goto(t, "setApplied", "cas")
  /\ rec' = [rec EXCEPT ![lsp(t)].applied = my[t].l_toggles]
  /\ UNCHANGED <<announce, a_toggles, sp, nodeVars, calls, th, my, result>>

Install(t) ==
  /\ Goto(t, "cas", "installed")
  /\ sp = my[t].old_sp
  /\ sp' = [index |-> lsp(t), seq |-> sp.seq + 1]
  /\ UNCHANGED <<announce, a_toggles, rec, nodeVars, calls, th, my, result>>

(* recycleList: the first nodes of the list from head go to the pool, where *)
(* the word of their value holds the link of the recycle list.              *)
FirstNodes(head, items) ==
  LET node[i \in 1 .. items] == IF i = 1 THEN head ELSE next[node[i - 1]]
  IN  [i \in 1 .. items |-> node[i]]

RecycleList(t, items) ==
  LET list == FirstNodes(my[t].free_list, items)
  IN  /\ th' = [th EXCEPT ![t].pool = Reverse(list) \o @]
      /\ val' = [n \in Nodes |-> IF \E i \in 1 .. items : list[i] = n THEN NULL ELSE val[n]]

(* Mutant of InstallFails: the nodes are taken for popped ones. *)
InstallFailsPopped(t) ==
  /\ sp # my[t].old_sp
  /\ NextTurn(t, "cas")
  /\ RecycleList(t, my[t].pop_counter)
  /\ UNCHANGED <<announce, a_toggles, sp, rec, next, used, calls, result>>

(* recycleList(&th_state->pool, free_list, push_counter) *)
InstallFails(t) ==
  /\ sp # my[t].old_sp
  /\ NextTurn(t, "cas")
  /\ RecycleList(t, my[t].push_counter)
  /\ UNCHANGED <<announce, a_toggles, sp, rec, next, used, calls, result>>

Return(t, v) ==
  /\ result' = [result EXCEPT ![t] = v]
  /\ my' = [my EXCEPT ![t] = Fresh]

(* recycleList(&th_state->pool, free_list, pop_counter); the next record of *)
(* the pool; return lsp_data->ret[pid]                                      *)
ReturnOwn(t) ==
  LET list == FirstNodes(my[t].free_list, my[t].pop_counter)
  IN  /\ Goto(t, "installed", "idle")
      /\ Return(t, rec[lsp(t)].ret[t])
      /\ th' = [th EXCEPT ![t].pool = Reverse(list) \o @,
                          ![t].local_index = (@ + 1) % PoolSize]
      /\ val' = [n \in Nodes |-> IF \E i \in DOMAIN list : list[i] = n THEN NULL ELSE val[n]]
      /\ UNCHANGED <<announce, a_toggles, sp, rec, next, used, calls>>

(* stack->pool[stack->sp.index]->ret[pid], in two reads                     *)
ReadLastSp(t) ==
  /\ Goto(t, "last", "readRet")
  /\ my' = [my EXCEPT ![t].old_sp = sp]
  /\ UNCHANGED <<announce, a_toggles, sp, rec, nodeVars, calls, th, result>>

ReturnHelped(t) ==
  /\ Goto(t, "readRet", "idle")
  /\ Return(t, rec[my[t].old_sp.index].ret[t])
  /\ UNCHANGED <<announce, a_toggles, sp, rec, nodeVars, calls, th>>

Step(t) ==
  \/ Announce(t) \/ Toggle(t) \/ ReadSp(t) \/ ReadApplied(t)
  \/ CopyHead(t) \/ CopyRest(t) \/ ReadToggles(t) \/ RecheckFails(t) \/ RecheckHolds(t)
  \/ FindPop(t) \/ SerialPush(t) \/ StartPops(t) \/ SerialPop(t) \/ RecheckPop(t)
  \/ SetApplied(t) \/ Install(t) \/ InstallFails(t)
  \/ ReturnOwn(t) \/ ReadLastSp(t) \/ ReturnHelped(t)

Next == \E t \in Threads : Step(t)

Spec == Init /\ [][Next]_vars

-----------------------------------------------------------------------------
(* The nodes from n on, as a sequence without repetition.                   *)
ListFrom(n) ==
  LET node[i \in 1 .. MaxNodes + 1] ==
        IF i = 1 THEN n ELSE IF node[i - 1] = NULL THEN NULL ELSE next[node[i - 1]]
      size == Cardinality({i \in Nodes : node[i] # NULL})
  IN  [i \in 1 .. size |-> node[i]]

(* Nodes of an attempt: those it has pushed on its record.                  *)
Pushed(t) ==
  IF pc[t] \in {"push", "pop", "recheckPop", "setApplied", "cas"}
  THEN FirstNodes(IF my[t].free_list = NULL THEN rec[lsp(t)].head ELSE my[t].free_list,
                  my[t].push_counter)
  ELSE <<>>

Popped(t) ==
  IF pc[t] = "installed" THEN FirstNodes(my[t].free_list, my[t].pop_counter) ELSE <<>>

(* No node is in two places: in the stack, in a pool, pushed by an attempt  *)
(* under way, or popped and not recycled yet. Failed attempts give back all *)
(* they took and nothing else.                                              *)
NoNodeTwice ==
  LET places == {<<"stack", NULL>>} \cup ({"pool", "pushed", "popped"} \X Threads)
      nodes(p) == CASE p[1] = "stack" -> ListFrom(rec[sp.index].head)
                    [] p[1] = "pool" -> th[p[2]].pool
                    [] p[1] = "pushed" -> Pushed(p[2])
                    [] p[1] = "popped" -> Popped(p[2])
  IN  /\ \A p \in places : IsInjective(nodes(p))
      /\ \A p, q \in places :
           p # q => ToSet(nodes(p)) \cap ToSet(nodes(q)) = {}

StackState(s, a, t) ==
  IF a # POP THEN <<a>> \o s ELSE IF s = <<>> THEN s ELSE Tail(s)

(* A push returns ret[pid], which no push writes: its caller ignores it.    *)
StackResult(s, a, t) ==
  IF a # POP THEN NULL ELSE IF s = <<>> THEN EMPTY_STACK ELSE Head(s)

Content == [i \in DOMAIN ListFrom(rec[sp.index].head) |-> val[ListFrom(rec[sp.index].head)[i]]]

AnswerOf(t, v) == IF calls[t] > 0 /\ Arg(t) = POP THEN v ELSE NULL

AbstractOp(t) ==
  CASE pc[t] = "idle" -> [status |-> "idle"]
    [] pc[t] # "toggle" /\ (t \in rec[sp.index].applied <=> t \in a_toggles) ->
         [status |-> "done", ret |-> AnswerOf(t, rec[sp.index].ret[t])]
    [] OTHER -> [status |-> "pending", arg |-> Arg(t)]

Ob == INSTANCE BatchedObject WITH
        Args <- UNION {ToSet(Requests[t]) : t \in Threads},
        InitialState <- <<>>,
        NoResult <- NULL,
        NewState <- StackState,
        Result <- StackResult,
        obj <- Content,
        op <- [t \in Threads |-> AbstractOp(t)],
        result <- [t \in Threads |-> AnswerOf(t, result[t])]

(* SimStack is a linearizable stack: the requests an installed record has   *)
(* applied take effect with its CAS, the pushes before the pops; each call  *)
(* returns its own answer, whatever happened to the nodes it read.          *)
ImplementsBatchedStack == Ob!Spec
=============================================================================
