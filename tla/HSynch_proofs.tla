---------------------------- MODULE HSynch_proofs ----------------------------
(***************************************************************************)
(* Proofs about H-Synch, for any finite number of threads on any number of *)
(* NUMA nodes, any requests, any object and any help factor.               *)
(*                                                                         *)
(* The invariant is that of CC-Synch for each NUMA node, whose queue comes *)
(* to life while threads start (Blocks, Ownership), together with what the *)
(* central lock adds: its queue holds the combiners of the NUMA nodes, and *)
(* only the first of them is between CLHLock and CLHUnlock (LockOrder).    *)
(***************************************************************************)
EXTENDS HSynch, Sequences, FiniteSetTheorems, TLAPS

(* Threads that have a node, and threads whose node cur is in the queue.    *)
Started(t) == pc[t] \notin Starting
Queued(t) == pc[t] \notin Starting \cup {"idle", "swap"}

(* From the grant to the end of the service.                                *)
Combining == {"join", "enter"} \cup Serving

(* The NUMA node that a node belongs to.                                    *)
Group(n) == NodeOf[n[1]]

(* The one node t may use, as Held, but told by the place of t.             *)
Own(t) == IF Queued(t) THEN cur[t] ELSE next_node[t]

(* The node t put behind cur[t]. *)
Successor(t) == IF pc[t] \in {"announce", "link"} THEN next_node[t] ELSE next[cur[t]]

InQueue(n) == n = tail[Group(n)] \/ \E u \in Threads : Queued(u) /\ cur[u] = n

(* Nodes of an installed block that no thread has taken yet.                *)
Fresh(n) == n[1] = nodes[Group(n)] /\ n[2] \in node_indexes[Group(n)] .. NodeSize

(* What starting threads have set up: the block, then its last node as the  *)
(* tail; until then nobody touches the nodes.                               *)
Blocks ==
  /\ \A g \in NumaNodes : nodes[g] # NULL => NodeOf[nodes[g]] = g
  /\ \A g \in NumaNodes : tail[g] # NULL => nodes[g] # NULL
  /\ \A t \in Threads : pc[t] \notin {"start", "casBlock"} => nodes[NodeOf[t]] # NULL
  /\ \A t \in Threads :
       pc[t] \notin {"start", "casBlock", "initTail"} => tail[NodeOf[t]] # NULL
  /\ \A n \in Nodes :
       tail[Group(n)] = NULL => next[n] = NULL /\ ~locked[n] /\ ~completed[n]

(* The index of a block counts the threads that have taken a node.          *)
Takers(g) == {t \in Threads : NodeOf[t] = g /\ Started(t)}

Counted == \A g \in NumaNodes : node_indexes[g] = Cardinality(Takers(g))

(* Every node taken is held by one thread or is the tail.                   *)
Ownership ==
  /\ \A t \in Threads : Started(t) =>
       /\ Own(t) \in Nodes /\ Own(t)[1] = nodes[NodeOf[t]] /\ Group(Own(t)) = NodeOf[t]
       /\ Own(t) # tail[NodeOf[t]]
       /\ ~Fresh(Own(t))
  /\ \A g \in NumaNodes : tail[g] # NULL =>
       tail[g] \in Nodes /\ tail[g][1] = nodes[g] /\ Group(tail[g]) = g /\ ~Fresh(tail[g])
  /\ \A t, u \in Threads : Started(t) /\ Started(u) /\ Own(t) = Own(u) => t = u
  /\ \A t \in Threads : ~Started(t) => next_node[t] = NULL
  /\ \A t \in Threads : ~Queued(t) => cur[t] = NULL

(* What a thread knows of its own nodes at each program point. *)
OwnNodes ==
  \A t \in Threads :
    /\ pc[t] = "swap" =>
         locked[next_node[t]] /\ ~completed[next_node[t]] /\ next[next_node[t]] = NULL
    /\ pc[t] \in {"announce", "link"} =>
         /\ next[cur[t]] = NULL /\ ~completed[cur[t]]
         /\ next_node[t] \in Nodes /\ Group(next_node[t]) = NodeOf[t]
    /\ Queued(t) /\ pc[t] \notin {"announce", "link"} => next_node[t] = cur[t]
    /\ pc[t] \in Combining \cup {"check", "leave", "return"} => ~locked[cur[t]]
    /\ pc[t] \in {"leave", "return"} => completed[cur[t]]
    /\ pc[t] \notin Serving \cup {"leave", "return"} => counter[t] = 0

(* The node of t is in the queue and its request is still to be served. *)
Waiting(t) == Queued(t) /\ ~completed[cur[t]]

(* The part of a queue still to be served is a list: successors of waiting  *)
(* threads are queued and distinct, locked and to be served.                *)
Chain ==
  /\ \A g \in NumaNodes : tail[g] # NULL => next[tail[g]] = NULL /\ ~completed[tail[g]]
  /\ \A t \in Threads :
       Waiting(t) =>
         /\ Successor(t) \in Nodes /\ Group(Successor(t)) = NodeOf[t]
         /\ InQueue(Successor(t))
         /\ locked[Successor(t)] /\ ~completed[Successor(t)]
  /\ \A t, u \in Threads :
       Waiting(t) /\ Waiting(u) /\ Successor(t) = Successor(u) => t = u

(* Node n is the first to be served: nobody waits ahead of it. *)
First(n) ==
  /\ InQueue(n) /\ ~completed[n]
  /\ \A v \in Threads : Waiting(v) => Successor(v) # n

(* The combiner's position: p is the first node to be served, or has just   *)
(* been served and tmp_next is; p is locked unless it is the combiner's own.*)
CombinerPosition ==
  \A t \in Threads :
    /\ pc[t] \in Combining => p[t] \in Nodes /\ Group(p[t]) = NodeOf[t]
    /\ pc[t] \in Combining \ {"unlock"} => First(p[t])
    /\ pc[t] \in {"apply", "complete", "unlock"} =>
         /\ tmp_next[t] = next[p[t]] /\ tmp_next[t] \in Nodes
         /\ Group(tmp_next[t]) = NodeOf[t]
         /\ InQueue(p[t]) /\ p[t] # tail[NodeOf[t]]
    /\ pc[t] = "unlock" =>
         completed[p[t]] /\ First(tmp_next[t]) /\ locked[tmp_next[t]]
    /\ pc[t] \in {"join", "enter"} => p[t] = cur[t]
    /\ pc[t] \in Serving /\ p[t] # cur[t] => locked[p[t]] /\ completed[cur[t]]
    /\ pc[t] = "loop" /\ p[t] = cur[t] => counter[t] = 0
    /\ pc[t] = "release" => p[t] # cur[t]

(* The right to combine for a NUMA node is held by one thread or waits in   *)
(* one node.                                                                *)
Grant(n) == InQueue(n) /\ ~locked[n] /\ ~completed[n]

OneGrant ==
  /\ \A n, m \in Nodes : Grant(n) /\ Grant(m) /\ Group(n) = Group(m) => n = m
  /\ \A t \in Threads, n \in Nodes :
       pc[t] \in Combining /\ Grant(n) /\ Group(n) = NodeOf[t] => n = cur[t]

(* The queue of the central lock, and who has passed it.                    *)
LockOrder ==
  /\ queue \in Seq(Threads)
  /\ \A i, j \in DOMAIN queue : queue[i] = queue[j] => i = j
  /\ \A t \in Threads :
       (\E i \in DOMAIN queue : queue[i] = t) <=> pc[t] \in {"enter", "leave"} \cup Serving
  /\ \A t \in Threads : t \in inside <=> pc[t] \in Serving \cup {"leave"}
  /\ \A t \in inside : Len(queue) > 0 /\ queue[1] = t

(* The node of a waiting thread holds its request until sfunc has run.      *)
Requests ==
  \A t \in Threads :
    Waiting(t) /\ pc[t] # "announce" /\ ~Served(t) =>
      arg_ret[cur[t]] = arg[t] /\ pid[cur[t]] = t

(* The whole invariant, which every step preserves. *)
IInv ==
  /\ ConstantsAssumption
  /\ TypeOK /\ DOMAIN arg = Threads
  /\ Blocks /\ Counted
  /\ Ownership
  /\ OwnNodes
  /\ Chain
  /\ CombinerPosition
  /\ OneGrant
  /\ OneCompetitorPerNode
  /\ LockOrder
  /\ Requests

-----------------------------------------------------------------------------

(* help_bound lets a combiner serve at least one request: its own. *)
LEMMA HelpBoundType ==
  ASSUME ConstantsAssumption
  PROVE  HelpBound \in Nat /\ (Threads # {} => HelpBound > 0)
<1>1. Cardinality(Threads) \in Nat /\ (Threads # {} => Cardinality(Threads) > 0)
  BY FS_CardinalityType, FS_EmptySet DEF ConstantsAssumption
<1>2. HelpFactor \in Nat \ {0}
  BY DEF ConstantsAssumption
<1>3. \A i, j \in Nat : i * j \in Nat /\ (i > 0 /\ j > 0 => i * j > 0)
  OBVIOUS
<1>. QED
  BY <1>1, <1>2, <1>3 DEF HelpBound

(* Every thread is on a NUMA node, and NULL is nothing else. *)
LEMMA Constants ==
  ASSUME ConstantsAssumption
  PROVE  /\ \A t \in Threads : NodeOf[t] \in NumaNodes
         /\ NULL \notin Nodes /\ NULL \notin Threads
         /\ \A n \in Nodes : Group(n) \in NumaNodes /\ Group(n) = NodeOf[n[1]]
         /\ \A b \in Threads : Last(b) \in Nodes /\ Group(Last(b)) = NodeOf[b] /\ Last(b)[1] = b
                               /\ Last(b)[2] = NodeSize + 1
         /\ NodeSize \in Nat
  BY DEF ConstantsAssumption, Nodes, Group, Last

(* Only TakeNode changes the number of takers. *)
LEMMA CountedSame ==
  ASSUME Counted, UNCHANGED node_indexes, \A v \in Threads : Started(v)' <=> Started(v)
  PROVE  Counted'
<1>1. \A g \in NumaNodes : Takers(g)' = Takers(g)
  BY DEF Takers
<1>. QED
  BY <1>1 DEF Counted

(* While a thread has still to take its node, one is left besides the last. *)
LEMMA Room ==
  ASSUME NEW t \in Threads, ConstantsAssumption, TypeOK, Counted, ~Started(t)
  PROVE  /\ node_indexes[NodeOf[t]] \in 0 .. NodeSize
         /\ IsFiniteSet(Takers(NodeOf[t])) /\ t \notin Takers(NodeOf[t])
<1>. DEFINE g == NodeOf[t]
            All == {v \in Threads : NodeOf[v] = g}
<1>1. g \in NumaNodes /\ NodeSize \in Nat
  BY Constants
<1>2. IsFiniteSet(All) /\ Cardinality(All) <= NodeSize + 1
  BY <1>1, FS_Subset DEF ConstantsAssumption
<1>3. Takers(g) \subseteq All /\ t \in All /\ t \notin Takers(g)
  BY DEF Takers
<1>4. /\ IsFiniteSet(Takers(g)) /\ Cardinality(Takers(g)) <= Cardinality(All)
      /\ Cardinality(Takers(g)) # Cardinality(All)
  BY <1>2, <1>3, FS_Subset
<1>5. Cardinality(Takers(g)) \in Nat /\ Cardinality(All) \in Nat
  BY <1>2, <1>4, FS_CardinalityType
<1>. QED
  BY <1>1, <1>2, <1>3, <1>4, <1>5 DEF Counted

(* A thread that finds a block installed uses it. *)
LEMMA FindBlockStep ==
  ASSUME NEW t \in Threads, IInv, FindBlock(t)
  PROVE  IInv'
<1>. /\ TypeOK /\ Blocks /\ Counted /\ Ownership /\ OwnNodes /\ Chain
     /\ CombinerPosition /\ OneGrant /\ OneCompetitorPerNode /\ LockOrder /\ Requests
     /\ ConstantsAssumption /\ DOMAIN arg = Threads
  BY DEF IInv
<1>1. TypeOK' /\ DOMAIN arg' = Threads
  BY DEF TypeOK, PCs, Starting, FindBlock, Goto, blockVars, nodeVars, lockVars,
     localVars
<1>2. Blocks'
  BY DEF Blocks, FindBlock, Goto, blockVars, nodeVars, lockVars, localVars
<1>3. Counted'
  BY CountedSame DEF Started, Starting, FindBlock, Goto, blockVars, nodeVars,
     lockVars, localVars
<1>4. Ownership'
  BY DEF Ownership, Started, Own, Queued, Fresh, Starting, FindBlock, Goto,
     blockVars, nodeVars, lockVars, localVars
<1>5. OwnNodes'
  BY DEF OwnNodes, Queued, Combining, Serving, Starting, FindBlock, Goto,
     blockVars, nodeVars, lockVars, localVars
<1>6. Chain'
  BY DEF Chain, InQueue, Queued, Waiting, Successor, Starting, FindBlock, Goto,
     blockVars, nodeVars, lockVars, localVars
<1>7. CombinerPosition'
  BY DEF CombinerPosition, InQueue, Queued, Waiting, First, Combining, Serving,
     Starting, Successor, FindBlock, Goto, blockVars, nodeVars, lockVars,
     localVars
<1>8. OneGrant'
  BY DEF OneGrant, InQueue, Queued, Grant, Combining, Serving, Starting,
     FindBlock, Goto, blockVars, nodeVars, lockVars, localVars
<1>9. OneCompetitorPerNode'
  BY DEF OneCompetitorPerNode, Serving, FindBlock, Goto, blockVars, nodeVars,
     lockVars, localVars
<1>10. LockOrder'
  BY DEF LockOrder, Serving, FindBlock, Goto, blockVars, nodeVars, lockVars,
     localVars
<1>11. Requests'
  BY DEF Requests, Queued, Waiting, Served, Starting, FindBlock, Goto, blockVars,
     nodeVars, lockVars, localVars
<1>. QED
  BY <1>1, <1>2, <1>3, <1>4, <1>5, <1>6, <1>7, <1>8, <1>9, <1>10, <1>11 DEF IInv

(* A thread that finds none allocates one, private as yet. *)
LEMMA AllocBlockStep ==
  ASSUME NEW t \in Threads, IInv, AllocBlock(t)
  PROVE  IInv'
<1>. /\ TypeOK /\ Blocks /\ Counted /\ Ownership /\ OwnNodes /\ Chain
     /\ CombinerPosition /\ OneGrant /\ OneCompetitorPerNode /\ LockOrder /\ Requests
     /\ ConstantsAssumption /\ DOMAIN arg = Threads
  BY DEF IInv
<1>1. TypeOK' /\ DOMAIN arg' = Threads
  BY DEF TypeOK, PCs, Starting, AllocBlock, Goto, blockVars, nodeVars, lockVars,
     localVars
<1>2. Blocks'
  BY DEF Blocks, AllocBlock, Goto, blockVars, nodeVars, lockVars, localVars
<1>3. Counted'
  BY CountedSame DEF Started, Starting, AllocBlock, Goto, blockVars, nodeVars,
     lockVars, localVars
<1>4. Ownership'
  BY DEF Ownership, Started, Own, Queued, Fresh, Starting, AllocBlock, Goto,
     blockVars, nodeVars, lockVars, localVars
<1>5. OwnNodes'
  BY DEF OwnNodes, Queued, Combining, Serving, Starting, AllocBlock, Goto,
     blockVars, nodeVars, lockVars, localVars
<1>6. Chain'
  BY DEF Chain, InQueue, Queued, Waiting, Successor, Starting, AllocBlock, Goto,
     blockVars, nodeVars, lockVars, localVars
<1>7. CombinerPosition'
  BY DEF CombinerPosition, InQueue, Queued, Waiting, First, Combining, Serving,
     Starting, Successor, AllocBlock, Goto, blockVars, nodeVars, lockVars,
     localVars
<1>8. OneGrant'
  BY DEF OneGrant, InQueue, Queued, Grant, Combining, Serving, Starting,
     AllocBlock, Goto, blockVars, nodeVars, lockVars, localVars
<1>9. OneCompetitorPerNode'
  BY DEF OneCompetitorPerNode, Serving, AllocBlock, Goto, blockVars, nodeVars,
     lockVars, localVars
<1>10. LockOrder'
  BY DEF LockOrder, Serving, AllocBlock, Goto, blockVars, nodeVars, lockVars,
     localVars
<1>11. Requests'
  BY DEF Requests, Queued, Waiting, Served, Starting, AllocBlock, Goto, blockVars,
     nodeVars, lockVars, localVars
<1>. QED
  BY <1>1, <1>2, <1>3, <1>4, <1>5, <1>6, <1>7, <1>8, <1>9, <1>10, <1>11 DEF IInv

(* The block is installed at the NUMA node of the thread that allocated it. *)
LEMMA InstallBlockStep ==
  ASSUME NEW t \in Threads, IInv, InstallBlock(t)
  PROVE  IInv'
<1>. /\ TypeOK /\ Blocks /\ Counted /\ Ownership /\ OwnNodes /\ Chain
     /\ CombinerPosition /\ OneGrant /\ OneCompetitorPerNode /\ LockOrder /\ Requests
     /\ ConstantsAssumption /\ DOMAIN arg = Threads
  BY DEF IInv
<1>1. TypeOK' /\ DOMAIN arg' = Threads
  BY DEF TypeOK, PCs, Starting, InstallBlock, Goto, nodeVars, lockVars, localVars
<1>2. Blocks'
  BY Constants DEF TypeOK, Blocks, InstallBlock, Goto, nodeVars, lockVars, localVars
<1>3. Counted'
  BY CountedSame DEF Started, Starting, InstallBlock, Goto, nodeVars, lockVars,
     localVars
<1>4. Ownership'
  BY DEF Blocks, Ownership, Started, Own, Queued, Fresh, Starting, InstallBlock,
     Goto, nodeVars, lockVars, localVars
<1>5. OwnNodes'
  BY DEF OwnNodes, Queued, Combining, Serving, Starting, InstallBlock, Goto,
     nodeVars, lockVars, localVars
<1>6. Chain'
  BY DEF Chain, InQueue, Queued, Waiting, Successor, Starting, InstallBlock, Goto,
     nodeVars, lockVars, localVars
<1>7. CombinerPosition'
  BY DEF CombinerPosition, InQueue, Queued, Waiting, First, Combining, Serving,
     Starting, Successor, InstallBlock, Goto, nodeVars, lockVars, localVars
<1>8. OneGrant'
  BY DEF OneGrant, InQueue, Queued, Grant, Combining, Serving, Starting,
     InstallBlock, Goto, nodeVars, lockVars, localVars
<1>9. OneCompetitorPerNode'
  BY DEF OneCompetitorPerNode, Serving, InstallBlock, Goto, nodeVars, lockVars,
     localVars
<1>10. LockOrder'
  BY DEF LockOrder, Serving, InstallBlock, Goto, nodeVars, lockVars, localVars
<1>11. Requests'
  BY DEF Requests, Queued, Waiting, Served, Starting, InstallBlock, Goto,
     nodeVars, lockVars, localVars
<1>. QED
  BY <1>1, <1>2, <1>3, <1>4, <1>5, <1>6, <1>7, <1>8, <1>9, <1>10, <1>11 DEF IInv

(* The loser of the race only finds the block of another installed. *)
LEMMA FreeBlockStep ==
  ASSUME NEW t \in Threads, IInv, FreeBlock(t)
  PROVE  IInv'
<1>. /\ TypeOK /\ Blocks /\ Counted /\ Ownership /\ OwnNodes /\ Chain
     /\ CombinerPosition /\ OneGrant /\ OneCompetitorPerNode /\ LockOrder /\ Requests
     /\ ConstantsAssumption /\ DOMAIN arg = Threads
  BY DEF IInv
<1>1. TypeOK' /\ DOMAIN arg' = Threads
  BY DEF TypeOK, PCs, Starting, FreeBlock, Goto, blockVars, nodeVars, lockVars,
     localVars
<1>2. Blocks'
  BY DEF Blocks, FreeBlock, Goto, blockVars, nodeVars, lockVars, localVars
<1>3. Counted'
  BY CountedSame DEF Started, Starting, FreeBlock, Goto, blockVars, nodeVars,
     lockVars, localVars
<1>4. Ownership'
  BY DEF Ownership, Started, Own, Queued, Fresh, Starting, FreeBlock, Goto,
     blockVars, nodeVars, lockVars, localVars
<1>5. OwnNodes'
  BY DEF OwnNodes, Queued, Combining, Serving, Starting, FreeBlock, Goto,
     blockVars, nodeVars, lockVars, localVars
<1>6. Chain'
  BY DEF Chain, InQueue, Queued, Waiting, Successor, Starting, FreeBlock, Goto,
     blockVars, nodeVars, lockVars, localVars
<1>7. CombinerPosition'
  BY DEF CombinerPosition, InQueue, Queued, Waiting, First, Combining, Serving,
     Starting, Successor, FreeBlock, Goto, blockVars, nodeVars, lockVars,
     localVars
<1>8. OneGrant'
  BY DEF OneGrant, InQueue, Queued, Grant, Combining, Serving, Starting,
     FreeBlock, Goto, blockVars, nodeVars, lockVars, localVars
<1>9. OneCompetitorPerNode'
  BY DEF OneCompetitorPerNode, Serving, FreeBlock, Goto, blockVars, nodeVars,
     lockVars, localVars
<1>10. LockOrder'
  BY DEF LockOrder, Serving, FreeBlock, Goto, blockVars, nodeVars, lockVars,
     localVars
<1>11. Requests'
  BY DEF Requests, Queued, Waiting, Served, Starting, FreeBlock, Goto, blockVars,
     nodeVars, lockVars, localVars
<1>. QED
  BY <1>1, <1>2, <1>3, <1>4, <1>5, <1>6, <1>7, <1>8, <1>9, <1>10, <1>11 DEF IInv

(* The last node of the block becomes the tail and the first grant. *)
LEMMA InitTailStep ==
  ASSUME NEW t \in Threads, IInv, InitTail(t)
  PROVE  IInv'
<1>. /\ TypeOK /\ Blocks /\ Counted /\ Ownership /\ OwnNodes /\ Chain
     /\ CombinerPosition /\ OneGrant /\ OneCompetitorPerNode /\ LockOrder /\ Requests
     /\ ConstantsAssumption /\ DOMAIN arg = Threads
  BY DEF IInv
<1>. DEFINE g == NodeOf[t]
<1>a. /\ nodes[g] \in Threads /\ g \in NumaNodes /\ NodeOf[nodes[g]] = g
      /\ Last(nodes[g]) \in Nodes /\ Group(Last(nodes[g])) = g
      /\ Last(nodes[g])[1] = nodes[g] /\ Last(nodes[g])[2] = NodeSize + 1
  BY Constants DEF TypeOK, Blocks, InitTail, Goto
<1>b. /\ tail' = [tail EXCEPT ![g] = IF tail[g] = NULL THEN Last(nodes[g]) ELSE tail[g]]
      /\ pc[t] = "initTail" /\ pc' = [pc EXCEPT ![t] = "index"]
      /\ UNCHANGED <<blockVars, nodeVars, lockVars, state, localVars, result>>
  BY DEF InitTail, Goto
<1>c. /\ tail' \in [NumaNodes -> Nodes \cup {NULL}] /\ tail'[g] # NULL
      /\ \A h \in NumaNodes : \/ tail'[h] = tail[h]
                              \/ tail[h] = NULL /\ h = g /\ tail'[h] = Last(nodes[g])
  BY <1>a, <1>b, Constants DEF TypeOK
<1>d. \A v \in Threads : /\ Queued(v)' <=> Queued(v)
                         /\ Started(v)' <=> Started(v)
                         /\ Own(v)' = Own(v)
                         /\ pc'[v] = pc[v] \/ (v = t /\ pc'[v] = "index" /\ pc[v] = "initTail")
  BY <1>b DEF TypeOK, Queued, Started, Own, Starting, localVars
<1>e. \A v \in Threads : Waiting(v)' <=> Waiting(v)
  BY <1>b, <1>d DEF Waiting, nodeVars, localVars
<1>f. \A v \in Threads : Successor(v)' = Successor(v)
  BY <1>b, <1>d DEF Successor, nodeVars, localVars
<1>h. \A v \in Threads : Started(v) => tail[NodeOf[v]] # NULL
  BY DEF Blocks, Started, Starting
<1>i. \A n \in Nodes : tail[Group(n)] # NULL => (InQueue(n)' <=> InQueue(n))
  BY <1>b, <1>c, <1>d, Constants DEF InQueue, localVars
<1>1. TypeOK' /\ DOMAIN arg' = Threads
  BY <1>b, <1>c DEF TypeOK, PCs, Serving, Starting, blockVars, nodeVars, lockVars,
     localVars
<1>2. Blocks'
  BY <1>a, <1>b, <1>c, <1>d, Constants DEF Blocks, blockVars, nodeVars
<1>3. Counted'
  BY CountedSame DEF Started, Starting, InitTail, Goto, blockVars, nodeVars,
     lockVars, localVars
<1>4. Ownership'
  BY <1>a, <1>b, <1>c, <1>d, <1>h, Constants DEF Ownership, Fresh, TypeOK,
     blockVars, localVars
<1>5. OwnNodes'
  BY DEF OwnNodes, Queued, Combining, Serving, Starting, InitTail, Goto,
     blockVars, nodeVars, lockVars, localVars
<1>6. Chain'
  <2>1. \A h \in NumaNodes : tail'[h] # NULL => next[tail'[h]] = NULL /\ ~completed[tail'[h]]
    BY <1>a, <1>c DEF Chain, Blocks
  <2>2. \A v \in Threads : Waiting(v) => tail[NodeOf[v]] # NULL
    BY <1>h DEF Waiting, Queued, Started
  <2>. QED
    BY <1>b, <1>e, <1>f, <1>i, <2>1, <2>2, Constants DEF Chain, nodeVars
<1>7. CombinerPosition'
  <2>1. \A v \in Threads : pc[v] \in Combining => tail[NodeOf[v]] # NULL
    BY <1>h DEF Combining, Started, Starting, Serving
  <2>2. \A n \in Nodes : tail[Group(n)] # NULL /\ First(n) => First(n)'
    BY <1>b, <1>e, <1>f, <1>i DEF First, nodeVars
  <2>3. \A v \in Threads : pc'[v] \in Combining =>
          pc'[v] = pc[v] /\ tail[NodeOf[v]] # NULL /\ tail'[NodeOf[v]] = tail[NodeOf[v]]
    BY <1>c, <1>d, <2>1, Constants DEF Combining, Serving
  <2>. QED
    BY <1>b, <1>i, <2>2, <2>3 DEF CombinerPosition, Combining, Serving, nodeVars,
       localVars
<1>8. OneGrant'
  <2>1. \A n \in Nodes : tail[Group(n)] # NULL => (Grant(n)' <=> Grant(n))
    BY <1>b, <1>i DEF Grant, nodeVars
  <2>2. \A v \in Threads : Queued(v) => Group(cur[v]) = NodeOf[v] /\ tail[NodeOf[v]] # NULL
    BY <1>h DEF Ownership, Own, Queued, Started
  <2>3. \A n \in Nodes : tail[Group(n)] = NULL /\ InQueue(n)' => n = tail'[Group(n)]
    BY <1>b, <1>d, <2>2 DEF InQueue, localVars
  <2>4. \A n, m \in Nodes : Grant(n)' /\ Grant(m)' /\ Group(n) = Group(m) => n = m
    BY <2>1, <2>3 DEF OneGrant, Grant
  <2>5. \A v \in Threads : pc'[v] \in Combining => pc[v] \in Combining /\ tail[NodeOf[v]] # NULL
    BY <1>d, <1>h DEF Combining, Started, Starting, Serving
  <2>. QED
    BY <1>b, <2>1, <2>4, <2>5 DEF OneGrant, localVars
<1>9. OneCompetitorPerNode'
  BY DEF OneCompetitorPerNode, Serving, InitTail, Goto, blockVars, nodeVars,
     lockVars, localVars
<1>10. LockOrder'
  BY DEF LockOrder, Serving, InitTail, Goto, blockVars, nodeVars, lockVars,
     localVars
<1>11. Requests'
  BY DEF Requests, Queued, Waiting, Served, Starting, InitTail, Goto, blockVars,
     nodeVars, lockVars, localVars
<1>. QED
  BY <1>1, <1>2, <1>3, <1>4, <1>5, <1>6, <1>7, <1>8, <1>9, <1>10, <1>11 DEF IInv

(* The node taken is fresh, and there is one for each thread. *)
LEMMA TakeNodeStep ==
  ASSUME NEW t \in Threads, IInv, TakeNode(t)
  PROVE  IInv'
<1>. /\ TypeOK /\ Blocks /\ Counted /\ Ownership /\ OwnNodes /\ Chain
     /\ CombinerPosition /\ OneGrant /\ OneCompetitorPerNode /\ LockOrder /\ Requests
     /\ ConstantsAssumption /\ DOMAIN arg = Threads
  BY DEF IInv
<1>. DEFINE g == NodeOf[t]
            n0 == <<nodes[g], node_indexes[g]>>
<1>a. ~Started(t) /\ pc[t] = "index"
  BY DEF Started, Starting, TakeNode, Goto
<1>b. node_indexes[g] \in 0 .. NodeSize /\ NodeSize \in Nat /\ g \in NumaNodes
  BY <1>a, Room, Constants
<1>c. nodes[g] \in Threads /\ NodeOf[nodes[g]] = g /\ tail[g] # NULL
  BY <1>a, <1>b DEF TypeOK, Blocks
<1>d. n0 \in Nodes /\ n0[1] = nodes[g] /\ n0[2] = node_indexes[g] /\ Group(n0) = g
  BY <1>b, <1>c DEF Nodes, Group
<1>e. PICK n \in Nodes : n = n0
  BY <1>d
<1>f. /\ next_node' = [next_node EXCEPT ![t] = n]
      /\ node_indexes' = [node_indexes EXCEPT ![g] = node_indexes[g] + 1]
      /\ pc' = [pc EXCEPT ![t] = "idle"]
      /\ UNCHANGED <<nodes, tail, nodeVars, lockVars, state, arg, cur, p, tmp_next,
                     counter, result>>
  BY <1>e DEF TakeNode, Goto
<1>h. \A v \in Threads : Started(v)' <=> (Started(v) \/ v = t)
  BY <1>f DEF TypeOK, Started, Starting
<1>1. TypeOK' /\ DOMAIN arg' = Threads
  BY <1>b, <1>f DEF TypeOK, PCs, Serving, Starting, nodeVars, lockVars
<1>2. Blocks'
  BY DEF Blocks, TakeNode, Goto, nodeVars, lockVars
<1>3. Counted'
  <2>1. \A h \in NumaNodes : Takers(h)' = IF h = g THEN Takers(h) \cup {t} ELSE Takers(h)
    BY <1>h DEF Takers
  <2>2. IsFiniteSet(Takers(g)) /\ t \notin Takers(g)
    BY <1>a, Room
  <2>3. Cardinality(Takers(g) \cup {t}) = Cardinality(Takers(g)) + 1
    BY <2>2, FS_AddElement
  <2>. QED
    BY <1>b, <1>f, <2>1, <2>3 DEF Counted, TypeOK
<1>4. Ownership'
  <2>1. Fresh(n) /\ n[1] = nodes[g] /\ n[2] = node_indexes[g] /\ Group(n) = g
    BY <1>b, <1>d, <1>e DEF Fresh
  <2>2. \A m \in Nodes : Fresh(m)' => Fresh(m) /\ m # n
    <3> SUFFICES ASSUME NEW m \in Nodes, Fresh(m)' PROVE Fresh(m) /\ m # n
      OBVIOUS
    <3>1. m[2] \in 0 .. NodeSize + 1 /\ Group(m) \in NumaNodes
      BY Constants DEF Nodes
    <3>2. node_indexes \in [NumaNodes -> 0 .. NodeSize + 1]
      BY DEF TypeOK
    <3>3. m[1] = nodes[Group(m)] /\ m[2] >= node_indexes'[Group(m)] /\ m[2] <= NodeSize
      BY <1>f, <3>1, <3>2, <1>b DEF Fresh
    <3>. QED
      BY <1>b, <1>f, <2>1, <3>1, <3>2, <3>3 DEF Fresh
  <2>3. \A v \in Threads : v # t => Own(v)' = Own(v) /\ (Queued(v)' <=> Queued(v))
    BY <1>f DEF TypeOK, Own, Queued, Starting
  <2>4. Own(t)' = n /\ ~Queued(t)' /\ ~Queued(t)
    BY <1>a, <1>f DEF TypeOK, Own, Queued, Starting
  <2>5. /\ n \in Nodes /\ n[1] = nodes[g] /\ Group(n) = g /\ n # tail[g] /\ ~Fresh(n)'
        /\ \A v \in Threads : Started(v) => Own(v) # n
    BY <1>b, <1>c, <2>1, <2>2 DEF Ownership
  <2>6. \A v \in Threads : Started(v)' =>
          /\ Own(v)' \in Nodes /\ Own(v)'[1] = nodes[NodeOf[v]] /\ Group(Own(v)') = NodeOf[v]
          /\ Own(v)' # tail[NodeOf[v]] /\ ~Fresh(Own(v))'
    BY <1>h, <2>2, <2>3, <2>4, <2>5 DEF Ownership
  <2>7. \A h \in NumaNodes : tail[h] # NULL => ~Fresh(tail[h])'
    BY <1>f, <2>2 DEF Ownership
  <2>8. \A v, u \in Threads : Started(v)' /\ Started(u)' /\ Own(v)' = Own(u)' => v = u
    BY <1>h, <2>3, <2>4, <2>5 DEF Ownership
  <2>9. \A v \in Threads : (~Started(v)' => next_node'[v] = NULL) /\ (~Queued(v)' => cur'[v] = NULL)
    BY <1>f, <1>h, <2>3, <2>4 DEF Ownership, TypeOK
  <2>. QED
    BY <1>f, <2>6, <2>7, <2>8, <2>9 DEF Ownership
<1>5. OwnNodes'
  BY DEF OwnNodes, Queued, Combining, Serving, Starting, TakeNode, Goto, nodeVars,
     lockVars
<1>6. Chain'
  BY DEF Chain, InQueue, Queued, Waiting, Successor, Starting, TakeNode, Goto,
     nodeVars, lockVars
<1>7. CombinerPosition'
  BY DEF CombinerPosition, InQueue, Queued, Waiting, First, Combining, Serving,
     Starting, Successor, TakeNode, Goto, nodeVars, lockVars
<1>8. OneGrant'
  BY DEF OneGrant, InQueue, Queued, Grant, Combining, Serving, TakeNode, Goto,
     nodeVars, lockVars
<1>9. OneCompetitorPerNode'
  BY DEF OneCompetitorPerNode, Serving, TakeNode, Goto, nodeVars, lockVars
<1>10. LockOrder'
  BY DEF LockOrder, Serving, TakeNode, Goto, nodeVars, lockVars
<1>11. Requests'
  BY DEF Requests, Queued, Waiting, Served, TakeNode, Goto, nodeVars, lockVars
<1>. QED
  BY <1>1, <1>2, <1>3, <1>4, <1>5, <1>6, <1>7, <1>8, <1>9, <1>10, <1>11 DEF IInv

(* A call only resets the private node of its thread. *)
LEMMA CallStep ==
  ASSUME NEW t \in Threads, NEW a \in Args, IInv, Call(t, a)
  PROVE  IInv'
<1>. /\ TypeOK /\ Blocks /\ Counted /\ Ownership /\ OwnNodes /\ Chain
     /\ CombinerPosition /\ OneGrant /\ OneCompetitorPerNode /\ LockOrder /\ Requests
     /\ ConstantsAssumption /\ DOMAIN arg = Threads
  BY DEF IInv
<1>1. TypeOK' /\ DOMAIN arg' = Threads
  BY DEF TypeOK, PCs, Call, Goto, blockVars, lockVars
<1>2. Blocks'
  BY Constants DEF Blocks, Ownership, Own, Queued, Call, Goto, blockVars, lockVars
<1>3. Counted'
  BY CountedSame DEF Started, Starting, Call, Goto, blockVars, lockVars
<1>4. Ownership'
  BY DEF Ownership, Started, Own, Queued, Fresh, Starting, Call, Goto, blockVars,
     lockVars
<1>5. OwnNodes'
  BY DEF TypeOK, Ownership, OwnNodes, Started, Own, Queued, Combining, Serving,
     Starting, Call, Goto, blockVars, lockVars
<1>6. Chain'
  BY Constants DEF Ownership, Chain, Started, Own, InQueue, Queued, Waiting,
     Successor, Call, Goto, blockVars, lockVars
<1>7. CombinerPosition'
  BY DEF Ownership, CombinerPosition, Started, Own, InQueue, Queued, Waiting,
     First, Combining, Serving, Starting, Successor, Call, Goto, blockVars,
     lockVars
<1>8. OneGrant'
  BY Constants DEF Ownership, OneGrant, Started, Own, InQueue, Queued, Grant,
     Combining, Serving, Call, Goto, blockVars, lockVars
<1>9. OneCompetitorPerNode'
  BY DEF OneCompetitorPerNode, Serving, Call, Goto, blockVars, lockVars
<1>10. LockOrder'
  BY DEF LockOrder, Serving, Call, Goto, blockVars, lockVars
<1>11. Requests'
  BY DEF Ownership, Requests, Started, Own, Queued, Waiting, Served, Starting,
     Call, Goto, blockVars, lockVars
<1>. QED
  BY <1>1, <1>2, <1>3, <1>4, <1>5, <1>6, <1>7, <1>8, <1>9, <1>10, <1>11 DEF IInv

(* The node swapped in is locked and unserved, so it may follow the tail. *)
LEMMA SwapStep ==
  ASSUME NEW t \in Threads, IInv, Swap(t)
  PROVE  IInv'
<1>. /\ TypeOK /\ Blocks /\ Counted /\ Ownership /\ OwnNodes /\ Chain
     /\ CombinerPosition /\ OneGrant /\ OneCompetitorPerNode /\ LockOrder /\ Requests
     /\ ConstantsAssumption /\ DOMAIN arg = Threads
  BY DEF IInv
<1>. DEFINE g == NodeOf[t]
<1>a. /\ g \in NumaNodes /\ tail[g] # NULL /\ tail[g] \in Nodes /\ Group(tail[g]) = g
      /\ next_node[t] \in Nodes /\ Group(next_node[t]) = g /\ next_node[t] # tail[g]
      /\ Started(t) /\ ~Queued(t) /\ pc[t] = "swap"
  BY Constants DEF TypeOK, Blocks, Ownership, Own, Started, Queued, Starting,
     Swap, Goto
<1>b. /\ cur' = [cur EXCEPT ![t] = tail[g]] /\ tail' = [tail EXCEPT ![g] = next_node[t]]
      /\ pc' = [pc EXCEPT ![t] = "announce"]
      /\ UNCHANGED <<blockVars, nodeVars, lockVars, state, next_node, arg, p,
                     tmp_next, counter, result>>
  BY DEF Swap, Goto
<1>c. \A v \in Threads : v # t => /\ Own(v)' = Own(v) /\ (Queued(v)' <=> Queued(v))
                                  /\ Started(v)' <=> Started(v)
                                  /\ Waiting(v)' <=> Waiting(v)
                                  /\ Successor(v)' = Successor(v)
                                  /\ cur'[v] = cur[v]
  BY <1>b DEF TypeOK, Own, Queued, Started, Starting, Waiting, Successor, nodeVars
<1>d. /\ Own(t)' = tail[g] /\ Own(t) = next_node[t] /\ Queued(t)' /\ Started(t)'
      /\ Successor(t)' = next_node[t] /\ cur'[t] = tail[g]
  BY <1>a, <1>b DEF TypeOK, Own, Queued, Started, Starting, Successor
<1>e. \A n \in Nodes : InQueue(n)' <=> InQueue(n) \/ n = next_node[t]
  BY <1>a, <1>b, <1>c, <1>d, Constants DEF InQueue, TypeOK
<1>1. TypeOK' /\ DOMAIN arg' = Threads
  BY Constants DEF TypeOK, PCs, Swap, Goto, blockVars, nodeVars, lockVars
<1>2. Blocks'
  BY Constants DEF Blocks, Ownership, Started, Own, Queued, Starting, Swap, Goto,
     blockVars, nodeVars, lockVars
<1>3. Counted'
  BY CountedSame DEF Started, Starting, Swap, Goto, blockVars, nodeVars, lockVars
<1>4. Ownership'
  <2>1. \A n : Fresh(n)' <=> Fresh(n)
    BY <1>b DEF Fresh, blockVars
  <2>2. /\ tail' \in [NumaNodes -> Nodes \cup {NULL}]
        /\ \A h \in NumaNodes : tail'[h] = IF h = g THEN next_node[t] ELSE tail[h]
    BY <1>a, <1>b DEF TypeOK
  <2>3. next_node[t][1] = nodes[g] /\ ~Fresh(next_node[t])
    BY <1>a, <1>d DEF Ownership
  <2>4. \A v \in Threads : Started(v) => Own(v)' # tail'[NodeOf[v]]
    BY <1>a, <1>c, <1>d, <2>2, Constants DEF Ownership
  <2>5. \A v \in Threads : Started(v)' =>
          /\ Own(v)' \in Nodes /\ Own(v)'[1] = nodes[NodeOf[v]] /\ Group(Own(v)') = NodeOf[v]
          /\ ~Fresh(Own(v)')
    BY <1>a, <1>c, <1>d DEF Ownership
  <2>6. \A h \in NumaNodes : tail'[h] # NULL =>
          tail'[h] \in Nodes /\ tail'[h][1] = nodes[h] /\ Group(tail'[h]) = h /\ ~Fresh(tail'[h])
    BY <1>a, <2>2, <2>3 DEF Ownership
  <2>7. \A v, u \in Threads : Started(v)' /\ Started(u)' /\ Own(v)' = Own(u)' => v = u
    <3>1. \A v \in Threads : Started(v) => Own(v) # tail[g]
      BY <1>a, Constants DEF Ownership
    <3>. QED
      BY <1>a, <1>c, <1>d, <3>1 DEF Ownership
  <2>8. \A v \in Threads : (~Started(v)' => next_node[v] = NULL) /\ (~Queued(v)' => cur'[v] = NULL)
    BY <1>a, <1>b, <1>c, <1>d DEF Ownership
  <2>9. \A v \in Threads : Started(v)' => Started(v)
    BY <1>a, <1>c
  <2>. QED
    BY <1>b, <2>1, <2>4, <2>5, <2>6, <2>7, <2>8, <2>9 DEF Ownership, blockVars
<1>5. OwnNodes'
  BY Constants DEF TypeOK, Blocks, Ownership, OwnNodes, Chain, Started, Own,
     Queued, Combining, Serving, Starting, Swap, Goto, blockVars, nodeVars,
     lockVars
<1>6. Chain'
  <2>1. locked[next_node[t]] /\ ~completed[next_node[t]] /\ next[next_node[t]] = NULL
    BY <1>a DEF OwnNodes
  <2>2. \A v \in Threads : Waiting(v) => Successor(v) # next_node[t]
    <3> SUFFICES ASSUME NEW v \in Threads, Waiting(v), Successor(v) = next_node[t] PROVE FALSE
      OBVIOUS
    <3>1. InQueue(next_node[t])
      BY DEF Chain
    <3>2. PICK u \in Threads : Queued(u) /\ cur[u] = next_node[t]
      BY <1>a, <3>1 DEF InQueue
    <3>. QED
      BY <1>a, <1>d, <3>2 DEF Ownership, Own, Queued, Started
  <2>3. \A h \in NumaNodes : tail'[h] # NULL => next[tail'[h]] = NULL /\ ~completed[tail'[h]]
    BY <1>a, <1>b, <2>1 DEF Chain, TypeOK
  <2>4. \A v \in Threads : Waiting(v)' =>
          /\ Successor(v)' \in Nodes /\ Group(Successor(v)') = NodeOf[v]
          /\ \A n \in Nodes : n = Successor(v)' => InQueue(n)'
          /\ locked[Successor(v)'] /\ ~completed[Successor(v)']
    BY <1>a, <1>c, <1>d, <1>e, <2>1 DEF Chain
  <2>5. \A v, u \in Threads :
          Waiting(v)' /\ Waiting(u)' /\ Successor(v)' = Successor(u)' => v = u
    BY <1>c, <1>d, <2>2 DEF Chain
  <2>. QED
    BY <1>b, <2>3, <2>4, <2>5 DEF Chain, nodeVars
<1>7. CombinerPosition'
  BY DEF TypeOK, Ownership, CombinerPosition, Started, Own, InQueue, Queued,
     Waiting, First, Combining, Serving, Starting, Successor, Swap, Goto,
     blockVars, nodeVars, lockVars
<1>8. OneGrant'
  BY Constants DEF Ownership, OwnNodes, OneGrant, InQueue, Grant, Combining,
     Serving, Swap, Goto, blockVars, nodeVars, lockVars
<1>9. OneCompetitorPerNode'
  BY DEF OneCompetitorPerNode, Serving, Swap, Goto, blockVars, nodeVars, lockVars
<1>10. LockOrder'
  BY DEF LockOrder, Serving, Swap, Goto, blockVars, nodeVars, lockVars
<1>11. Requests'
  BY DEF Requests, Queued, Waiting, Served, Swap, Goto, blockVars, nodeVars,
     lockVars
<1>. QED
  BY <1>1, <1>2, <1>3, <1>4, <1>5, <1>6, <1>7, <1>8, <1>9, <1>10, <1>11 DEF IInv

(* The request goes into a node that no combiner serves before it is linked. *)
LEMMA AnnounceStep ==
  ASSUME NEW t \in Threads, IInv, Announce(t)
  PROVE  IInv'
<1>. /\ TypeOK /\ Blocks /\ Counted /\ Ownership /\ OwnNodes /\ Chain
     /\ CombinerPosition /\ OneGrant /\ OneCompetitorPerNode /\ LockOrder /\ Requests
     /\ ConstantsAssumption /\ DOMAIN arg = Threads
  BY DEF IInv
<1>1. TypeOK' /\ DOMAIN arg' = Threads
  BY DEF TypeOK, PCs, Announce, Goto, blockVars, lockVars, localVars
<1>2. Blocks'
  BY DEF Blocks, Announce, Goto, blockVars, lockVars, localVars
<1>3. Counted'
  BY CountedSame DEF Started, Starting, Announce, Goto, blockVars, lockVars,
     localVars
<1>4. Ownership'
  BY DEF Ownership, Started, Own, Queued, Fresh, Starting, Announce, Goto,
     blockVars, lockVars, localVars
<1>5. OwnNodes'
  BY DEF OwnNodes, Queued, Combining, Serving, Announce, Goto, blockVars,
     lockVars, localVars
<1>6. Chain'
  <2>1. \A v \in Threads : /\ Queued(v)' <=> Queued(v)
                           /\ Waiting(v)' <=> Waiting(v)
                           /\ Successor(v)' = Successor(v)
    BY DEF TypeOK, Queued, Waiting, Successor, Starting, Announce, Goto, localVars
  <2>2. \A n : InQueue(n)' <=> InQueue(n)
    BY <2>1 DEF InQueue, Announce, localVars
  <2>. QED
    BY <2>1, <2>2 DEF Chain, Announce
<1>7. CombinerPosition'
  BY DEF CombinerPosition, InQueue, Queued, Waiting, First, Combining, Serving,
     Starting, Successor, Announce, Goto, blockVars, lockVars, localVars
<1>8. OneGrant'
  BY DEF OneGrant, InQueue, Queued, Grant, Combining, Serving, Starting, Announce,
     Goto, blockVars, lockVars, localVars
<1>9. OneCompetitorPerNode'
  BY DEF OneCompetitorPerNode, Serving, Announce, Goto, blockVars, lockVars,
     localVars
<1>10. LockOrder'
  BY DEF LockOrder, Serving, Announce, Goto, blockVars, lockVars, localVars
<1>11. Requests'
  BY DEF TypeOK, Ownership, Requests, Started, Own, Queued, Waiting, Served,
     Starting, Announce, Goto, blockVars, lockVars, localVars
<1>. QED
  BY <1>1, <1>2, <1>3, <1>4, <1>5, <1>6, <1>7, <1>8, <1>9, <1>10, <1>11 DEF IInv

(* Linking leaves Successor as it was: it only becomes visible in next. *)
LEMMA LinkStep ==
  ASSUME NEW t \in Threads, IInv, Link(t)
  PROVE  IInv'
<1>. /\ TypeOK /\ Blocks /\ Counted /\ Ownership /\ OwnNodes /\ Chain
     /\ CombinerPosition /\ OneGrant /\ OneCompetitorPerNode /\ LockOrder /\ Requests
     /\ ConstantsAssumption /\ DOMAIN arg = Threads
  BY DEF IInv
<1>a. \A v \in Threads : (Queued(v)' <=> Queued(v)) /\ (Waiting(v)' <=> Waiting(v))
  BY DEF TypeOK, Queued, Waiting, Starting, Link, Goto
<1>b. \A n : InQueue(n)' <=> InQueue(n)
  BY <1>a DEF InQueue, Link
<1>c. \A v \in Threads : Queued(v) => Successor(v)' = Successor(v)
  BY DEF TypeOK, Ownership, Successor, Own, Started, Queued, Starting, Link, Goto
<1>1. TypeOK' /\ DOMAIN arg' = Threads
  BY DEF TypeOK, PCs, Link, Goto, blockVars, lockVars
<1>2. Blocks'
  BY Constants DEF Blocks, Ownership, Own, Link, Goto, blockVars, lockVars
<1>3. Counted'
  BY CountedSame DEF Started, Starting, Link, Goto, blockVars, lockVars
<1>4. Ownership'
  BY DEF Ownership, Started, Own, Queued, Fresh, Starting, Link, Goto, blockVars,
     lockVars
<1>5. OwnNodes'
  BY Constants DEF TypeOK, Ownership, OwnNodes, Own, Queued, Combining, Serving,
     Link, Goto, blockVars, lockVars
<1>6. Chain'
  <2>1. cur[t] \in Nodes /\ Group(cur[t]) = NodeOf[t] /\ cur[t] # tail[NodeOf[t]]
    BY DEF Ownership, Own, Started, Queued, Starting, Link, Goto
  <2>2. \A h \in NumaNodes : tail[h] # NULL => next'[tail[h]] = next[tail[h]]
    BY <2>1, Constants DEF Ownership, Link, TypeOK
  <2>. QED
    BY <1>a, <1>b, <1>c, <2>2 DEF Chain, Waiting, Link
<1>7. CombinerPosition'
  <2>1. /\ pc[t] = "link" /\ pc' = [pc EXCEPT ![t] = "spin"]
        /\ next' = [next EXCEPT ![cur[t]] = next_node[t]]
        /\ UNCHANGED <<tail, locked, completed, cur, p, tmp_next, counter>>
    BY DEF Link, Goto
  <2>2. Queued(t) /\ next[cur[t]] = NULL
    BY <2>1 DEF OwnNodes, Queued, Starting
  <2>3. \A n : First(n)' <=> First(n)
    BY <1>a, <1>b, <1>c, <2>1 DEF First, Waiting
  <2>4. \A v \in Threads \ {t} : pc'[v] = pc[v]
    BY <2>1 DEF TypeOK
  <2>5. pc'[t] = "spin"
    BY <2>1 DEF TypeOK
  <2>6. ASSUME NEW v \in Threads, pc[v] \in {"apply", "complete", "unlock"}
        PROVE  next'[p[v]] = next[p[v]]
    <3>1. next[p[v]] # NULL
      BY <2>6, Constants DEF CombinerPosition
    <3>2. p[v] # cur[t]
      BY <3>1, <2>2
    <3>3. p[v] \in Nodes
      BY <2>6 DEF CombinerPosition, Combining, Serving
    <3>. QED
      BY <3>2, <3>3, <2>1 DEF TypeOK
  <2>. QED
    BY <1>b, <2>1, <2>3, <2>4, <2>5, <2>6 DEF CombinerPosition, Combining, Serving
<1>8. OneGrant'
  BY DEF OneGrant, InQueue, Queued, Grant, Combining, Serving, Starting, Link,
     Goto, blockVars, lockVars
<1>9. OneCompetitorPerNode'
  BY DEF OneCompetitorPerNode, Serving, Link, Goto, blockVars, lockVars
<1>10. LockOrder'
  BY DEF LockOrder, Serving, Link, Goto, blockVars, lockVars
<1>11. Requests'
  BY DEF Requests, Queued, Waiting, Served, Starting, Link, Goto, blockVars,
     lockVars
<1>. QED
  BY <1>1, <1>2, <1>3, <1>4, <1>5, <1>6, <1>7, <1>8, <1>9, <1>10, <1>11 DEF IInv

(* The end of the spin loop only reads. *)
LEMMA StopSpinningStep ==
  ASSUME NEW t \in Threads, IInv, StopSpinning(t)
  PROVE  IInv'
<1>. /\ TypeOK /\ Blocks /\ Counted /\ Ownership /\ OwnNodes /\ Chain
     /\ CombinerPosition /\ OneGrant /\ OneCompetitorPerNode /\ LockOrder /\ Requests
     /\ ConstantsAssumption /\ DOMAIN arg = Threads
  BY DEF IInv
<1>1. TypeOK' /\ DOMAIN arg' = Threads
  BY DEF TypeOK, PCs, StopSpinning, Goto, blockVars, nodeVars, lockVars, localVars
<1>2. Blocks'
  BY DEF Blocks, StopSpinning, Goto, blockVars, nodeVars, lockVars, localVars
<1>3. Counted'
  BY CountedSame DEF Started, Starting, StopSpinning, Goto, blockVars, nodeVars,
     lockVars, localVars
<1>4. Ownership'
  BY DEF Ownership, Started, Own, Queued, Fresh, Starting, StopSpinning, Goto,
     blockVars, nodeVars, lockVars, localVars
<1>5. OwnNodes'
  BY DEF OwnNodes, Queued, Serving, Starting, StopSpinning, Goto, blockVars,
     nodeVars, lockVars, localVars
<1>6. Chain'
  BY DEF Chain, InQueue, Queued, Waiting, Successor, Starting, StopSpinning, Goto,
     blockVars, nodeVars, lockVars, localVars
<1>7. CombinerPosition'
  BY DEF CombinerPosition, InQueue, Queued, Waiting, First, Combining, Serving,
     Starting, Successor, StopSpinning, Goto, blockVars, nodeVars, lockVars,
     localVars
<1>8. OneGrant'
  BY DEF OneGrant, InQueue, Queued, Grant, Combining, Serving, Starting,
     StopSpinning, Goto, blockVars, nodeVars, lockVars, localVars
<1>9. OneCompetitorPerNode'
  BY DEF OneCompetitorPerNode, Serving, StopSpinning, Goto, blockVars, nodeVars,
     lockVars, localVars
<1>10. LockOrder'
  BY DEF LockOrder, Serving, StopSpinning, Goto, blockVars, nodeVars, lockVars,
     localVars
<1>11. Requests'
  BY DEF Requests, Queued, Waiting, Served, Starting, StopSpinning, Goto,
     blockVars, nodeVars, lockVars, localVars
<1>. QED
  BY <1>1, <1>2, <1>3, <1>4, <1>5, <1>6, <1>7, <1>8, <1>9, <1>10, <1>11 DEF IInv

(* The thread that takes the one grant of its NUMA node is first there. *)
LEMMA BecomeCombinerStep ==
  ASSUME NEW t \in Threads, IInv, BecomeCombiner(t)
  PROVE  IInv'
<1>. /\ TypeOK /\ Blocks /\ Counted /\ Ownership /\ OwnNodes /\ Chain
     /\ CombinerPosition /\ OneGrant /\ OneCompetitorPerNode /\ LockOrder /\ Requests
     /\ ConstantsAssumption /\ DOMAIN arg = Threads
  BY DEF IInv
<1>a. /\ Queued(t) /\ Started(t) /\ pc[t] = "check" /\ cur[t] \in Nodes
      /\ Group(cur[t]) = NodeOf[t] /\ ~locked[cur[t]] /\ ~completed[cur[t]]
  BY DEF Ownership, OwnNodes, Own, Started, Queued, Starting, BecomeCombiner, Goto
<1>b. Grant(cur[t])
  BY <1>a DEF Grant, InQueue
<1>c. \A u \in Threads : pc[u] \in Combining => NodeOf[u] # NodeOf[t]
  <2> SUFFICES ASSUME NEW u \in Threads, pc[u] \in Combining, NodeOf[u] = NodeOf[t] PROVE FALSE
    OBVIOUS
  <2>1. cur[u] = cur[t]
    BY <1>a, <1>b DEF OneGrant
  <2>2. Queued(u) /\ Started(u)
    BY DEF Queued, Started, Combining, Serving, Starting
  <2>. QED
    BY <1>a, <2>1, <2>2 DEF Ownership, Own, Combining, Serving
<1>d. First(cur[t])
  BY <1>a DEF First, InQueue, Chain
<1>e. /\ p' = [p EXCEPT ![t] = cur[t]] /\ pc' = [pc EXCEPT ![t] = "join"]
      /\ UNCHANGED <<blockVars, tail, nodeVars, lockVars, state, next_node, arg,
                     cur, tmp_next, counter, result>>
  BY DEF BecomeCombiner, Goto
<1>f. \A v \in Threads : /\ Queued(v)' <=> Queued(v)
                         /\ Waiting(v)' <=> Waiting(v)
                         /\ Successor(v)' = Successor(v)
  BY <1>a, <1>e DEF TypeOK, Queued, Waiting, Successor, Starting, nodeVars
<1>h. \A n : (InQueue(n)' <=> InQueue(n)) /\ (First(n)' <=> First(n)) /\ (Grant(n)' <=> Grant(n))
  BY <1>e, <1>f DEF InQueue, First, Grant, nodeVars
<1>1. TypeOK' /\ DOMAIN arg' = Threads
  BY DEF TypeOK, PCs, BecomeCombiner, Goto, blockVars, nodeVars, lockVars
<1>2. Blocks'
  BY DEF Blocks, BecomeCombiner, Goto, blockVars, nodeVars, lockVars
<1>3. Counted'
  BY CountedSame DEF Started, Starting, BecomeCombiner, Goto, blockVars, nodeVars,
     lockVars
<1>4. Ownership'
  BY DEF Ownership, Started, Own, Queued, Fresh, Starting, BecomeCombiner, Goto,
     blockVars, nodeVars, lockVars
<1>5. OwnNodes'
  BY DEF OwnNodes, Queued, Serving, Starting, BecomeCombiner, Goto, blockVars,
     nodeVars, lockVars
<1>6. Chain'
  BY DEF Chain, InQueue, Queued, Waiting, Successor, Starting, BecomeCombiner,
     Goto, blockVars, nodeVars, lockVars
<1>7. CombinerPosition'
  BY <1>a, <1>d, <1>e, <1>h DEF CombinerPosition, TypeOK, InQueue, Combining,
     Serving, nodeVars
<1>8. OneGrant'
  BY <1>a, <1>b, <1>e, <1>h DEF OneGrant, TypeOK
<1>9. OneCompetitorPerNode'
  BY <1>c, <1>e DEF OneCompetitorPerNode, Combining, Serving, TypeOK
<1>10. LockOrder'
  BY DEF LockOrder, Serving, BecomeCombiner, Goto, blockVars, nodeVars, lockVars
<1>11. Requests'
  BY DEF Requests, Queued, Waiting, Served, Starting, BecomeCombiner, Goto,
     blockVars, nodeVars, lockVars
<1>. QED
  BY <1>1, <1>2, <1>3, <1>4, <1>5, <1>6, <1>7, <1>8, <1>9, <1>10, <1>11 DEF IInv

(* The combiner queues for the central lock. *)
LEMMA JoinStep ==
  ASSUME NEW t \in Threads, IInv, Join(t)
  PROVE  IInv'
<1>. /\ TypeOK /\ Blocks /\ Counted /\ Ownership /\ OwnNodes /\ Chain
     /\ CombinerPosition /\ OneGrant /\ OneCompetitorPerNode /\ LockOrder /\ Requests
     /\ ConstantsAssumption /\ DOMAIN arg = Threads
  BY DEF IInv
<1>1. TypeOK' /\ DOMAIN arg' = Threads
  BY DEF TypeOK, PCs, CentralLock!Join, Join, Goto, blockVars, nodeVars, lockVars,
     localVars
<1>2. Blocks'
  BY DEF Blocks, Join, Goto, blockVars, nodeVars, lockVars, localVars
<1>3. Counted'
  BY CountedSame DEF Started, Starting, Join, Goto, blockVars, nodeVars, lockVars,
     localVars
<1>4. Ownership'
  BY DEF Ownership, Started, Own, Queued, Fresh, Starting, Join, Goto, blockVars,
     nodeVars, lockVars, localVars
<1>5. OwnNodes'
  BY DEF OwnNodes, Queued, Combining, Serving, Starting, Join, Goto, blockVars,
     nodeVars, lockVars, localVars
<1>6. Chain'
  BY DEF Chain, InQueue, Queued, Waiting, Successor, Starting, Join, Goto,
     blockVars, nodeVars, lockVars, localVars
<1>7. CombinerPosition'
  BY DEF CombinerPosition, InQueue, Queued, Waiting, First, Combining, Starting,
     Successor, Join, Goto, blockVars, nodeVars, lockVars, localVars
<1>8. OneGrant'
  BY DEF OneGrant, InQueue, Queued, Grant, Combining, Starting, Join, Goto,
     blockVars, nodeVars, lockVars, localVars
<1>9. OneCompetitorPerNode'
  BY DEF OneCompetitorPerNode, Join, Goto, blockVars, nodeVars, lockVars, localVars
<1>10. LockOrder'
  <2>1. ~\E i \in DOMAIN queue : queue[i] = t
    BY DEF LockOrder, Join, Goto, Serving
  <2>2. /\ queue' = Append(queue, t) /\ inside' = inside
        /\ pc[t] = "join" /\ pc' = [pc EXCEPT ![t] = "enter"]
    BY DEF Join, Goto, CentralLock!Join
  <2>3. /\ queue' \in Seq(Threads) /\ Len(queue') = Len(queue) + 1 /\ Len(queue) \in Nat
        /\ DOMAIN queue' = 1 .. Len(queue) + 1 /\ DOMAIN queue = 1 .. Len(queue)
        /\ \A i \in DOMAIN queue : queue'[i] = queue[i]
        /\ queue'[Len(queue) + 1] = t
    BY <2>2 DEF LockOrder
  <2>4. \A i, j \in DOMAIN queue' : queue'[i] = queue'[j] => i = j
    BY <2>1, <2>3 DEF LockOrder
  <2>5. \A v \in Threads :
          (\E i \in DOMAIN queue' : queue'[i] = v) <=> (\E i \in DOMAIN queue : queue[i] = v) \/ v = t
    BY <2>3
  <2>6. \A v \in Threads :
          (\E i \in DOMAIN queue' : queue'[i] = v) <=> pc'[v] \in {"enter", "leave"} \cup Serving
    BY <2>2, <2>5 DEF LockOrder, TypeOK
  <2>7. \A v \in Threads : v \in inside' <=> pc'[v] \in Serving \cup {"leave"}
    BY <2>2 DEF LockOrder, TypeOK, Serving
  <2>8. \A v \in inside' : Len(queue') > 0 /\ queue'[1] = v
    BY <2>2, <2>3 DEF LockOrder
  <2>. QED
    BY <2>3, <2>4, <2>6, <2>7, <2>8 DEF LockOrder
<1>11. Requests'
  BY DEF Requests, Queued, Waiting, Served, Starting, Join, Goto, blockVars,
     nodeVars, lockVars, localVars
<1>. QED
  BY <1>1, <1>2, <1>3, <1>4, <1>5, <1>6, <1>7, <1>8, <1>9, <1>10, <1>11 DEF IInv

(* It passes the lock when it is the first in the queue. *)
LEMMA EnterStep ==
  ASSUME NEW t \in Threads, IInv, Enter(t)
  PROVE  IInv'
<1>. /\ TypeOK /\ Blocks /\ Counted /\ Ownership /\ OwnNodes /\ Chain
     /\ CombinerPosition /\ OneGrant /\ OneCompetitorPerNode /\ LockOrder /\ Requests
     /\ ConstantsAssumption /\ DOMAIN arg = Threads
  BY DEF IInv
<1>1. TypeOK' /\ DOMAIN arg' = Threads
  BY DEF TypeOK, PCs, Serving, CentralLock!Enter, Enter, Goto, blockVars,
     nodeVars, lockVars, localVars
<1>2. Blocks'
  BY DEF Blocks, Enter, Goto, blockVars, nodeVars, lockVars, localVars
<1>3. Counted'
  BY CountedSame DEF Started, Starting, Enter, Goto, blockVars, nodeVars,
     lockVars, localVars
<1>4. Ownership'
  BY DEF Ownership, Started, Own, Queued, Fresh, Starting, Enter, Goto, blockVars,
     nodeVars, lockVars, localVars
<1>5. OwnNodes'
  BY DEF OwnNodes, Queued, Combining, Serving, Starting, Enter, Goto, blockVars,
     nodeVars, lockVars, localVars
<1>6. Chain'
  BY DEF Chain, InQueue, Queued, Waiting, Successor, Starting, Enter, Goto,
     blockVars, nodeVars, lockVars, localVars
<1>7. CombinerPosition'
  BY DEF OwnNodes, CombinerPosition, InQueue, Queued, Waiting, First, Combining,
     Serving, Starting, Successor, Enter, Goto, blockVars, nodeVars, lockVars,
     localVars
<1>8. OneGrant'
  BY DEF OneGrant, InQueue, Queued, Grant, Combining, Starting, Enter, Goto,
     blockVars, nodeVars, lockVars, localVars
<1>9. OneCompetitorPerNode'
  BY DEF OneCompetitorPerNode, Enter, Goto, blockVars, nodeVars, lockVars, localVars
<1>10. LockOrder'
  BY DEF TypeOK, LockOrder, Serving, CentralLock!Enter, Enter, Goto, blockVars,
     nodeVars, lockVars, localVars
<1>11. Requests'
  BY DEF Requests, Queued, Waiting, Served, Starting, Enter, Goto, blockVars,
     nodeVars, lockVars, localVars
<1>. QED
  BY <1>1, <1>2, <1>3, <1>4, <1>5, <1>6, <1>7, <1>8, <1>9, <1>10, <1>11 DEF IInv

(* The successor read by the loop is behind the first node to be served. *)
LEMMA VisitStep ==
  ASSUME NEW t \in Threads, IInv, Visit(t)
  PROVE  IInv'
<1>. /\ TypeOK /\ Blocks /\ Counted /\ Ownership /\ OwnNodes /\ Chain
     /\ CombinerPosition /\ OneGrant /\ OneCompetitorPerNode /\ LockOrder /\ Requests
     /\ ConstantsAssumption /\ DOMAIN arg = Threads
  BY DEF IInv
<1>a. /\ p[t] \in Nodes /\ Group(p[t]) = NodeOf[t] /\ First(p[t]) /\ next[p[t]] # NULL
  BY DEF CombinerPosition, Combining, Serving, Visit, Goto
<1>b. p[t] # tail[NodeOf[t]]
  BY <1>a, Constants DEF Chain
<1>c. PICK w \in Threads : Queued(w) /\ cur[w] = p[t]
  BY <1>a, <1>b DEF First, InQueue
<1>d. Waiting(w) /\ Successor(w) = next[p[t]]
  BY <1>a, <1>c DEF Waiting, First, Successor, OwnNodes
<1>e. NodeOf[w] = NodeOf[t]
  BY <1>a, <1>c DEF Ownership, Own, Queued, Started
<1>f. /\ pc[t] = "loop" /\ pc' = [pc EXCEPT ![t] = "apply"]
      /\ tmp_next' = [tmp_next EXCEPT ![t] = next[p[t]]]
      /\ UNCHANGED <<blockVars, tail, nodeVars, lockVars, state, next_node, arg,
                     cur, p, result>>
  BY DEF Visit, Goto
<1>h. \A v \in Threads : /\ Queued(v)' <=> Queued(v)
                         /\ Waiting(v)' <=> Waiting(v)
                         /\ Successor(v)' = Successor(v)
  BY <1>f DEF TypeOK, Queued, Waiting, Successor, Starting, nodeVars
<1>i. \A n : (InQueue(n)' <=> InQueue(n)) /\ (First(n)' <=> First(n))
  BY <1>f, <1>h DEF InQueue, First, nodeVars
<1>1. TypeOK' /\ DOMAIN arg' = Threads
  BY Constants, HelpBoundType DEF TypeOK, PCs, Serving, CombinerPosition,
     Combining, Visit, Goto, blockVars, nodeVars, lockVars
<1>2. Blocks'
  BY DEF Blocks, Visit, Goto, blockVars, nodeVars, lockVars
<1>3. Counted'
  BY CountedSame DEF Started, Starting, Visit, Goto, blockVars, nodeVars, lockVars
<1>4. Ownership'
  BY DEF Ownership, Started, Own, Queued, Fresh, Starting, Visit, Goto, blockVars,
     nodeVars, lockVars
<1>5. OwnNodes'
  BY DEF OwnNodes, Queued, Combining, Serving, Starting, Visit, Goto, blockVars,
     nodeVars, lockVars
<1>6. Chain'
  BY DEF Chain, InQueue, Queued, Waiting, Successor, Starting, Visit, Goto,
     blockVars, nodeVars, lockVars
<1>7. CombinerPosition'
  <2>1. next[p[t]] \in Nodes /\ Group(next[p[t]]) = NodeOf[t] /\ InQueue(p[t])
    BY <1>a, <1>d, <1>e DEF Chain, First
  <2>2. \A v \in Threads : v # t =>
          pc'[v] = pc[v] /\ tmp_next'[v] = tmp_next[v] /\ counter'[v] = counter[v]
    BY DEF Visit, Goto, TypeOK
  <2>3. pc'[t] = "apply" /\ tmp_next'[t] = next[p[t]]
    BY <1>f DEF TypeOK
  <2>. QED
    BY <1>a, <1>b, <1>f, <1>i, <2>1, <2>2, <2>3 DEF CombinerPosition, Combining,
       Serving, nodeVars
<1>8. OneGrant'
  BY DEF OneGrant, InQueue, Queued, Grant, Combining, Serving, Starting, Visit,
     Goto, blockVars, nodeVars, lockVars
<1>9. OneCompetitorPerNode'
  BY DEF OneCompetitorPerNode, Serving, Visit, Goto, blockVars, nodeVars, lockVars
<1>10. LockOrder'
  BY DEF LockOrder, Serving, Visit, Goto, blockVars, nodeVars, lockVars
<1>11. Requests'
  BY DEF Requests, Queued, Waiting, Served, Starting, Visit, Goto, blockVars,
     nodeVars, lockVars
<1>. QED
  BY <1>1, <1>2, <1>3, <1>4, <1>5, <1>6, <1>7, <1>8, <1>9, <1>10, <1>11 DEF IInv

(* A combiner that stops has served its own request, which was linked first. *)
LEMMA StopCombiningStep ==
  ASSUME NEW t \in Threads, IInv, StopCombining(t)
  PROVE  IInv'
<1>. /\ TypeOK /\ Blocks /\ Counted /\ Ownership /\ OwnNodes /\ Chain
     /\ CombinerPosition /\ OneGrant /\ OneCompetitorPerNode /\ LockOrder /\ Requests
     /\ ConstantsAssumption /\ DOMAIN arg = Threads
  BY DEF IInv
<1>1. TypeOK' /\ DOMAIN arg' = Threads
  BY DEF TypeOK, PCs, Serving, StopCombining, Goto, blockVars, nodeVars, lockVars,
     localVars
<1>2. Blocks'
  BY DEF Blocks, StopCombining, Goto, blockVars, nodeVars, lockVars, localVars
<1>3. Counted'
  BY CountedSame DEF Started, Starting, StopCombining, Goto, blockVars, nodeVars,
     lockVars, localVars
<1>4. Ownership'
  BY DEF Ownership, Started, Own, Queued, Fresh, Starting, StopCombining, Goto,
     blockVars, nodeVars, lockVars, localVars
<1>5. OwnNodes'
  BY DEF OwnNodes, Queued, Combining, Serving, Starting, StopCombining, Goto,
     blockVars, nodeVars, lockVars, localVars
<1>6. Chain'
  BY DEF Chain, InQueue, Queued, Waiting, Successor, Starting, StopCombining,
     Goto, blockVars, nodeVars, lockVars, localVars
<1>7. CombinerPosition'
  <2>1. /\ pc[t] = "loop" /\ pc' = [pc EXCEPT ![t] = "release"]
        /\ next[p[t]] = NULL \/ counter[t] >= HelpBound
        /\ UNCHANGED <<blockVars, tail, nodeVars, lockVars, state, localVars>>
    BY DEF StopCombining, Goto
  <2>2. First(p[t]) /\ (p[t] = cur[t] => counter[t] = 0)
    BY <2>1 DEF CombinerPosition, Combining, Serving
  <2>3. ASSUME p[t] = cur[t] PROVE FALSE
    <3>1. next[cur[t]] = NULL
      BY <2>1, <2>2, <2>3, HelpBoundType
    <3>2. Waiting(t) /\ Successor(t) = NULL
      BY <2>1, <2>2, <2>3, <3>1 DEF First, Waiting, Queued, Successor, Starting
    <3>. QED
      BY <3>2, Constants DEF Chain
  <2>4. \A v \in Threads : /\ Queued(v)' <=> Queued(v)
                           /\ Waiting(v)' <=> Waiting(v)
                           /\ Successor(v)' = Successor(v)
    BY <2>1 DEF TypeOK, Queued, Waiting, Successor, Starting, nodeVars, localVars
  <2>5. \A n : (InQueue(n)' <=> InQueue(n)) /\ (First(n)' <=> First(n))
    BY <2>1, <2>4 DEF InQueue, First, nodeVars, localVars
  <2>. QED
    BY <2>1, <2>3, <2>5 DEF CombinerPosition, Combining, Serving, TypeOK, nodeVars,
       localVars
<1>8. OneGrant'
  BY DEF OneGrant, InQueue, Queued, Grant, Combining, Serving, Starting,
     StopCombining, Goto, blockVars, nodeVars, lockVars, localVars
<1>9. OneCompetitorPerNode'
  BY DEF OneCompetitorPerNode, Serving, StopCombining, Goto, blockVars, nodeVars,
     lockVars, localVars
<1>10. LockOrder'
  BY DEF LockOrder, Serving, StopCombining, Goto, blockVars, nodeVars, lockVars,
     localVars
<1>11. Requests'
  BY DEF Requests, Queued, Waiting, Served, Starting, StopCombining, Goto,
     blockVars, nodeVars, lockVars, localVars
<1>. QED
  BY <1>1, <1>2, <1>3, <1>4, <1>5, <1>6, <1>7, <1>8, <1>9, <1>10, <1>11 DEF IInv

(* sfunc overwrites arg_ret of the node being served and no other request. *)
LEMMA ApplyStep ==
  ASSUME NEW t \in Threads, IInv, Apply(t)
  PROVE  IInv'
<1>. /\ TypeOK /\ Blocks /\ Counted /\ Ownership /\ OwnNodes /\ Chain
     /\ CombinerPosition /\ OneGrant /\ OneCompetitorPerNode /\ LockOrder /\ Requests
     /\ ConstantsAssumption /\ DOMAIN arg = Threads
  BY DEF IInv
<1>1. TypeOK' /\ DOMAIN arg' = Threads
  BY DEF TypeOK, PCs, Serving, Apply, Goto, blockVars, lockVars, localVars
<1>2. Blocks'
  BY DEF Blocks, Apply, Goto, blockVars, lockVars, localVars
<1>3. Counted'
  BY CountedSame DEF Started, Starting, Apply, Goto, blockVars, lockVars, localVars
<1>4. Ownership'
  BY DEF Ownership, Started, Own, Queued, Fresh, Starting, Apply, Goto, blockVars,
     lockVars, localVars
<1>5. OwnNodes'
  BY DEF OwnNodes, Queued, Combining, Serving, Starting, Apply, Goto, blockVars,
     lockVars, localVars
<1>6. Chain'
  BY DEF Chain, InQueue, Queued, Waiting, Successor, Starting, Apply, Goto,
     blockVars, lockVars, localVars
<1>7. CombinerPosition'
  BY DEF CombinerPosition, InQueue, Queued, Waiting, First, Combining, Serving,
     Starting, Successor, Apply, Goto, blockVars, lockVars, localVars
<1>8. OneGrant'
  BY DEF OneGrant, InQueue, Queued, Grant, Combining, Serving, Starting, Apply,
     Goto, blockVars, lockVars, localVars
<1>9. OneCompetitorPerNode'
  BY DEF OneCompetitorPerNode, Serving, Apply, Goto, blockVars, lockVars, localVars
<1>10. LockOrder'
  BY DEF LockOrder, Serving, Apply, Goto, blockVars, lockVars, localVars
<1>11. Requests'
  <2>1. \A v \in Threads : (Waiting(v)' <=> Waiting(v)) /\ (Queued(v)' <=> Queued(v))
    BY DEF TypeOK, Waiting, Queued, Starting, Apply, Goto, localVars
  <2>2. \A v \in Threads : Waiting(v)' /\ ~Served(v)' => ~Served(v) /\ cur[v] # p[t]
    <3> SUFFICES ASSUME NEW v \in Threads, Waiting(v)', ~Served(v)'
                 PROVE  ~Served(v) /\ cur[v] # p[t]
      OBVIOUS
    <3>1. pc[t] = "apply" /\ pc'[t] = "complete" /\ UNCHANGED <<cur, p, completed>>
      BY DEF Apply, Goto, TypeOK, localVars
    <3>2. \A c \in Threads : pc[c] = "complete" => pc'[c] = "complete"
      BY DEF Apply, Goto, TypeOK
    <3>3. cur[v] # NULL
      BY <2>1, Constants DEF Waiting, Ownership, Own, Started, Queued
    <3>. QED
      BY <3>1, <3>2, <3>3 DEF Served
  <2>3. \A v \in Threads : Waiting(v)' /\ pc'[v] # "announce" => pc[v] # "announce"
    BY DEF TypeOK, Apply, Goto
  <2>. QED
    BY <2>1, <2>2, <2>3 DEF TypeOK, Requests, Apply, localVars
<1>. QED
  BY <1>1, <1>2, <1>3, <1>4, <1>5, <1>6, <1>7, <1>8, <1>9, <1>10, <1>11 DEF IInv

(* Setting completed moves the head of the list to be served by one. *)
LEMMA CompleteStep ==
  ASSUME NEW t \in Threads, IInv, Complete(t)
  PROVE  IInv'
<1>. /\ TypeOK /\ Blocks /\ Counted /\ Ownership /\ OwnNodes /\ Chain
     /\ CombinerPosition /\ OneGrant /\ OneCompetitorPerNode /\ LockOrder /\ Requests
     /\ ConstantsAssumption /\ DOMAIN arg = Threads
  BY DEF IInv
<1>a. /\ pc[t] = "complete" /\ p[t] \in Nodes /\ Group(p[t]) = NodeOf[t] /\ First(p[t])
      /\ p[t] # tail[NodeOf[t]] /\ tmp_next[t] = next[p[t]] /\ tmp_next[t] \in Nodes
      /\ Group(tmp_next[t]) = NodeOf[t]
  BY DEF CombinerPosition, Combining, Serving, Complete, Goto
<1>b. PICK w \in Threads : Queued(w) /\ cur[w] = p[t]
  BY <1>a DEF First, InQueue
<1>c. Waiting(w) /\ Successor(w) = tmp_next[t]
  BY <1>a, <1>b, Constants DEF Waiting, First, Successor, OwnNodes
<1>d. InQueue(tmp_next[t]) /\ locked[tmp_next[t]] /\ ~completed[tmp_next[t]]
  BY <1>c DEF Chain
<1>e. /\ pc' = [pc EXCEPT ![t] = "unlock"] /\ completed' = [completed EXCEPT ![p[t]] = TRUE]
      /\ UNCHANGED <<blockVars, tail, next, locked, arg_ret, pid, lockVars, state,
                     localVars, result>>
  BY DEF Complete, Goto
<1>f. \A v \in Threads : /\ Queued(v)' <=> Queued(v)
                         /\ Queued(v) => cur[v] \in Nodes
                         /\ Waiting(v)' <=> Waiting(v) /\ cur[v] # p[t]
                         /\ Successor(v)' = Successor(v)
  BY <1>a, <1>e DEF TypeOK, Ownership, Own, Started, Queued, Waiting, Successor,
     Starting, localVars
<1>h. \A n : InQueue(n)' <=> InQueue(n)
  BY <1>e, <1>f DEF InQueue, localVars
<1>i. \A n \in Nodes : n # p[t] /\ First(n) => First(n)'
  BY <1>e, <1>f, <1>h DEF First, TypeOK
<1>j. First(tmp_next[t])'
  BY <1>a, <1>b, <1>c, <1>d, <1>e, <1>f, <1>h DEF First, Chain, TypeOK, localVars
<1>1. TypeOK' /\ DOMAIN arg' = Threads
  BY DEF TypeOK, PCs, Serving, Complete, Goto, blockVars, lockVars, localVars
<1>2. Blocks'
  BY Constants DEF Blocks, CombinerPosition, Complete, Goto, blockVars, lockVars,
     localVars
<1>3. Counted'
  BY CountedSame DEF Started, Starting, Complete, Goto, blockVars, lockVars,
     localVars
<1>4. Ownership'
  BY DEF Ownership, Started, Own, Queued, Fresh, Starting, Complete, Goto,
     blockVars, lockVars, localVars
<1>5. OwnNodes'
  BY Constants DEF OwnNodes, Queued, Combining, Serving, Starting,
     CombinerPosition, Complete, Goto, blockVars, lockVars, localVars
<1>6. Chain'
  <2>1. \A n \in Nodes : ~completed[n] /\ n # p[t] => ~completed'[n]
    BY <1>e DEF TypeOK
  <2>2. \A v \in Threads : Waiting(v) => Successor(v) # p[t]
    BY <1>a DEF First
  <2>3. \A h \in NumaNodes : tail[h] # NULL => tail[h] # p[t] /\ tail[h] \in Nodes
    BY <1>a DEF Ownership
  <2>. QED
    BY <1>e, <1>f, <1>h, <2>1, <2>2, <2>3 DEF Chain
<1>7. CombinerPosition'
  <2>1. \A v \in Threads : v # t /\ pc[v] \in Combining => NodeOf[v] # NodeOf[t]
    BY <1>a DEF OneCompetitorPerNode, Combining, Serving
  <2>2. \A v \in Threads : v # t => pc'[v] = pc[v]
    BY <1>e DEF TypeOK
  <2>3. completed'[p[t]] /\ \A n \in Nodes : completed[n] => completed'[n]
    BY <1>a, <1>e DEF TypeOK
  <2>4. \A v \in Threads : pc[v] \in Combining => cur[v] \in Nodes
    BY <1>f DEF Combining, Serving, Queued, Starting
  <2>5. \A v \in Threads : v # t /\ pc[v] \in Combining => p[v] # p[t]
    BY <1>a, <2>1 DEF CombinerPosition
  <2>6. ASSUME NEW v \in Threads, v # t PROVE CombinerPosition!(v)'
    BY <1>a, <1>e, <1>h, <1>i, <2>1, <2>2, <2>3, <2>4, <2>5, <2>6 DEF
       CombinerPosition, Combining, Serving, localVars
  <2>7. CombinerPosition!(t)'
    BY <1>a, <1>d, <1>e, <1>h, <1>j, <2>3, <2>4 DEF CombinerPosition, Combining,
       Serving, localVars, TypeOK
  <2>. QED
    BY <2>6, <2>7 DEF CombinerPosition
<1>8. OneGrant'
  BY DEF OneGrant, InQueue, Queued, Grant, Combining, Serving, Starting, Complete,
     Goto, blockVars, lockVars, localVars
<1>9. OneCompetitorPerNode'
  BY DEF OneCompetitorPerNode, Serving, Complete, Goto, blockVars, lockVars,
     localVars
<1>10. LockOrder'
  BY DEF LockOrder, Serving, Complete, Goto, blockVars, lockVars, localVars
<1>11. Requests'
  BY DEF TypeOK, Requests, Queued, Waiting, Served, Starting, Complete, Goto,
     blockVars, lockVars, localVars
<1>. QED
  BY <1>1, <1>2, <1>3, <1>4, <1>5, <1>6, <1>7, <1>8, <1>9, <1>10, <1>11 DEF IInv

(* Unlocking a completed node grants nothing. *)
LEMMA UnlockStep ==
  ASSUME NEW t \in Threads, IInv, Unlock(t)
  PROVE  IInv'
<1>. /\ TypeOK /\ Blocks /\ Counted /\ Ownership /\ OwnNodes /\ Chain
     /\ CombinerPosition /\ OneGrant /\ OneCompetitorPerNode /\ LockOrder /\ Requests
     /\ ConstantsAssumption /\ DOMAIN arg = Threads
  BY DEF IInv
<1>1. TypeOK' /\ DOMAIN arg' = Threads
  BY DEF TypeOK, PCs, Serving, Unlock, Goto, blockVars, lockVars
<1>2. Blocks'
  BY DEF Blocks, Unlock, Goto, blockVars, lockVars
<1>3. Counted'
  BY CountedSame DEF Started, Starting, Unlock, Goto, blockVars, lockVars
<1>4. Ownership'
  BY DEF Ownership, Started, Own, Queued, Fresh, Starting, Unlock, Goto,
     blockVars, lockVars
<1>5. OwnNodes'
  BY DEF OwnNodes, Queued, Combining, Serving, Starting, CombinerPosition, Unlock,
     Goto, blockVars, lockVars
<1>6. Chain'
  <2>1. \A v \in Threads : /\ Queued(v)' <=> Queued(v)
                           /\ Waiting(v)' <=> Waiting(v)
                           /\ Successor(v)' = Successor(v)
    BY DEF TypeOK, Queued, Waiting, Successor, Starting, Unlock, Goto
  <2>2. \A n : InQueue(n)' <=> InQueue(n)
    BY <2>1 DEF InQueue, Unlock
  <2>3. completed[p[t]] /\ p[t] \in Nodes
    BY DEF CombinerPosition, Combining, Serving, Unlock, Goto
  <2>4. \A n \in Nodes : ~completed[n] /\ locked[n] => locked'[n]
    BY <2>3 DEF Unlock, TypeOK
  <2>. QED
    BY <2>1, <2>2, <2>4 DEF Chain, Unlock
<1>7. CombinerPosition'
  BY DEF TypeOK, CombinerPosition, InQueue, Queued, Waiting, First, Combining,
     Serving, Starting, Successor, OneCompetitorPerNode, Unlock, Goto, blockVars,
     lockVars
<1>8. OneGrant'
  BY DEF OneGrant, InQueue, Queued, Grant, Combining, Serving, CombinerPosition,
     Unlock, Goto, blockVars, lockVars
<1>9. OneCompetitorPerNode'
  BY DEF OneCompetitorPerNode, Serving, Unlock, Goto, blockVars, lockVars
<1>10. LockOrder'
  BY DEF LockOrder, Serving, Unlock, Goto, blockVars, lockVars
<1>11. Requests'
  BY DEF Requests, Queued, Waiting, Served, Starting, Unlock, Goto, blockVars,
     lockVars
<1>. QED
  BY <1>1, <1>2, <1>3, <1>4, <1>5, <1>6, <1>7, <1>8, <1>9, <1>10, <1>11 DEF IInv

(* Unlocking the first unserved node passes the grant on. *)
LEMMA ReleaseStep ==
  ASSUME NEW t \in Threads, IInv, Release(t)
  PROVE  IInv'
<1>. /\ TypeOK /\ Blocks /\ Counted /\ Ownership /\ OwnNodes /\ Chain
     /\ CombinerPosition /\ OneGrant /\ OneCompetitorPerNode /\ LockOrder /\ Requests
     /\ ConstantsAssumption /\ DOMAIN arg = Threads
  BY DEF IInv
<1>1. TypeOK' /\ DOMAIN arg' = Threads
  BY DEF TypeOK, PCs, Release, Goto, blockVars, lockVars, localVars
<1>2. Blocks'
  BY DEF Blocks, Release, Goto, blockVars, lockVars, localVars
<1>3. Counted'
  BY CountedSame DEF Started, Starting, Release, Goto, blockVars, lockVars,
     localVars
<1>4. Ownership'
  BY DEF Ownership, Started, Own, Queued, Fresh, Starting, Release, Goto,
     blockVars, lockVars, localVars
<1>5. OwnNodes'
  <2>1. p[t] \in Nodes /\ First(p[t]) /\ p[t] # cur[t] /\ completed[cur[t]]
    BY DEF CombinerPosition, Combining, Serving, Release, Goto
  <2>2. \A v \in Threads : pc[v] = "swap" => next_node[v] # p[t]
    BY <2>1 DEF First, InQueue, Ownership, Own, Started, Queued, Starting
  <2>3. \A v \in Threads : v # t => pc'[v] = pc[v]
    BY DEF Release, Goto, TypeOK
  <2>4. pc[t] = "release" /\ pc'[t] = "leave"
    BY DEF Release, Goto, TypeOK
  <2>5. \A v \in Threads : Queued(v) => cur[v] \in Nodes
    BY DEF Ownership, Own, Started, Queued
  <2>6. \A v \in Threads : pc[v] = "swap" => next_node[v] \in Nodes
    BY DEF Ownership, Own, Started, Queued, Starting
  <2>7. \A n \in Nodes : (locked'[n] => locked[n]) /\ (n # p[t] => locked'[n] = locked[n])
    BY <2>1 DEF Release, TypeOK
  <2>. QED
    BY <2>1, <2>2, <2>3, <2>4, <2>5, <2>6, <2>7 DEF OwnNodes, Queued, Combining,
       Serving, Starting, Release, localVars
<1>6. Chain'
  BY DEF Chain, InQueue, Queued, Waiting, Successor, CombinerPosition, First,
     Combining, Serving, Release, Goto, blockVars, lockVars, localVars
<1>7. CombinerPosition'
  BY DEF TypeOK, CombinerPosition, InQueue, Queued, Waiting, First, Combining,
     Serving, Starting, Successor, OneCompetitorPerNode, Release, Goto, blockVars,
     lockVars, localVars
<1>8. OneGrant'
  <2>1. /\ p[t] \in Nodes /\ Group(p[t]) = NodeOf[t] /\ completed[cur[t]] /\ pc[t] = "release"
        /\ locked' = [locked EXCEPT ![p[t]] = FALSE] /\ pc' = [pc EXCEPT ![t] = "leave"]
        /\ UNCHANGED <<blockVars, tail, next, completed, arg_ret, pid, lockVars,
                       state, localVars, result>>
    BY DEF CombinerPosition, Combining, Serving, Release, Goto
  <2>2. \A v \in Threads : Queued(v)' <=> Queued(v)
    BY <2>1 DEF Queued, Starting, TypeOK
  <2>3. \A n \in Nodes : InQueue(n)' <=> InQueue(n)
    BY <2>1, <2>2 DEF InQueue, localVars
  <2>4. \A n \in Nodes : Grant(n)' => Grant(n) \/ n = p[t]
    BY <2>1, <2>3 DEF Grant, TypeOK
  <2>5. \A n \in Nodes : ~(Grant(n) /\ Group(n) = NodeOf[t])
    BY <2>1 DEF OneGrant, Grant, Combining, Serving
  <2>6. \A n, m \in Nodes : Grant(n)' /\ Grant(m)' /\ Group(n) = Group(m) => n = m
    BY <2>1, <2>4, <2>5 DEF OneGrant
  <2>7. \A v \in Threads : pc'[v] \in Combining => pc[v] \in Combining /\ NodeOf[v] # NodeOf[t]
    BY <2>1 DEF OneCompetitorPerNode, Combining, Serving, TypeOK
  <2>8. \A v \in Threads, n \in Nodes :
          pc'[v] \in Combining /\ Grant(n)' /\ Group(n) = NodeOf[v] => n = cur[v]
    BY <2>1, <2>4, <2>7 DEF OneGrant
  <2>. QED
    BY <2>1, <2>6, <2>8 DEF OneGrant, localVars
<1>9. OneCompetitorPerNode'
  BY DEF OneCompetitorPerNode, Serving, Release, Goto, blockVars, lockVars,
     localVars
<1>10. LockOrder'
  BY DEF LockOrder, Serving, Release, Goto, blockVars, lockVars, localVars
<1>11. Requests'
  BY DEF Requests, Queued, Waiting, Served, Starting, Release, Goto, blockVars,
     lockVars, localVars
<1>. QED
  BY <1>1, <1>2, <1>3, <1>4, <1>5, <1>6, <1>7, <1>8, <1>9, <1>10, <1>11 DEF IInv

(* The next in the queue of the lock may enter. *)
LEMMA LeaveStep ==
  ASSUME NEW t \in Threads, IInv, Leave(t)
  PROVE  IInv'
<1>. /\ TypeOK /\ Blocks /\ Counted /\ Ownership /\ OwnNodes /\ Chain
     /\ CombinerPosition /\ OneGrant /\ OneCompetitorPerNode /\ LockOrder /\ Requests
     /\ ConstantsAssumption /\ DOMAIN arg = Threads
  BY DEF IInv
<1>1. TypeOK' /\ DOMAIN arg' = Threads
  BY DEF TypeOK, PCs, CentralLock!Leave, Leave, Goto, blockVars, nodeVars,
     lockVars, localVars
<1>2. Blocks'
  BY DEF Blocks, Leave, Goto, blockVars, nodeVars, lockVars, localVars
<1>3. Counted'
  BY CountedSame DEF Started, Starting, Leave, Goto, blockVars, nodeVars,
     lockVars, localVars
<1>4. Ownership'
  BY DEF Ownership, Started, Own, Queued, Fresh, Starting, Leave, Goto, blockVars,
     nodeVars, lockVars, localVars
<1>5. OwnNodes'
  BY DEF OwnNodes, Queued, Starting, Leave, Goto, blockVars, nodeVars, lockVars,
     localVars
<1>6. Chain'
  <2>1. \A v \in Threads : /\ Queued(v)' <=> Queued(v)
                           /\ Waiting(v)' <=> Waiting(v)
                           /\ Successor(v)' = Successor(v)
    BY DEF TypeOK, Queued, Waiting, Successor, Starting, Leave, Goto, nodeVars,
       localVars
  <2>2. \A n : InQueue(n)' <=> InQueue(n)
    BY <2>1 DEF InQueue, Leave, localVars
  <2>. QED
    BY <2>1, <2>2 DEF Chain, Leave, nodeVars
<1>7. CombinerPosition'
  BY DEF CombinerPosition, InQueue, Queued, Waiting, First, Combining, Serving,
     Starting, Successor, Leave, Goto, blockVars, nodeVars, lockVars, localVars
<1>8. OneGrant'
  BY DEF OneGrant, InQueue, Queued, Grant, Combining, Serving, Starting, Leave,
     Goto, blockVars, nodeVars, lockVars, localVars
<1>9. OneCompetitorPerNode'
  BY DEF OneCompetitorPerNode, Serving, Leave, Goto, blockVars, nodeVars,
     lockVars, localVars
<1>10. LockOrder'
  <2>1. /\ t \in inside /\ inside' = inside \ {t} /\ queue' = Tail(queue)
        /\ pc[t] = "leave" /\ pc' = [pc EXCEPT ![t] = "return"]
    BY DEF Leave, Goto, CentralLock!Leave
  <2>2. /\ Len(queue) > 0 /\ queue[1] = t /\ inside' = {}
        /\ Len(queue) \in Nat /\ queue \in Seq(Threads)
    BY <2>1 DEF LockOrder
  <2>3. /\ queue' \in Seq(Threads) /\ Len(queue') = Len(queue) - 1
        /\ DOMAIN queue' = 1 .. Len(queue) - 1 /\ DOMAIN queue = 1 .. Len(queue)
        /\ \A i \in DOMAIN queue' : queue'[i] = queue[i + 1]
    BY <2>1, <2>2
  <2>4. \A i, j \in DOMAIN queue' : queue'[i] = queue'[j] => i = j
    BY <2>2, <2>3 DEF LockOrder
  <2>5. \A v \in Threads :
          (\E i \in DOMAIN queue' : queue'[i] = v) <=> (\E i \in DOMAIN queue : queue[i] = v) /\ v # t
    <3>1. \A v \in Threads :
            (\E i \in DOMAIN queue' : queue'[i] = v) => (\E i \in DOMAIN queue : queue[i] = v) /\ v # t
      BY <2>2, <2>3 DEF LockOrder
    <3>2. ASSUME NEW v \in Threads, v # t, NEW i \in DOMAIN queue, queue[i] = v
          PROVE  \E j \in DOMAIN queue' : queue'[j] = v
      <4>1. i # 1 /\ i - 1 \in DOMAIN queue'
        BY <2>2, <2>3, <3>2
      <4>. QED
        BY <2>2, <2>3, <3>2, <4>1
    <3>. QED
      BY <3>1, <3>2
  <2>6. \A v \in Threads :
          (\E i \in DOMAIN queue' : queue'[i] = v) <=> pc'[v] \in {"enter", "leave"} \cup Serving
    BY <2>1, <2>5 DEF LockOrder, TypeOK, Serving
  <2>7. \A v \in Threads : v \in inside' <=> pc'[v] \in Serving \cup {"leave"}
    BY <2>1 DEF LockOrder, TypeOK, Serving
  <2>. QED
    BY <2>2, <2>3, <2>4, <2>6, <2>7 DEF LockOrder
<1>11. Requests'
  BY DEF Requests, Queued, Waiting, Served, Starting, Leave, Goto, blockVars,
     nodeVars, lockVars, localVars
<1>. QED
  BY <1>1, <1>2, <1>3, <1>4, <1>5, <1>6, <1>7, <1>8, <1>9, <1>10, <1>11 DEF IInv

(* A thread whose request has been served leaves the queue: it leaves the  *)
(* part still to be served as it is. *)
LEMMA ReturnStep ==
  ASSUME NEW t \in Threads, NEW from \in {"check", "return"}, IInv,
         completed[cur[t]], Return(t, from)
  PROVE  IInv'
<1>. /\ TypeOK /\ Blocks /\ Counted /\ Ownership /\ OwnNodes /\ Chain
     /\ CombinerPosition /\ OneGrant /\ OneCompetitorPerNode /\ LockOrder /\ Requests
     /\ ConstantsAssumption /\ DOMAIN arg = Threads
  BY DEF IInv
<1>a. /\ pc[t] = from /\ pc' = [pc EXCEPT ![t] = "idle"] /\ cur' = [cur EXCEPT ![t] = NULL]
      /\ p' = [p EXCEPT ![t] = NULL] /\ tmp_next' = [tmp_next EXCEPT ![t] = NULL]
      /\ counter' = [counter EXCEPT ![t] = 0] /\ arg' = [arg EXCEPT ![t] = NULL]
      /\ result' = [result EXCEPT ![t] = arg_ret[cur[t]]]
      /\ UNCHANGED <<blockVars, tail, nodeVars, lockVars, state, next_node>>
  BY DEF Return, Goto
<1>b. \A v \in Threads : v # t => /\ pc'[v] = pc[v] /\ cur'[v] = cur[v] /\ p'[v] = p[v]
                                  /\ tmp_next'[v] = tmp_next[v] /\ counter'[v] = counter[v]
                                  /\ arg'[v] = arg[v]
  BY <1>a DEF TypeOK
<1>c. pc'[t] = "idle" /\ cur'[t] = NULL /\ counter'[t] = 0
  BY <1>a DEF TypeOK
<1>d. Queued(t) /\ next_node[t] = cur[t] /\ ~Queued(t)' /\ Started(t)' /\ Started(t)
  BY <1>a, <1>c DEF OwnNodes, Queued, Started, Starting
<1>e. \A v \in Threads : /\ Own(v)' = Own(v)
                         /\ Started(v)' <=> Started(v)
                         /\ Queued(v)' <=> Queued(v) /\ v # t
  BY <1>a, <1>b, <1>d DEF Own, Queued, Started
<1>f. \A v \in Threads : /\ Waiting(v)' <=> Waiting(v)
                         /\ Waiting(v) => Successor(v)' = Successor(v) /\ v # t
  BY <1>a, <1>b, <1>e DEF Waiting, Successor, nodeVars
<1>g. \A n \in Nodes : /\ InQueue(n)' => InQueue(n)
                       /\ ~completed[n] => (InQueue(n)' <=> InQueue(n))
  BY <1>a, <1>b, <1>e DEF InQueue
<1>h. \A n \in Nodes : (Grant(n)' <=> Grant(n)) /\ (First(n) => First(n)')
  BY <1>a, <1>f, <1>g DEF Grant, First, nodeVars
<1>1. TypeOK' /\ DOMAIN arg' = Threads
  <2>1. pc' \in [Threads -> PCs] /\ counter' \in [Threads -> 0 .. HelpBound]
    BY <1>a, HelpBoundType DEF TypeOK, PCs
  <2>. QED
    BY <1>a, <2>1 DEF TypeOK, blockVars, nodeVars, lockVars
<1>2. Blocks'
  BY <1>a, <1>b, <1>d DEF Blocks, Started, Starting, blockVars, nodeVars
<1>3. Counted'
  BY <1>a, <1>e, CountedSame DEF blockVars
<1>4. Ownership'
  <2>1. \A n : Fresh(n)' <=> Fresh(n)
    BY <1>a DEF Fresh, blockVars
  <2>. QED
    BY <1>a, <1>b, <1>c, <1>d, <1>e, <2>1 DEF Ownership, blockVars
<1>5. OwnNodes'
  BY <1>a, <1>b, <1>c, <1>e DEF OwnNodes, Combining, Serving, nodeVars
<1>6. Chain'
  BY <1>a, <1>f, <1>g DEF Chain, nodeVars
<1>7. CombinerPosition'
  <2>1. \A v \in Threads : pc'[v] \in Combining => v # t /\ pc[v] \in Combining /\ p[v] \in Nodes
    BY <1>b, <1>c DEF CombinerPosition, Combining, Serving
  <2>2. ASSUME NEW v \in Threads, v # t, pc[v] \in {"apply", "complete", "unlock"}
        PROVE  InQueue(p[v])'
    <3>1. InQueue(p[v]) /\ p[v] \in Nodes /\ Group(p[v]) = NodeOf[v]
      BY <2>2 DEF CombinerPosition, Combining, Serving
    <3>2. p[v] # cur[t] \/ p[v] = tail[Group(p[v])]
      <4>. SUFFICES ASSUME p[v] = cur[t] PROVE FALSE
        OBVIOUS
      <4>1. pc[v] = "unlock"
        BY <2>2 DEF CombinerPosition, Combining, Serving, First
      <4>2. locked[cur[t]] \/ cur[v] = cur[t]
        BY <2>2, <4>1 DEF CombinerPosition, Serving
      <4>3. ~locked[cur[t]]
        BY <1>a DEF OwnNodes, Combining
      <4>4. Own(v) = cur[v] /\ Own(t) = cur[t] /\ Started(v)
        BY <1>d, <4>1 DEF Own, Queued, Started, Starting
      <4>. QED
        BY <1>d, <2>2, <4>2, <4>3, <4>4 DEF Ownership
    <3>3. PICK n \in Nodes : n = p[v]
      BY <3>1
    <3>4. CASE n = tail[Group(n)]
      BY <1>a, <1>b, <2>2, <3>3, <3>4 DEF InQueue
    <3>5. CASE n # tail[Group(n)]
      <4>1. PICK u \in Threads : Queued(u) /\ cur[u] = n
        BY <3>1, <3>3, <3>5 DEF InQueue
      <4>2. u # t /\ p'[v] = n
        BY <1>b, <2>2, <3>2, <3>3, <3>5, <4>1
      <4>. QED
        BY <1>b, <1>e, <4>1, <4>2 DEF InQueue
    <3>. QED
      BY <3>4, <3>5
  <2>. QED
    BY <1>a, <1>b, <1>c, <1>h, <2>1, <2>2 DEF CombinerPosition, Combining,
       Serving, nodeVars
<1>8. OneGrant'
  BY <1>a, <1>b, <1>c, <1>h DEF OneGrant, Combining, Serving
<1>9. OneCompetitorPerNode'
  BY <1>b, <1>c DEF OneCompetitorPerNode, Serving
<1>10. LockOrder'
  BY <1>a, <1>b, <1>c DEF LockOrder, Serving, lockVars
<1>11. Requests'
  <2>1. \A v \in Threads : v # t /\ ~Served(v)' => ~Served(v)
    <3> SUFFICES ASSUME NEW v \in Threads, v # t, Served(v) PROVE Served(v)'
      OBVIOUS
    <3>1. \A c \in Threads : pc[c] = "complete" => c # t
      BY <1>a
    <3>. QED
      BY <1>a, <1>b, <3>1 DEF Served, nodeVars
  <2>. QED
    BY <1>a, <1>b, <1>f, <2>1 DEF Requests, nodeVars
<1>. QED
  BY <1>1, <1>2, <1>3, <1>4, <1>5, <1>6, <1>7, <1>8, <1>9, <1>10, <1>11 DEF IInv

(* The return of a thread that was helped. *)
LEMMA ReturnHelpedStep ==
  ASSUME NEW t \in Threads, IInv, ReturnHelped(t)
  PROVE  IInv'
  BY ReturnStep DEF ReturnHelped

(* The return of a combiner, whose own request has been served. *)
LEMMA ReturnCombinerStep ==
  ASSUME NEW t \in Threads, IInv, ReturnCombiner(t)
  PROVE  IInv'
<1>1. completed[cur[t]]
  BY DEF IInv, OwnNodes, ReturnCombiner, Return, Goto
<1>. QED
  BY <1>1, ReturnStep DEF ReturnCombiner

(* The invariant only depends on the variables of the specification. *)
LEMMA StutterStep ==
  ASSUME IInv, UNCHANGED vars
  PROVE  IInv'
<1>. /\ TypeOK /\ Blocks /\ Counted /\ Ownership /\ OwnNodes /\ Chain
     /\ CombinerPosition /\ OneGrant /\ OneCompetitorPerNode /\ LockOrder /\ Requests
     /\ ConstantsAssumption /\ DOMAIN arg = Threads
  BY DEF IInv
<1>. USE DEF vars, blockVars, nodeVars, lockVars, localVars
<1>1. TypeOK' /\ DOMAIN arg' = Threads
  BY DEF TypeOK
<1>2. Blocks'
  BY DEF Blocks
<1>3. Counted'
  BY CountedSame DEF Started
<1>4. Ownership'
  BY DEF Ownership, Own, Started, Queued, Fresh
<1>5. OwnNodes'
  BY DEF OwnNodes, Queued
<1>6. Chain'
  BY DEF Chain, Waiting, Queued, InQueue, Successor
<1>7. CombinerPosition'
  BY DEF CombinerPosition, First, Waiting, Queued, InQueue, Successor
<1>8. OneGrant'
  BY DEF OneGrant, Grant, InQueue, Queued
<1>9. OneCompetitorPerNode'
  BY DEF OneCompetitorPerNode
<1>10. LockOrder'
  BY DEF LockOrder
<1>11. Requests'
  BY DEF Requests, Waiting, Queued, Served
<1>. QED
  BY <1>1, <1>2, <1>3, <1>4, <1>5, <1>6, <1>7, <1>8, <1>9, <1>10, <1>11 DEF IInv

(* Nothing is installed and nobody has started. *)
LEMMA InitIInv == ConstantsAssumption /\ Init => IInv
<1>. SUFFICES ASSUME ConstantsAssumption, Init PROVE IInv
  OBVIOUS
<1>1. TypeOK /\ DOMAIN arg = Threads
  BY HelpBoundType, Constants DEF Init, TypeOK, PCs, Starting, CentralLock!Init
<1>2. \A t \in Threads : ~Started(t) /\ ~Queued(t)
  BY DEF Init, Started, Queued, Starting
<1>3. Blocks
  BY Constants DEF Init, Blocks
<1>4. Counted
  <2>1. \A g \in NumaNodes : Takers(g) = {}
    BY <1>2 DEF Takers
  <2>. QED
    BY <2>1, FS_EmptySet DEF Init, Counted
<1>5. Ownership
  BY <1>2 DEF Init, Ownership
<1>6. OwnNodes /\ CombinerPosition /\ OneCompetitorPerNode
  BY <1>2 DEF Init, OwnNodes, CombinerPosition, OneCompetitorPerNode, Combining,
     Serving
<1>7. Chain /\ Requests
  BY <1>2 DEF Init, Chain, Requests, Waiting
<1>8. OneGrant
  <2>1. \A n \in Nodes : ~InQueue(n)
    BY <1>2, Constants DEF Init, InQueue
  <2>. QED
    BY <2>1 DEF OneGrant, Grant
<1>9. LockOrder
  BY DEF Init, LockOrder, Serving, CentralLock!Init
<1>. QED
  BY <1>1, <1>3, <1>4, <1>5, <1>6, <1>7, <1>8, <1>9 DEF IInv

(* Every step preserves the invariant. *)
LEMMA NextIInv == IInv /\ [Next]_vars => IInv'
<1>. SUFFICES ASSUME IInv, [Next]_vars PROVE IInv'
  OBVIOUS
<1>1. ASSUME NEW t \in Threads, NEW a \in Args, Call(t, a) PROVE IInv'
  BY <1>1, CallStep
<1>2. ASSUME NEW t \in Threads, Start(t) PROVE IInv'
  BY <1>2, FindBlockStep, AllocBlockStep, InstallBlockStep, FreeBlockStep,
     InitTailStep,
     TakeNodeStep DEF Start
<1>3. ASSUME NEW t \in Threads, Step(t) PROVE IInv'
  BY <1>3, SwapStep, AnnounceStep, LinkStep, StopSpinningStep, ReturnHelpedStep,
     BecomeCombinerStep, JoinStep, EnterStep, VisitStep, StopCombiningStep, ApplyStep,
     CompleteStep, UnlockStep, ReleaseStep, LeaveStep, ReturnCombinerStep
     DEF Step
<1>4. CASE UNCHANGED vars
  BY <1>4, StutterStep
<1>. QED
  BY <1>1, <1>2, <1>3, <1>4 DEF Next

(* The invariant holds in every reachable state. *)
LEMMA IInvCorrect ==
  ASSUME ConstantsAssumption
  PROVE  Spec => []IInv
<1>1. Init => IInv
  BY InitIInv
<1>. QED
  BY <1>1, NextIInv, PTL DEF Spec

(* The state of H-Synch always has its type. *)
THEOREM TypeCorrect ==
  ASSUME ConstantsAssumption
  PROVE  Spec => []TypeOK
<1>1. IInv => TypeOK
  BY DEF IInv
<1>. QED
  BY <1>1, IInvCorrect, PTL

(* sfunc is never run by two threads at once, although there is a combiner  *)
(* for each NUMA node: only the head of the central queue serves.           *)
THEOREM SingleServerHolds ==
  ASSUME ConstantsAssumption
  PROVE  Spec => []SingleServer
<1>1. IInv => SingleServer
  BY DEF IInv, LockOrder, SingleServer
<1>. QED
  BY <1>1, IInvCorrect, PTL

(* A NUMA node has one thread at a time that queues for the central lock.   *)
THEOREM OneCompetitorHolds ==
  ASSUME ConstantsAssumption
  PROVE  Spec => []OneCompetitorPerNode
<1>1. IInv => OneCompetitorPerNode
  BY DEF IInv
<1>. QED
  BY <1>1, IInvCorrect, PTL

(* A thread that has started holds its own node, and others hold none.      *)
LEMMA HeldOnce == IInv => NodesAreHeldOnce
<1>. SUFFICES ASSUME IInv PROVE NodesAreHeldOnce
  OBVIOUS
<1>. Ownership /\ TypeOK /\ ConstantsAssumption
  BY DEF IInv
<1>1. \A t \in Threads : Started(t) => Held(t) = Own(t)
  BY Constants DEF Ownership, Held, Own, Queued, Started
<1>2. \A t \in Threads : ~Started(t) => Held(t) = NULL
  BY DEF Ownership, Held, Queued, Started
<1>. QED
  BY <1>1, <1>2 DEF NodesAreHeldOnce, Ownership

(* Announcement nodes are shared out among the threads of a NUMA node and   *)
(* swapped between them, and are never used by two of them.                 *)
THEOREM NodesAreHeldOnceHolds ==
  ASSUME ConstantsAssumption
  PROVE  Spec => []NodesAreHeldOnce
BY HeldOnce, IInvCorrect, PTL
-----------------------------------------------------------------------------
(* A thread's abstract operation is left alone by a step that neither takes *)
(* it in or out of the call, nor serves it, nor touches its answer.         *)
LEMMA SameAbstractOp ==
  ASSUME NEW t \in Threads,
         pc'[t] \in Starting \cup {"idle"} <=> pc[t] \in Starting \cup {"idle"},
         pc[t] \in Starting \cup {"idle"} \/
           /\ Served(t)' <=> Served(t)
           /\ Served(t) => arg_ret'[cur'[t]] = arg_ret[cur[t]]
           /\ arg'[t] = arg[t]
  PROVE  AbstractOp(t)' = AbstractOp(t)
  BY DEF AbstractOp

(* A thread is served only while it is in the queue. *)
LEMMA ServedQueued ==
  ASSUME NEW t \in Threads, Ownership, ConstantsAssumption
  PROVE  /\ Served(t) => Queued(t)
         /\ Queued(t) => cur[t] \in Nodes /\ cur[t] # NULL
  BY Constants DEF Served, Ownership, Own, Queued, Started

(* The initial states are initial states of the atomic object. *)
LEMMA InitRefinement == Init => Ob!Init
  BY DEF Init, Ob!Init, Ob!Idle, AbstractOp, Starting

(* A call of HSynchApplyOp is a call of the atomic object. *)
LEMMA CallRefinement ==
  ASSUME NEW t \in Threads, NEW a \in Args, IInv, Call(t, a)
  PROVE  Ob!Call(t, a)
<1>. TypeOK /\ Ownership /\ ConstantsAssumption /\ DOMAIN arg = Threads
  BY DEF IInv
<1>a. /\ pc[t] = "idle" /\ pc' = [pc EXCEPT ![t] = "swap"] /\ arg' = [arg EXCEPT ![t] = a]
      /\ completed' = [completed EXCEPT ![next_node[t]] = FALSE] /\ cur[t] = NULL
      /\ next_node[t] \in Nodes /\ Own(t) = next_node[t] /\ Started(t)
      /\ UNCHANGED <<arg_ret, cur, p>>
  BY DEF Call, Goto, Ownership, Own, Queued, Started, Starting
<1>1. \A u \in Threads \ {t} : AbstractOp(u)' = AbstractOp(u)
  <2>. SUFFICES ASSUME NEW u \in Threads, u # t
                PROVE  AbstractOp(u)' = AbstractOp(u)
    OBVIOUS
  <2>1. Queued(u) => cur[u] # next_node[t]
    BY <1>a DEF Ownership, Own, Started, Queued
  <2>2. \A c \in Threads : pc'[c] = "complete" <=> pc[c] = "complete"
    BY <1>a DEF TypeOK
  <2>3. cur[u] # NULL => Queued(u) /\ cur[u] \in Nodes
    BY ServedQueued DEF Ownership
  <2>4. Served(u)' <=> Served(u)
    BY <1>a, <2>1, <2>2, <2>3 DEF TypeOK, Served
  <2>. QED
    BY <1>a, <2>4, SameAbstractOp DEF TypeOK
<1>2. AbstractOp(t) = Ob!Idle
  BY <1>a DEF AbstractOp, Ob!Idle
<1>3. AbstractOp(t)' = Ob!Pending(a)
  BY <1>a DEF TypeOK, AbstractOp, Ob!Pending, Served, Starting
<1>. QED
  BY <1>1, <1>2, <1>3 DEF Ob!Call, Call

(* sfunc runs for the thread whose request is in the combiner's node p. *)
LEMMA ApplyRefinement ==
  ASSUME NEW t \in Threads, IInv, Apply(t)
  PROVE  \E u \in Threads : Ob!Apply(u)
<1>. /\ TypeOK /\ Ownership /\ OwnNodes /\ CombinerPosition /\ LockOrder /\ Requests
     /\ ConstantsAssumption
  BY DEF IInv
<1>a. /\ pc[t] = "apply" /\ p[t] \in Nodes /\ First(p[t]) /\ p[t] # tail[NodeOf[t]]
      /\ Group(p[t]) = NodeOf[t]
      /\ pc' = [pc EXCEPT ![t] = "complete"]
      /\ state' = NewState(state, arg_ret[p[t]], pid[p[t]])
      /\ arg_ret' = [arg_ret EXCEPT ![p[t]] = Result(state, arg_ret[p[t]], pid[p[t]])]
      /\ UNCHANGED <<completed, arg, cur, p, result>>
  BY DEF Apply, Goto, CombinerPosition, Combining, Serving, localVars
<1>1. PICK u \in Threads : Queued(u) /\ cur[u] = p[t]
  BY <1>a DEF First, InQueue
<1>b. \A c \in Threads : pc[c] # "complete"
  BY <1>a DEF LockOrder, Serving
<1>2. ~completed[cur[u]] /\ ~Served(u)
  BY <1>a, <1>b, <1>1 DEF First, Served
<1>3. pc[u] # "announce"
  <2>1. next[p[t]] # NULL
    BY <1>a, Constants DEF CombinerPosition
  <2>. QED
    BY <1>1, <2>1 DEF OwnNodes
<1>4. arg_ret[cur[u]] = arg[u] /\ pid[cur[u]] = u
  BY <1>1, <1>2, <1>3 DEF Requests, Waiting
<1>5. AbstractOp(u) = Ob!Pending(arg[u])
  BY <1>1, <1>2 DEF AbstractOp, Ob!Pending, Queued
<1>c. pc'[t] = "complete" /\ \A v \in Threads : v # t => pc'[v] = pc[v]
  BY <1>a DEF TypeOK
<1>d. \A v \in Threads : pc'[v] \in Starting \cup {"idle"} <=> pc[v] \in Starting \cup {"idle"}
  BY <1>a, <1>c DEF Starting
<1>6. Served(u)' /\ pc'[u] \notin Starting \cup {"idle"} /\ cur'[u] = p[t]
  BY <1>a, <1>c, <1>d, <1>1, ServedQueued DEF Served, Queued
<1>7. AbstractOp(u)' = Ob!Done(Result(state, arg[u], u))
  BY <1>a, <1>1, <1>4, <1>6 DEF TypeOK, AbstractOp, Ob!Done
<1>8. \A v \in Threads \ {u} : AbstractOp(v)' = AbstractOp(v)
  <2>. SUFFICES ASSUME NEW v \in Threads, v # u
                PROVE  AbstractOp(v)' = AbstractOp(v)
    OBVIOUS
  <2>1. Queued(v) => cur[v] # p[t]
    BY <1>1 DEF Ownership, Own, Started, Queued
  <2>2. cur[v] # NULL => Queued(v)
    BY DEF Ownership
  <2>3. Served(v)' <=> Served(v)
    BY <1>a, <1>b, <1>c, <2>1, <2>2 DEF Served
  <2>4. Served(v) => arg_ret'[cur'[v]] = arg_ret[cur[v]]
    BY <1>a, <2>1, ServedQueued DEF TypeOK
  <2>. QED
    BY <1>a, <1>d, <2>3, <2>4, SameAbstractOp
<1>9. /\ state' = NewState(state, arg[u], u)
      /\ result' = result
  BY <1>a, <1>1, <1>4
<1>10. [v \in Threads |-> AbstractOp(v)]'
         = [[v \in Threads |-> AbstractOp(v)] EXCEPT
              ![u] = Ob!Done(Result(state, arg[u], u))]
  BY <1>7, <1>8
<1>11. LET op == [v \in Threads |-> AbstractOp(v)]
       IN  op[u].status = "pending" /\ op[u].arg = arg[u]
  BY <1>5 DEF Ob!Pending
<1>12. Ob!Apply(u)
  BY <1>9, <1>10, <1>11, Zenon DEF Ob!Apply
<1>. QED
  BY <1>12

(* A return gives the answer sfunc gave to the request of the thread. *)
LEMMA ReturnRefinement ==
  ASSUME NEW t \in Threads, NEW from \in {"check", "return"}, IInv,
         completed[cur[t]], Return(t, from)
  PROVE  Ob!Return(t)
<1>. TypeOK /\ Ownership /\ ConstantsAssumption /\ DOMAIN arg = Threads
  BY DEF IInv
<1>a. /\ pc[t] = from /\ pc' = [pc EXCEPT ![t] = "idle"] /\ cur' = [cur EXCEPT ![t] = NULL]
      /\ p' = [p EXCEPT ![t] = NULL] /\ arg' = [arg EXCEPT ![t] = NULL]
      /\ UNCHANGED <<completed, arg_ret>>
  BY DEF Return, Goto, nodeVars
<1>b. Queued(t) /\ cur[t] # NULL
  BY <1>a, ServedQueued DEF Queued, Starting
<1>1. AbstractOp(t) = Ob!Done(arg_ret[cur[t]])
  BY <1>a, <1>b DEF AbstractOp, Ob!Done, Served, Starting
<1>2. AbstractOp(t)' = Ob!Idle
  BY <1>a DEF TypeOK, AbstractOp, Ob!Idle
<1>3. \A u \in Threads \ {t} : AbstractOp(u)' = AbstractOp(u)
  <2>. SUFFICES ASSUME NEW u \in Threads, u # t
                PROVE  AbstractOp(u)' = AbstractOp(u)
    OBVIOUS
  <2>1. /\ \A c \in Threads : pc'[c] = "complete" <=> pc[c] = "complete"
        /\ \A c \in Threads : pc[c] = "complete" => p'[c] = p[c]
        /\ cur'[u] = cur[u] /\ arg'[u] = arg[u] /\ pc'[u] = pc[u]
    BY <1>a DEF TypeOK
  <2>2. Served(u)' <=> Served(u)
    BY <1>a, <2>1 DEF Served
  <2>. QED
    BY <1>a, <2>1, <2>2, SameAbstractOp
<1>4. [u \in Threads |-> AbstractOp(u)]'
        = [[u \in Threads |-> AbstractOp(u)] EXCEPT ![t] = Ob!Idle]
  BY <1>2, <1>3
<1>5. state' = state /\ result' = [result EXCEPT ![t] = arg_ret[cur[t]]]
  BY DEF Return
<1>6. LET op == [u \in Threads |-> AbstractOp(u)]
      IN  op[t].status = "done" /\ op[t].ret = arg_ret[cur[t]]
  BY <1>1 DEF Ob!Done
<1>. QED
  BY <1>4, <1>5, <1>6, Zenon DEF Ob!Return

(* Starting and moving requests about is invisible to the callers. *)
LEMMA OtherStepsStutter ==
  ASSUME NEW t \in Threads, IInv,
         \/ Start(t)
         \/ Swap(t) \/ Announce(t) \/ Link(t) \/ StopSpinning(t)
         \/ BecomeCombiner(t) \/ Join(t) \/ Enter(t) \/ Visit(t) \/ StopCombining(t)
         \/ Complete(t) \/ Unlock(t) \/ Release(t) \/ Leave(t)
  PROVE  UNCHANGED Ob!vars
<1>. /\ TypeOK /\ Blocks /\ Ownership /\ OwnNodes /\ Chain /\ CombinerPosition
     /\ LockOrder /\ ConstantsAssumption
  BY DEF IInv
<1>. USE DEF blockVars, nodeVars, lockVars, localVars, Goto
<1>1. UNCHANGED <<state, arg, result>>
  BY DEF Start, FindBlock, AllocBlock, InstallBlock, FreeBlock, InitTail,
     TakeNode, Swap,
     Announce, Link, StopSpinning, BecomeCombiner, Join, Enter, Visit, StopCombining,
     Complete, Unlock, Release, Leave
<1>2. \A u \in Threads : AbstractOp(u)' = AbstractOp(u)
  <2>. SUFFICES ASSUME NEW u \in Threads PROVE AbstractOp(u)' = AbstractOp(u)
    OBVIOUS
  <2>1. pc'[u] \in Starting \cup {"idle"} <=> pc[u] \in Starting \cup {"idle"}
    BY DEF TypeOK, Starting, Start, FindBlock, AllocBlock, InstallBlock,
       FreeBlock, InitTail,
       TakeNode, Swap, Announce, Link, StopSpinning, BecomeCombiner, Join, Enter, Visit,
       StopCombining, Complete, Unlock, Release, Leave
  <2>2. /\ Served(u)' <=> Served(u)
        /\ Served(u) => arg_ret'[cur'[u]] = arg_ret[cur[u]]
    <3>1. CASE Swap(t)
      <4>1. /\ tail[NodeOf[t]] \in Nodes /\ Group(tail[NodeOf[t]]) = NodeOf[t]
            /\ ~completed[tail[NodeOf[t]]] /\ cur[t] = NULL
        BY <3>1, Constants DEF Swap, TypeOK, Blocks, Ownership, Chain, Queued
      <4>2. \A c \in Threads : pc[c] = "complete" => p[c] # tail[NodeOf[t]]
        BY <4>1 DEF CombinerPosition, Combining, Serving
      <4>3. cur' = [cur EXCEPT ![t] = tail[NodeOf[t]]] /\ UNCHANGED <<completed, p, arg_ret>>
        BY <3>1 DEF Swap
      <4>4. \A c \in Threads : pc'[c] = "complete" <=> pc[c] = "complete"
        BY <3>1 DEF Swap, TypeOK
      <4>. QED
        BY <4>1, <4>2, <4>3, <4>4 DEF Served, TypeOK
    <3>2. CASE Announce(t)
      <4>1. /\ Queued(t) /\ ~completed[cur[t]] /\ next[cur[t]] = NULL /\ cur[t] \in Nodes
            /\ UNCHANGED <<completed, p, cur>> /\ arg_ret' = [arg_ret EXCEPT ![cur[t]] = arg[t]]
        BY <3>2, ServedQueued DEF Announce, OwnNodes, Queued, Starting
      <4>2. \A c \in Threads : pc'[c] = "complete" <=> pc[c] = "complete"
        BY <3>2 DEF Announce, TypeOK
      <4>3. \A c \in Threads : pc[c] = "complete" => next[p[c]] # NULL
        BY Constants DEF CombinerPosition
      <4>4. ~Served(t)
        BY <4>1, <4>3 DEF Served
      <4>5. Served(u) => Queued(u) /\ cur[u] # cur[t]
        BY <4>1, <4>4, ServedQueued DEF Ownership, Own, Started, Queued
      <4>. QED
        BY <4>1, <4>2, <4>5, ServedQueued DEF Served, TypeOK
    <3>3. CASE Complete(t)
      <4>1. /\ p[t] \in Nodes /\ pc[t] = "complete" /\ UNCHANGED <<p, cur, arg_ret>>
            /\ completed' = [completed EXCEPT ![p[t]] = TRUE] /\ pc' = [pc EXCEPT ![t] = "unlock"]
        BY <3>3 DEF CombinerPosition, Combining, Serving, Complete
      <4>2. \A c \in Threads : pc[c] = "complete" <=> c = t
        BY <4>1 DEF LockOrder, Serving
      <4>3. \A c \in Threads : pc'[c] # "complete"
        BY <4>1, <4>2 DEF TypeOK
      <4>4. \A n \in Nodes : completed'[n] <=> completed[n] \/ n = p[t]
        BY <4>1 DEF TypeOK
      <4>5. cur[u] # NULL => cur[u] \in Nodes
        BY DEF TypeOK
      <4>. QED
        BY <4>1, <4>2, <4>3, <4>4, <4>5 DEF Served
    <3>4. ASSUME UNCHANGED <<completed, cur, arg_ret>>,
                 \A c \in Threads : pc'[c] = "complete" <=> pc[c] = "complete",
                 \A c \in Threads : pc[c] = "complete" => p'[c] = p[c]
          PROVE  /\ Served(u)' <=> Served(u)
                 /\ Served(u) => arg_ret'[cur'[u]] = arg_ret[cur[u]]
      BY <3>4 DEF Served
    <3>5. CASE Start(t)
      BY <3>4, <3>5 DEF TypeOK, Start, FindBlock, AllocBlock, InstallBlock,
         FreeBlock,
         InitTail, TakeNode
    <3>6. CASE Link(t) \/ StopSpinning(t) \/ Join(t) \/ Enter(t) \/ Leave(t)
      BY <3>4, <3>6 DEF TypeOK, Link, StopSpinning, Join, Enter, Leave
    <3>7. CASE BecomeCombiner(t)
      BY <3>4, <3>7 DEF TypeOK, BecomeCombiner
    <3>8. CASE Visit(t)
      <4>1. /\ pc[t] = "loop" /\ pc' = [pc EXCEPT ![t] = "apply"]
            /\ UNCHANGED <<completed, cur, arg_ret, p>>
        BY <3>8 DEF Visit
      <4>2. \A c \in Threads : pc'[c] = "complete" <=> pc[c] = "complete"
        BY <4>1 DEF TypeOK
      <4>. QED
        BY <4>1, <4>2, <3>4
    <3>9. CASE StopCombining(t) \/ Release(t)
      BY <3>4, <3>9 DEF TypeOK, StopCombining, Release
    <3>10. CASE Unlock(t)
      BY <3>4, <3>10 DEF TypeOK, Unlock
    <3>. QED
      BY <3>1, <3>2, <3>3, <3>5, <3>6, <3>7, <3>8, <3>9, <3>10
  <2>. QED
    BY <1>1, <2>1, <2>2, SameAbstractOp
<1>. QED
  BY <1>1, <1>2 DEF Ob!vars

(* Every step is a step of the atomic object, or none. *)
LEMMA NextRefinement ==
  IInv /\ [Next]_vars => [Ob!Next]_(Ob!vars)
<1>. SUFFICES ASSUME IInv, [Next]_vars PROVE [Ob!Next]_(Ob!vars)
  OBVIOUS
<1>1. ASSUME NEW t \in Threads, NEW a \in Args, Call(t, a) PROVE Ob!Next
  BY <1>1, CallRefinement DEF Ob!Next
<1>2. ASSUME NEW t \in Threads, Step(t) PROVE Ob!Next \/ UNCHANGED Ob!vars
  <2>1. CASE Apply(t)
    BY <2>1, ApplyRefinement DEF Ob!Next
  <2>2. CASE ReturnHelped(t)
    BY <2>2, ReturnRefinement DEF ReturnHelped, Ob!Next
  <2>3. CASE ReturnCombiner(t)
    <3>1. completed[cur[t]]
      BY <2>3 DEF IInv, OwnNodes, ReturnCombiner, Return, Goto
    <3>. QED
      BY <2>3, <3>1, ReturnRefinement DEF ReturnCombiner, Ob!Next
  <2>. QED
    BY <1>2, <2>1, <2>2, <2>3, OtherStepsStutter DEF Step
<1>3. ASSUME NEW t \in Threads, Start(t) PROVE UNCHANGED Ob!vars
  BY <1>3, OtherStepsStutter
<1>4. CASE UNCHANGED vars
  <2>1. \A u \in Threads : AbstractOp(u)' = AbstractOp(u)
    BY <1>4 DEF vars, nodeVars, localVars, AbstractOp, Served
  <2>. QED
    BY <1>4, <2>1 DEF vars, localVars, Ob!vars
<1>. QED
  BY <1>1, <1>2, <1>3, <1>4 DEF Next

(* H-Synch is linearizable, whatever sfunc is and wherever threads are      *)
(* placed: HSynchApplyOp is an atomic application of sfunc, once for each   *)
(* call, answered to its caller.                                            *)
THEOREM Linearizable ==
  ASSUME ConstantsAssumption
  PROVE  Spec => ImplementsAtomicObject
<1>1. Spec => []IInv
  BY IInvCorrect
<1>. QED
  BY <1>1, InitRefinement, NextRefinement, PTL
     DEF Spec, ImplementsAtomicObject, Ob!Spec
=============================================================================
