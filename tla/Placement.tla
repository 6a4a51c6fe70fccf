----------------------------- MODULE Placement -----------------------------
(***************************************************************************)
(* Where threads run (libconcurrent/primitives/threadtools.c), and the     *)
(* topology that H-Synch derives from it (HSynchStructInit and the first   *)
(* half of HSynchThreadStateInit in hsynch.c, which give module HSynch its *)
(* constants NodeOf and NodeSize). The code is that of a build with        *)
(* SYNCH_NUMA_SUPPORT, the default.                                        *)
(***************************************************************************)
EXTENDS Integers, FiniteSets

CONSTANTS
  Machines,      (* records of ncpus, the CPUs, nodes, the NUMA nodes, and *)
                 (* smt: are CPUs i and i + ncpus/2 siblings?              *)
  MaxThreads,    (* a bound on the threads                                 *)
  UserRegions,   (* does the user override the number of NUMA nodes?       *)
  NULL

(* The NUMA nodes of a machine are of one size, and with SMT each has whole *)
(* pairs of siblings. Machines with a single CPU are left out: there        *)
(* half_node_size below is 0, and the code divides by it                    *)
(* (threadtools.c:143).                                                     *)
ConstantsAssumption ==
  /\ MaxThreads \in Nat \ {0} /\ UserRegions \in BOOLEAN /\ NULL \notin Nat
  /\ \A m \in Machines :
       /\ m.nodes \in Nat \ {0} /\ m.ncpus \in Nat /\ m.ncpus > 1
       /\ m.ncpus % m.nodes = 0
       /\ m.smt => m.ncpus % (2 * m.nodes) = 0

FLAT == 1
NUMA_SPARSE == 2
NUMA_DENSE == 3
NUMA_SPARSE_SMT_PREFER == 4
NUMA_DENSE_SMT_PREFER == 5
POLICY_MAX == NUMA_DENSE_SMT_PREFER

HSYNCH_DEFAULT_NUMA_POLICY == 0

VARIABLES
  machine,
  schedule_policy,
  hsynch,           (* numa_policy, numa_nodes, numa_node_size             *)
  nthreads,
  preferred_core,   (* of each thread that has started                     *)
  preferred_node,
  node_of_thread    (* of each thread, in H-Synch                          *)

vars == <<machine, schedule_policy, hsynch, nthreads,
          preferred_core, preferred_node, node_of_thread>>

Pids == 0 .. MaxThreads - 1

(* Machines with one NUMA node or two, for TLC.                             *)
TwoSizes == [ncpus : {8, 12}, nodes : {1, 2}, smt : BOOLEAN]

-----------------------------------------------------------------------------
ncpus == machine.ncpus
nodes == machine.nodes
node_size == ncpus \div nodes
half_node_size == node_size \div 2

(* The node of a CPU, as the machine has it.                                *)
numa_node_of_cpu(c) ==
  IF machine.smt THEN (c % (ncpus \div 2)) \div half_node_size ELSE c \div node_size

(* "SMT or HyperThreading detected"                                         *)
SmtDetected == numa_node_of_cpu(0) = numa_node_of_cpu(ncpus \div 2)

(* The cores of the policies: without SMT, and NUMA_DENSE_SMT_PREFER;       *)
(* NUMA_SPARSE with SMT; NUMA_SPARSE_SMT_PREFER with SMT.                   *)
RoundRobin(pid) == pid \div nodes + (pid % nodes) * node_size

SparseHalf(cpu) == (cpu % nodes) * half_node_size + cpu \div nodes

Sparse(pid) ==
  IF pid >= ncpus \div 2
    THEN SparseHalf(pid - ncpus \div 2) + ncpus \div 2
    ELSE SparseHalf(pid)

SparseSMTPrefer(pid) == (pid % node_size) * half_node_size + pid \div (2 * nodes)

synchPreferredCoreOfThread(pid) ==
  LET core == CASE schedule_policy \in {FLAT, NUMA_DENSE} -> pid
                [] schedule_policy = NUMA_SPARSE /\ SmtDetected -> Sparse(pid)
                [] schedule_policy = NUMA_SPARSE_SMT_PREFER /\ SmtDetected ->
                     SparseSMTPrefer(pid)
                [] OTHER -> RoundRobin(pid)
  IN  core % ncpus

(* Mutant of NodeOfCore: SMT is not considered. *)
NodeOfCoreFlat(core) == core \div node_size

(* synchPreferredNumaNodeOfThread, for the preferred core of the thread.    *)
NodeOfCore(core) ==
  IF ~SmtDetected THEN core \div node_size
  ELSE IF core < ncpus \div 2 THEN core \div half_node_size
  ELSE (core - ncpus \div 2) \div half_node_size

(* HSynchStructInit: the topology for n threads and an argument regions.    *)
Topology(m, n, regions) ==
  LET r == IF regions > n THEN n ELSE regions
      size == (n \div m.nodes) + (n % m.nodes)
  IN  IF r = HSYNCH_DEFAULT_NUMA_POLICY
        THEN [numa_policy |-> TRUE, numa_nodes |-> m.nodes,
              numa_node_size |-> IF size < m.ncpus \div m.nodes
                                   THEN m.ncpus \div m.nodes ELSE size]
        ELSE [numa_policy |-> FALSE, numa_nodes |-> r,
              numa_node_size |-> IF n % r = 0 THEN n \div r ELSE 2 * (n \div r)]

(* The program starts no more threads than there are CPUs.                  *)
Init ==
  /\ machine \in Machines
  /\ schedule_policy = NUMA_SPARSE_SMT_PREFER      \* the default
  /\ nthreads \in {n \in 1 .. machine.ncpus : n <= MaxThreads}
  /\ hsynch \in {Topology(machine, nthreads, r) :
                   r \in IF UserRegions THEN 1 .. MaxThreads
                         ELSE {HSYNCH_DEFAULT_NUMA_POLICY}}
  /\ preferred_core = [t \in Pids |-> NULL]
  /\ preferred_node = [t \in Pids |-> NULL]
  /\ node_of_thread = [t \in Pids |-> NULL]

NoThreadYet == preferred_core[0] = NULL

(* synchSetThreadPlacementPolicy, before threads are started                *)
SetPolicy(policy) ==
  /\ NoThreadYet
  /\ schedule_policy' = IF policy > POLICY_MAX THEN POLICY_MAX ELSE policy
  /\ UNCHANGED <<machine, hsynch, nthreads, preferred_core, preferred_node, node_of_thread>>

(* HSynchThreadStateInit: the place of thread t in the topology.            *)
HSynchNodeOf(t) ==
  LET actual_per_manual == nodes \div hsynch.numa_nodes
      threads_per_node == nthreads \div hsynch.numa_nodes
  IN  IF hsynch.numa_policy THEN preferred_node'[t]
      ELSE IF ~(SmtDetected /\ ncpus > 1) THEN t \div hsynch.numa_node_size
      ELSE IF actual_per_manual # 0 THEN preferred_node'[t] \div actual_per_manual
      ELSE preferred_core'[t] \div threads_per_node

(* kthreadWrapper pins thread t (synchThreadPin of t modulo the CPUs), and  *)
(* the function it runs initialises H-Synch for it. Threads do so in any    *)
(* order, with the same outcome; here it is in that of their ids.           *)
Start(t) ==
  /\ t < nthreads
  /\ \A u \in Pids : preferred_core[u] = NULL <=> u >= t
  /\ preferred_core' = [preferred_core EXCEPT ![t] = synchPreferredCoreOfThread(t % ncpus)]
  /\ preferred_node' = [preferred_node EXCEPT ![t] = NodeOfCore(preferred_core'[t])]
  /\ node_of_thread' = [node_of_thread EXCEPT ![t] = HSynchNodeOf(t)]
  /\ UNCHANGED <<machine, schedule_policy, hsynch, nthreads>>

Next ==
  \/ \E policy \in FLAT .. POLICY_MAX + 1 : SetPolicy(policy)
  \/ \E t \in Pids : Start(t)

Spec == Init /\ [][Next]_vars

-----------------------------------------------------------------------------
Started == {t \in Pids : preferred_core[t] # NULL}
SiblingsFirst == schedule_policy = NUMA_SPARSE_SMT_PREFER /\ SmtDetected

(* threadtools.h: the core-id is "a unique integer in {0, ..., N-1}". So,   *)
(* as long as there are CPUs enough, no two threads have the same one.      *)
CoreIdsAreUnique ==
  \A t, u \in Started : preferred_core[t] = preferred_core[u] => t = u

(* The test for SMT succeeds on every machine with one NUMA node. With an   *)
(* odd number of CPUs there, the two halves leave the last CPU over, and    *)
(* NodeOfCore has it on a second node, which neither the machine nor the    *)
(* topology of H-Synch has.                                                 *)
LeftOver(core) == nodes = 1 /\ ncpus % 2 = 1 /\ core = ncpus - 1

(* Core-ids are unique under every policy but the default one on a machine  *)
(* where SMT is detected; the NUMA node the library computes for a thread   *)
(* is the one its CPU is on, but for a CPU left over; and the topology of   *)
(* H-Synch has that node, with room for the threads on it beside the node   *)
(* that is the first tail (see HSynch), again but for that policy.          *)
TopologyFitsThreads ==
  /\ SiblingsFirst \/ CoreIdsAreUnique
  /\ \A t \in Started :
       \/ LeftOver(preferred_core[t])
       \/ /\ preferred_node[t] = numa_node_of_cpu(preferred_core[t])
          /\ node_of_thread[t] \in 0 .. hsynch.numa_nodes - 1
  /\ \A g \in 0 .. hsynch.numa_nodes - 1 :
       \/ Cardinality({t \in Started : node_of_thread[t] = g}) <= hsynch.numa_node_size + 1
       \/ SiblingsFirst
=============================================================================
