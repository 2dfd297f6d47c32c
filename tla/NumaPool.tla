------------------------------- MODULE NumaPool -------------------------------
(***************************************************************************)
(* hpc::core::numa_pool: a numa_arena, whose constructor tries to bind its *)
(* memory to a node and hides every failure, beside a fixed_pool that does *)
(* all the work.  allocate and deallocate are the pool's; the arena is not *)
(* used again after construction, so its node is chosen once.              *)
(***************************************************************************)
EXTENDS FixedPool

CONSTANTS
  MaskSize,     \* external: libnuma's nodemask size
  Preferred     \* the preferred_node arguments

ASSUME PreferredAssumption == Preferred \subseteq Int /\ MaskSize \in Nat

VARIABLES
  node,     \* node_
  bound     \* history: the node the kernel bound the arena's memory to, or -1

numaVars == <<freeList, word, held, ret, place, node, bound>>

\* numa_arena(size_bytes, preferred_node).  The platform decides whether
\* libnuma is available, operator new and the nodemask succeed, and mbind
\* works; mbind's result is not looked at.  Without Linux the constructor does
\* nothing, and node_ stays what it was initialised to.
NumaArena(preferred, linux, available, memory, mask, mbind) ==
  LET tries == linux /\ available /\ preferred >= 0 /\ memory /\ Count > 0 /\ mask
      binds == tries /\ preferred < MaskSize /\ mbind
  IN /\ node = IF tries \/ ~linux THEN preferred ELSE -1
     /\ bound = IF binds THEN preferred ELSE -1

NumaInit == /\ PoolInit
            /\ \E preferred \in Preferred, linux, available, memory, mask, mbind \in BOOLEAN :
                 NumaArena(preferred, linux, available, memory, mask, mbind)

NumaNext == PoolNext /\ UNCHANGED <<node, bound>>

NumaSpec == NumaInit /\ [][NumaNext]_numaVars
=============================================================================
