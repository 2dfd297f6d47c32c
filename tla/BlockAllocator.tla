---------------------------- MODULE BlockAllocator ----------------------------
(***************************************************************************)
(* What a fixed-size allocator promises: a block is handed to one client   *)
(* at a time, and a call fails only when every block is handed out.        *)
(***************************************************************************)
CONSTANTS Blocks, Null

VARIABLES
  held,   \* the blocks that clients have
  ret     \* what the latest allocate returned

vars == <<held, ret>>

Init == held = {} /\ ret = Null

Allocate(b) == /\ b \in Blocks \ held
               /\ held' = held \cup {b}
               /\ ret' = b

Fail == /\ held = Blocks
        /\ ret' = Null
        /\ UNCHANGED held

Deallocate(b) == /\ b \in held
                 /\ held' = held \ {b}
                 /\ UNCHANGED ret

Next == Fail \/ \E b \in Blocks : Allocate(b) \/ Deallocate(b)

Spec == Init /\ [][Next]_vars
=============================================================================
