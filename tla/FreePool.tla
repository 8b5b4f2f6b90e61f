------------------------------ MODULE FreePool -------------------------------
(***************************************************************************)
(* What a buffer pool promises its users: every buffer is either in the    *)
(* free list, exactly once, or in use; an allocation hands out the buffer  *)
(* that has been free the longest; a buffer that is released goes to the   *)
(* end of the free list and is never lost.                                 *)
(***************************************************************************)
EXTENDS Naturals, Sequences

CONSTANT Buffers

VARIABLES
    free,   \* the free buffers, the next one to hand out first
    inUse   \* the buffers some user holds a reference to

Init ==
    /\ inUse = {}
    /\ free \in [1 .. Len(free) -> Buffers]
    /\ \A b \in Buffers : \E i \in 1 .. Len(free) : free[i] = b
    /\ \A i, j \in 1 .. Len(free) : free[i] = free[j] => i = j

Allocate ==
    /\ free # <<>>
    /\ inUse' = inUse \cup {Head(free)}
    /\ free' = Tail(free)

Release(b) ==
    /\ b \in inUse
    /\ inUse' = inUse \ {b}
    /\ free' = Append(free, b)

Next == Allocate \/ \E b \in Buffers : Release(b)

Spec == Init /\ [][Next]_<<free, inUse>>
=============================================================================
