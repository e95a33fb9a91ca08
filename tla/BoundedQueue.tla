---------------------------- MODULE BoundedQueue ----------------------------
(***************************************************************************)
(* What a Channel promises: a FIFO of at most N values that loses,         *)
(* duplicates, reorders and invents nothing.                               *)
(***************************************************************************)
EXTENDS Naturals, Sequences

CONSTANTS
    N,          \* the capacity
    Values

VARIABLES
    contents,   \* the values that were sent and not received
    delivered   \* the values that were received, in order

vars == <<contents, delivered>>

Init ==
    /\ contents = <<>>
    /\ delivered = <<>>

Send(v) ==
    /\ Len(contents) < N
    /\ contents' = Append(contents, v)
    /\ UNCHANGED delivered

Recv ==
    /\ contents # <<>>
    /\ contents' = Tail(contents)
    /\ delivered' = Append(delivered, Head(contents))

Next == Recv \/ \E v \in Values : Send(v)

Spec == Init /\ [][Next]_vars
=============================================================================
