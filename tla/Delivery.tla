------------------------------ MODULE Delivery ------------------------------
(***************************************************************************)
(* What a router promises of the packets it is given to forward: one that  *)
(* cannot be sent at once waits for the address of its next hop, and one   *)
(* that waits is sent, or reported unreachable to its sender, and never    *)
(* both.  It is given up in silence only when there is no way back to the  *)
(* sender.                                                                 *)
(***************************************************************************)
CONSTANTS
    Transit,     \* the packets to be forwarded
    Answerable   \* those whose sender can be told

VARIABLE fate

Init == fate = [id \in Transit |-> "new"]

Become(id, what) == fate' = [fate EXCEPT ![id] = what]

SendAtOnce(id) == fate[id] = "new"     /\ Become(id, "sent")
Wait(id)       == fate[id] = "new"     /\ Become(id, "waiting")
Send(id)       == fate[id] = "waiting" /\ Become(id, "sent")
Report(id)     == fate[id] = "waiting" /\ Become(id, "unreachable")
GiveUp(id)     == fate[id] = "waiting" /\ id \notin Answerable /\ Become(id, "dropped")

\* A request that is answered or given up settles the packets that wait for
\* it one after the other.
Next == \E id \in Transit :
            SendAtOnce(id) \/ Wait(id) \/ Send(id) \/ Report(id) \/ GiveUp(id)

Spec == Init /\ [][Next]_fate

=============================================================================
