----------------------------- MODULE ClientView -----------------------------
(***************************************************************************)
(* What a session is to the client that asked for it, with no row, queue,  *)
(* request or replica in sight: it is open, it comes to one end, and the   *)
(* client is never told of any other, whether by a poll, by the answer to  *)
(* its cancel, by the result webhook or by the expiry webhook.             *)
(***************************************************************************)
CONSTANT Sessions

VARIABLES
    fate,  \* "absent", "open", or the session's end
    told   \* told[s]: the ends the client was told of

vars == <<fate, told>>

Ends == {"verified", "failed", "expired", "cancelled"}

Init ==
    /\ fate = [s \in Sessions |-> "absent"]
    /\ told = [s \in Sessions |-> {}]

Create(s) ==
    /\ fate[s] = "absent"
    /\ fate' = [fate EXCEPT ![s] = "open"]
    /\ UNCHANGED told

\* One session comes to its end, or several at once.
End(ended) ==
    /\ \A s \in ended : fate[s] = "open"
    /\ \E end \in Ends :
          fate' = [s \in Sessions |-> IF s \in ended THEN end ELSE fate[s]]
    /\ UNCHANGED told

Tell(s) ==
    /\ fate[s] \in Ends
    /\ told' = [told EXCEPT ![s] = @ \cup {fate[s]}]
    /\ UNCHANGED fate

Next ==
    \/ \E s \in Sessions : Create(s) \/ Tell(s)
    \/ \E ended \in SUBSET Sessions : End(ended)

Spec == Init /\ [][Next]_vars
=============================================================================
