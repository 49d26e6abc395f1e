-------------------------- MODULE WebhookContract --------------------------
(***************************************************************************)
(* What webhook delivery promises for each session, with no queue, retry   *)
(* set or replica in sight: a session that finished owes its client one    *)
(* webhook; the payload is sent a bounded number of times; the delivery    *)
(* then has exactly one outcome, which never changes.                      *)
(***************************************************************************)
EXTENDS Naturals

CONSTANTS Sessions, MaxPosts

VARIABLES
    status,  \* "none", "owed", "pollOnly", "delivered" or "failed"
    posts    \* times the session's payload was sent

vars == <<status, posts>>

Init ==
    /\ status = [s \in Sessions |-> "none"]
    /\ posts = [s \in Sessions |-> 0]

\* A session finishes; without a webhook nothing is owed.
Finish(s) ==
    /\ status[s] = "none"
    /\ \E x \in {"owed", "pollOnly"} : status' = [status EXCEPT ![s] = x]
    /\ UNCHANGED posts

Post(s) ==
    /\ status[s] = "owed"
    /\ posts[s] < MaxPosts
    /\ posts' = [posts EXCEPT ![s] = @ + 1]
    /\ UNCHANGED status

Deliver(s) ==
    /\ status[s] = "owed"
    /\ posts[s] > 0
    /\ status' = [status EXCEPT ![s] = "delivered"]
    /\ UNCHANGED posts

\* A poll-only id whose payload is gone cannot be told from one with a
\* webhook, and is failed too.
Fail(s) ==
    /\ status[s] \in {"owed", "pollOnly"}
    /\ status' = [status EXCEPT ![s] = "failed"]
    /\ UNCHANGED posts

Next == \E s \in Sessions : Finish(s) \/ Post(s) \/ Deliver(s) \/ Fail(s)

Spec == Init /\ [][Next]_vars
=============================================================================
