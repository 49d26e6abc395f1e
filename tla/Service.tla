------------------------------ MODULE Service ------------------------------
(***************************************************************************)
(* The service as its clients meet it: SessionLifecycle (the rows, the     *)
(* requests, the sweepers) and WebhookDelivery (the queue, the retries,    *)
(* the consumers) over one clock and one set of sessions.  They meet in    *)
(* three places: verifier-core's handoff writes the payload that both the  *)
(* poll and the consumer read; the payload's TTL ends it for both; and the *)
(* sweeper and the consumer of a replica are goroutines of one process,    *)
(* which dies as a whole.                                                  *)
(***************************************************************************)
EXTENDS Integers, Sequences, FiniteSets

CONSTANTS
    Replicas,    \* processes, each running a consumer and a sweeper
    Sessions, Clients, Requests, None, Flows, Webhooks,
    TTL,         \* life of an open session
    Limit, Kinds,
    ResultTTL,   \* life of a handoff payload
    Base, MaxAttempts, Second, Width, MaxTime,
    RowFaults, DeliveryFaults,  \* which calls of either part may fail
    MaxFaults    \* bound on the failures of both

VARIABLES
    now, faults,
    \* SessionLifecycle
    status, owner, flow, webhook, expiresAt, report, redeemed, code, payload,
    req, batch, notices, accepted,
    \* WebhookDelivery
    kind, until, queue, retry, score, attempts, wstate, pc, phase, cur, attempt,
    nextAt, due, claimed, delivered, failed, posts,
    \* history
    result,      \* result[s]: Result.Outcome in s's payload
    told,        \* told[s]: terminal states the client of s was told of
    knew         \* knew[q]: told of its session when the request in q came

L == INSTANCE SessionLifecycle WITH Sweepers <- Replicas, Faults <- RowFaults

D == INSTANCE WebhookDelivery WITH expiresAt <- until, Faults <- DeliveryFaults

\* What L and D ask of their constants.
ASSUME ServiceAssumption ==
    /\ IsFiniteSet(Sessions)
    /\ None \notin Sessions \cup {"same_device", "cross_device"}
    /\ Flows \subseteq {"same_device", "cross_device"} /\ Webhooks \subseteq BOOLEAN
    /\ Kinds \subseteq D!AllKinds
    /\ RowFaults \subseteq L!AllFaults /\ DeliveryFaults \subseteq D!AllFaults
    /\ TTL \in Nat \ {0} /\ Limit \in Nat \ {0}
    /\ ResultTTL \in Nat \ {0} /\ Base \in Nat \ {0}
    /\ MaxAttempts \in Nat \ {0} /\ Second \in Nat \ {0}
    /\ Width \in Nat \ {0} /\ MaxTime \in Nat /\ MaxFaults \in Nat
    /\ 2^0 = 1 /\ \A a \in 0..Width : 2^a \in Nat \ {0} /\ 2^(a + 1) = 2 * 2^a

rowVars == <<status, owner, flow, webhook, expiresAt, report, redeemed, code,
             payload, req, notices, accepted>>
deliveryVars == <<kind, until, queue, retry, score, attempts, wstate, pc, phase,
                  cur, attempt, nextAt, due, claimed, delivered, failed, posts>>
vars == <<now, faults, rowVars, batch, deliveryVars, result, told, knew>>

Init ==
    /\ L!Init
    /\ D!Init
    /\ result = [s \in Sessions |-> None]
    /\ told = [s \in Sessions |-> {}]
    /\ knew = [q \in Requests |-> {}]

\* Time passes; payloads and response codes whose TTL elapses are gone.
Tick ==
    /\ now < MaxTime
    /\ now' = now + 1
    /\ LET Ended(s) == payload[s] = "live" /\ until[s] <= now' IN
          /\ payload' = [s \in Sessions |-> IF Ended(s) THEN "gone" ELSE payload[s]]
          /\ code' = [s \in Sessions |-> code[s] /\ ~Ended(s)]
    /\ UNCHANGED <<faults, status, owner, flow, webhook, expiresAt, report, redeemed,
                   req, notices, accepted, batch, deliveryVars, result>>

\* A session moves, a request is served or a sweeper works.
RowStep ==
    /\ \/ \E s \in Sessions :
             L!Create(s) \/ L!Engage(s) \/ L!SaveReport(s) \/ L!Complete(s)
       \/ \E q \in Requests : L!Poll(q) \/ L!CancelRequest(q) \/ L!Handle(q)
       \/ \E w \in Replicas : L!Sweep(w)
    /\ UNCHANGED <<deliveryVars, result>>

\* A consumer works.
DeliveryStep ==
    /\ \E r \in Replicas : D!Work(r)
    /\ UNCHANGED <<rowVars, batch, result>>

\* verifier-core hands the result off to both parts.
HandOff(s) ==
    /\ L!HandOff(s)
    /\ D!Handoff(s)
    /\ kind'[s] = IF webhook[s] THEN "ok" ELSE "pollOnly"
    /\ result' = [result EXCEPT ![s] = status[s]]

\* The process of r dies, or is stopped: Stop keeps new cycles from starting and
\* does not wait for running ones, so either goroutine ends at any step.
ProcessEnds(r) ==
    /\ \/ /\ D!Crash(r)
          /\ batch' = [batch EXCEPT ![r] = {}]
          /\ UNCHANGED rowVars
       \/ /\ pc[r] = "idle"
          /\ L!SweeperCrash(r)
          /\ UNCHANGED deliveryVars
    /\ UNCHANGED result

\* What the client of s learns: from a poll, a cancel, a result webhook and an
\* expiry webhook.  A POST counts as read, whatever its answer.
Heard(s) ==
    {end \in L!Terminal :
        \/ \E q \in Requests :
              /\ req[q].sid = s
              /\ \/ req[q].http = 200 /\ req[q].status = end
                 \/ req[q].http = 204 /\ end = "cancelled"
        \/ posts[s] > 0 /\ result[s] = end
        \/ notices[s] > 0 /\ end = "expired"}

Step ==
    \/ Tick
    \/ RowStep
    \/ DeliveryStep
    \/ \E s \in Sessions : HandOff(s)
    \/ \E r \in Replicas : ProcessEnds(r)

\* A new request takes slot q.
Arrives(q) == req[q].step \in {"idle", "done"} /\ req'[q].step \notin {"idle", "done"}

Next ==
    /\ Step
    /\ told' = [s \in Sessions |-> told[s] \cup Heard(s)']
    /\ knew' = [q \in Requests |-> IF Arrives(q) THEN told[req'[q].sid] ELSE knew[q]]

Spec == Init /\ [][Next]_vars
-----------------------------------------------------------------------------
(* What the whole promises *)

View == INSTANCE ClientView WITH
            fate <- [s \in Sessions |->
                        IF status[s] \in L!Open THEN "open" ELSE status[s]]

\* The client of a session hears of one end of it only, the one on the row, and
\* only once the session came to it: polls that expire it, a cancel, the sweeper
\* and the outcome race, and the webhook is sent later by other processes.
ClientViewSpec == View!Spec

\* What the client of a session was told before it called binds the answer: a poll
\* that comes after an expiry notice, a result webhook or another call's answer
\* gives the end these gave, and no longer an open session, and a cancel that comes
\* after them is not accepted.
AnswersKeepUp ==
    \A q \in Requests :
        /\ req[q].http = 200 => knew[q] \subseteq {req[q].status}
        /\ req[q].http = 204 => knew[q] = {}
=============================================================================
