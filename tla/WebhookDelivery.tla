-------------------------- MODULE WebhookDelivery --------------------------
(***************************************************************************)
(* The webhook consumer of internal/webhook: every replica of the service  *)
(* runs the same loop (Consumer.runOnce), which drains vc:handoff:queue    *)
(* and then claims and processes whatever the Retrier marks due.  One      *)
(* action is one remote call (Valkey, PostgreSQL or the client's webhook)  *)
(* with the local code around it, so steps of different replicas, the      *)
(* clock, the producer and crashes interleave between any two calls.       *)
(*                                                                         *)
(* Sessions are their ids.  A payload is reduced to the one thing the      *)
(* consumer tells apart: how far it gets when it is decoded (Kinds).  Time *)
(* is counted in ticks, Second of them to a second of unix time.           *)
(***************************************************************************)
EXTENDS Integers, Sequences, FiniteSets

CONSTANTS
    Replicas,     \* processes running the consumer
    Sessions,     \* session ids verifier-core may hand off
    None,         \* "no session in hand"
    Kinds,        \* the payload kinds the producer may write
    ResultTTL,    \* life of a handoff payload and its envelope's ExpiresAt
    Base,         \* WEBHOOK_RETRY_BASE_DELAY
    MaxAttempts,  \* WEBHOOK_RETRY_MAX_ATTEMPTS
    Second,       \* ticks in one second
    Width,        \* bits of a time.Duration
    MaxTime,      \* bound on the clock
    Faults,       \* which calls may fail
    MaxFaults     \* bound on the failures of one behaviour

AllKinds == {"ok", "undecryptable", "malformed", "pollOnly"}

AllFaults == {"rpop", "rpopAck", "get", "lpush", "state", "attempts", "set",
              "zadd", "zaddAck", "range", "zrem", "zremAck", "crash"}

ASSUME ConfigAssumption ==
    /\ None \notin Sessions
    /\ Kinds \subseteq AllKinds
    /\ Faults \subseteq AllFaults
    /\ ResultTTL \in Nat \ {0} /\ Base \in Nat \ {0}
    /\ MaxAttempts \in Nat \ {0} /\ Second \in Nat \ {0}
    /\ Width \in Nat \ {0} /\ MaxTime \in Nat /\ MaxFaults \in Nat

VARIABLES
    now,        \* the clock every process reads
    kind,       \* kind[s]: payload written for s, "none" before the handoff
    expiresAt,  \* expiresAt[s]: Envelope.ExpiresAt, also the payload's TTL
    queue,      \* vc:handoff:queue, next id to RPOP first
    retry,      \* members of the ZSET mgmt:webhook:retry
    score,      \* score[s]: unix second s is due at, for s in retry
    attempts,   \* mgmt:webhook:attempts:{s}, 0 when never written
    wstate,     \* wstate[s]: webhook_state of the session row
    pc,         \* pc[r]: the call replica r makes next
    phase,      \* phase[r]: which loop of runOnce called processOne
    cur,        \* cur[r]: the id processOne works on
    attempt,    \* attempt[r]: the counter as processOne read it
    nextAt,     \* nextAt[r]: the time Schedule computed
    due,        \* due[r]: ids of Due's range query still to be claimed
    claimed,    \* claimed[r]: ids Due claimed, not yet processed
    delivered,  \* delivered[s]: times s counted in outcome="delivered"
    failed,     \* failed[s]: times s counted in outcome="failed"
    posts,      \* posts[s]: calls of Deliverer.send (sign and POST) for s
    faults      \* failures so far

store  == <<queue, retry, score, attempts>>
worker == <<pc, phase, cur, attempt, nextAt, due, claimed>>
tally  == <<delivered, failed, posts>>
env    == <<now, kind, expiresAt>>
vars   == <<env, store, wstate, worker, tally, faults>>

-----------------------------------------------------------------------------
(* Time, durations and the Retrier's back-off *)

\* time.Time.Unix(): whole seconds.
Unix(t) == t \div Second

\* Signed two's-complement wrap-around of a Duration.
Wrap(x) == ((x + 2^(Width - 1)) % 2^Width) - 2^(Width - 1)

\* base * time.Duration(int64(1) << attempt)
Delay(a) == Wrap(Base * Wrap(IF a < Width THEN 2^a ELSE 0))

\* What the provers need to know of exponents; TLC evaluates it.
ASSUME PowerAssumption ==
    2^0 = 1 /\ \A a \in 0..Width : 2^a \in Nat \ {0} /\ 2^(a + 1) = 2 * 2^a

\* A payload lives until its TTL elapses; so does the attempt counter, whose
\* TTL is the time left to the same instant.
Present(s)  == kind[s] # "none" /\ now < expiresAt[s]
Attempts(s) == IF now < expiresAt[s] THEN attempts[s] ELSE 0

-----------------------------------------------------------------------------
Init ==
    /\ now = 0
    /\ kind = [s \in Sessions |-> "none"]
    /\ expiresAt = [s \in Sessions |-> 0]
    /\ queue = <<>>
    /\ retry = {}
    /\ score = [s \in Sessions |-> 0]
    /\ attempts = [s \in Sessions |-> 0]
    /\ wstate = [s \in Sessions |-> "pending"]
    /\ pc = [r \in Replicas |-> "idle"]
    /\ phase = [r \in Replicas |-> "drain"]
    /\ cur = [r \in Replicas |-> None]
    /\ attempt = [r \in Replicas |-> 0]
    /\ nextAt = [r \in Replicas |-> 0]
    /\ due = [r \in Replicas |-> {}]
    /\ claimed = [r \in Replicas |-> {}]
    /\ delivered = [s \in Sessions |-> 0]
    /\ failed = [s \in Sessions |-> 0]
    /\ posts = [s \in Sessions |-> 0]
    /\ faults = 0

\* A call of kind f fails, within the budget of failures.
Fault(f) == f \in Faults /\ faults < MaxFaults /\ faults' = faults + 1

\* Replica r's next call is the one labelled l; nothing else of it changes.
Goto(r, l) ==
    /\ pc' = [pc EXCEPT ![r] = l]
    /\ UNCHANGED <<phase, cur, attempt, nextAt, due, claimed>>

\* processOne takes up s, in loop p of runOnce.
Process(r, s, p) ==
    /\ pc' = [pc EXCEPT ![r] = "get"]
    /\ phase' = [phase EXCEPT ![r] = p]
    /\ cur' = [cur EXCEPT ![r] = s]

\* processOne returns to the loop that called it.
Return(r) ==
    /\ pc' = [pc EXCEPT ![r] = IF phase[r] = "drain" THEN "drain" ELSE "work"]
    /\ cur' = [cur EXCEPT ![r] = None]
    /\ attempt' = [attempt EXCEPT ![r] = 0]
    /\ nextAt' = [nextAt EXCEPT ![r] = 0]
    /\ UNCHANGED <<phase, due, claimed>>

\* r forgets all it was doing: the end of a cycle, or of the process.
Reset(r) ==
    /\ pc' = [pc EXCEPT ![r] = "idle"]
    /\ phase' = [phase EXCEPT ![r] = "drain"]
    /\ cur' = [cur EXCEPT ![r] = None]
    /\ attempt' = [attempt EXCEPT ![r] = 0]
    /\ nextAt' = [nextAt EXCEPT ![r] = 0]
    /\ due' = [due EXCEPT ![r] = {}]
    /\ claimed' = [claimed EXCEPT ![r] = {}]

-----------------------------------------------------------------------------
(* The environment *)

Clock ==
    /\ now < MaxTime
    /\ now' = now + 1
    /\ UNCHANGED <<kind, expiresAt, store, wstate, worker, tally, faults>>

\* verifier-core finishes a session: payload under its TTL, then LPUSH.  A
\* handoff whose TTL would end after MaxTime is out of the model's range.
Handoff(s) ==
    /\ kind[s] = "none"
    /\ now + ResultTTL <= MaxTime
    /\ \E k \in Kinds : kind' = [kind EXCEPT ![s] = k]
    /\ expiresAt' = [expiresAt EXCEPT ![s] = now + ResultTTL]
    /\ queue' = Append(queue, s)
    /\ UNCHANGED <<now, retry, score, attempts, wstate, worker, tally, faults>>

-----------------------------------------------------------------------------
(* Consumer.runOnce: the drain loop *)

\* The poll ticker fires (or the first cycle starts).
StartCycle(r) ==
    /\ pc[r] = "idle"
    /\ Goto(r, "drain")
    /\ UNCHANGED <<env, store, wstate, tally, faults>>

\* Mutant: the id is read and left on the queue.
RPopKept(r) ==
    /\ pc[r] = "drain"
    /\ queue # <<>>
    /\ Process(r, Head(queue), "drain")
    /\ UNCHANGED <<env, store, wstate, attempt, nextAt, due, claimed, tally, faults>>

RPop(r) ==
    /\ pc[r] = "drain"
    /\ queue # <<>>
    /\ queue' = Tail(queue)
    /\ Process(r, Head(queue), "drain")
    /\ UNCHANGED <<env, retry, score, attempts, wstate, attempt, nextAt, due,
                   claimed, tally, faults>>

RPopEmpty(r) ==
    /\ pc[r] = "drain"
    /\ queue = <<>>
    /\ Goto(r, "range")
    /\ UNCHANGED <<env, store, wstate, tally, faults>>

\* The error only ends the drain loop.  When just the reply was lost, the id
\* is off the queue and in no one's hand.
RPopFails(r) ==
    /\ pc[r] = "drain"
    /\ \/ Fault("rpop") /\ UNCHANGED queue
       \/ Fault("rpopAck") /\ queue # <<>> /\ queue' = Tail(queue)
    /\ Goto(r, "range")
    /\ UNCHANGED <<env, retry, score, attempts, wstate, tally>>

-----------------------------------------------------------------------------
(* Consumer.processOne *)

\* GET of the payload, decodeEnvelope and the poll-only guard.
GetPayload(r) ==
    /\ pc[r] = "get"
    /\ \/ /\ ~Present(cur[r]) \/ kind[cur[r]] = "malformed"
          /\ Goto(r, "fail")
       \/ /\ Present(cur[r]) /\ kind[cur[r]] = "pollOnly"
          /\ Return(r)
       \/ /\ Present(cur[r]) /\ kind[cur[r]] \in {"ok", "undecryptable"}
          /\ Goto(r, "mark")
    /\ UNCHANGED <<env, store, wstate, tally, faults>>

GetPayloadFails(r) ==
    /\ pc[r] = "get"
    /\ Fault("get")
    /\ Goto(r, "requeue")
    /\ UNCHANGED <<env, store, wstate, tally>>

\* Mutant: the re-enqueue is forgotten.
RequeueForgotten(r) ==
    /\ pc[r] = "requeue"
    /\ Return(r)
    /\ UNCHANGED <<env, store, wstate, tally, faults>>

Requeue(r) ==
    /\ pc[r] = "requeue"
    /\ \/ queue' = Append(queue, cur[r]) /\ UNCHANGED faults
       \/ Fault("lpush") /\ UNCHANGED queue
    /\ Return(r)
    /\ UNCHANGED <<env, retry, score, attempts, wstate, tally>>

\* SetWebhookState(s, x); its failure is only logged.
SetWebhookState(s, x) ==
    \/ wstate' = [wstate EXCEPT ![s] = x] /\ UNCHANGED faults
    \/ Fault("state") /\ UNCHANGED wstate

MarkDelivering(r) ==
    /\ pc[r] = "mark"
    /\ SetWebhookState(cur[r], "delivering")
    /\ Goto(r, "post")
    /\ UNCHANGED <<env, store, tally>>

\* Deliverer.Deliver: a payload that does not decrypt is permanent, a send that
\* is not signed, not POSTed or not answered 2xx in time (whether or not the
\* client got it) is not.
Deliver(r) ==
    /\ pc[r] = "post"
    /\ \/ /\ kind[cur[r]] = "undecryptable"
          /\ Goto(r, "fail")
          /\ UNCHANGED posts
       \/ /\ kind[cur[r]] = "ok"
          /\ posts' = [posts EXCEPT ![cur[r]] = @ + 1]
          /\ Goto(r, "done") \/ Goto(r, "attempts")
    /\ UNCHANGED <<env, store, wstate, delivered, failed, faults>>

MarkDelivered(r) ==
    /\ pc[r] = "done"
    /\ SetWebhookState(cur[r], "delivered")
    /\ delivered' = [delivered EXCEPT ![cur[r]] = @ + 1]
    /\ Return(r)
    /\ UNCHANGED <<env, store, failed, posts>>

\* Consumer.terminal
Terminal(r) ==
    /\ pc[r] = "fail"
    /\ SetWebhookState(cur[r], "failed")
    /\ failed' = [failed EXCEPT ![cur[r]] = @ + 1]
    /\ Return(r)
    /\ UNCHANGED <<env, store, delivered, posts>>

\* Retrier.attempts; an error is logged and leaves the zero value.
ReadAttempts(r) ==
    /\ pc[r] = "attempts"
    /\ \/ attempt' = [attempt EXCEPT ![r] = Attempts(cur[r])] /\ UNCHANGED faults
       \/ Fault("attempts") /\ attempt' = [attempt EXCEPT ![r] = 0]
    /\ pc' = [pc EXCEPT ![r] = "schedule"]
    /\ UNCHANGED <<env, store, wstate, phase, cur, nextAt, due, claimed, tally>>

-----------------------------------------------------------------------------
(* Retrier.Schedule *)

\* Mutant: the delay is not doubled.
NextAfterBase(r) == now + Base

NextAttempt(r) == now + Delay(attempt[r])

\* Mutants: the attempt bound off by one in either direction; no TTL clamp.
MayRetryOneMore(r) ==
    /\ attempt[r] <= MaxAttempts
    /\ NextAttempt(r) <= expiresAt[cur[r]] /\ now < expiresAt[cur[r]]
MayRetryOneLess(r) ==
    /\ attempt[r] + 1 < MaxAttempts
    /\ NextAttempt(r) <= expiresAt[cur[r]] /\ now < expiresAt[cur[r]]
MayRetryPastTTL(r) == attempt[r] < MaxAttempts

\* Neither ErrExhausted nor ErrExpired.
MayRetry(r) ==
    /\ attempt[r] < MaxAttempts
    /\ NextAttempt(r) <= expiresAt[cur[r]]
    /\ now < expiresAt[cur[r]]

ScheduleRefused(r) ==
    /\ pc[r] = "schedule"
    /\ ~MayRetry(r)
    /\ Goto(r, "fail")
    /\ UNCHANGED <<env, store, wstate, tally, faults>>

\* Mutant: the counter is written back as it was read.
RecordedAsRead(r) == attempt[r]

\* The counter Schedule records for the failure it was called with.
Recorded(r) == attempt[r] + 1

\* SET of the counter.
ScheduleSet(r) ==
    /\ pc[r] = "schedule"
    /\ MayRetry(r)
    /\ attempts' = [attempts EXCEPT ![cur[r]] = Recorded(r)]
    /\ nextAt' = [nextAt EXCEPT ![r] = NextAttempt(r)]
    /\ pc' = [pc EXCEPT ![r] = "zadd"]
    /\ UNCHANGED <<env, queue, retry, score, wstate, phase, cur, attempt, due,
                   claimed, tally, faults>>

\* processOne takes any error of Schedule for a terminal one.
ScheduleSetFails(r) ==
    /\ pc[r] = "schedule"
    /\ MayRetry(r)
    /\ Fault("set")
    /\ attempts' \in {attempts, [attempts EXCEPT ![cur[r]] = Recorded(r)]}
    /\ Goto(r, "fail")
    /\ UNCHANGED <<env, queue, retry, score, wstate, tally>>

AddRetry(r) ==
    /\ retry' = retry \cup {cur[r]}
    /\ score' = [score EXCEPT ![cur[r]] = Unix(nextAt[r])]

ScheduleZAdd(r) ==
    /\ pc[r] = "zadd"
    /\ AddRetry(r)
    /\ Return(r)
    /\ UNCHANGED <<env, queue, attempts, wstate, tally, faults>>

ScheduleZAddFails(r) ==
    /\ pc[r] = "zadd"
    /\ \/ Fault("zadd") /\ UNCHANGED <<retry, score>>
       \/ Fault("zaddAck") /\ AddRetry(r)
    /\ Goto(r, "fail")
    /\ UNCHANGED <<env, queue, attempts, wstate, tally>>

-----------------------------------------------------------------------------
(* Retrier.Due and the second loop of runOnce.  The order of a range is    *)
(* left open.                                                              *)

DueRange(r) ==
    /\ pc[r] = "range"
    /\ due' = [due EXCEPT ![r] = {s \in retry : score[s] <= Unix(now)}]
    /\ pc' = [pc EXCEPT ![r] = "claim"]
    /\ phase' = [phase EXCEPT ![r] = "due"]
    /\ UNCHANGED <<env, store, wstate, cur, attempt, nextAt, claimed, tally,
                   faults>>

DueRangeFails(r) ==
    /\ pc[r] = "range"
    /\ Fault("range")
    /\ Reset(r)
    /\ UNCHANGED <<env, store, wstate, tally>>

\* Mutant: the result of ZREM is not looked at.
WonAlways(s) == TRUE

\* ZREM answers 1 to the caller that removed the member, 0 to one that lost
\* the race.
Won(s) == s \in retry

RemoveRetry(s) ==
    /\ retry' = retry \ {s}
    /\ score' = [score EXCEPT ![s] = 0]

DueClaim(r) ==
    /\ pc[r] = "claim"
    /\ \E s \in due[r] :
          /\ due' = [due EXCEPT ![r] = @ \ {s}]
          /\ claimed' = [claimed EXCEPT ![r] = IF Won(s) THEN @ \cup {s} ELSE @]
          /\ RemoveRetry(s)
    /\ UNCHANGED <<env, queue, attempts, wstate, pc, phase, cur, attempt, nextAt,
                   tally, faults>>

\* Due returns nil and the error: runOnce ends, and so does all it had claimed.
DueClaimFails(r) ==
    /\ pc[r] = "claim"
    /\ \E s \in due[r] :
          \/ Fault("zrem") /\ UNCHANGED <<retry, score>>
          \/ Fault("zremAck") /\ RemoveRetry(s)
    /\ Reset(r)
    /\ UNCHANGED <<env, queue, attempts, wstate, tally>>

DueClaimed(r) ==
    /\ pc[r] = "claim"
    /\ due[r] = {}
    /\ Goto(r, "work")
    /\ UNCHANGED <<env, store, wstate, tally, faults>>

ProcessDue(r) ==
    /\ pc[r] = "work"
    /\ \E s \in claimed[r] :
          /\ Process(r, s, "due")
          /\ claimed' = [claimed EXCEPT ![r] = @ \ {s}]
    /\ UNCHANGED <<env, store, wstate, attempt, nextAt, due, tally, faults>>

EndCycle(r) ==
    /\ pc[r] = "work"
    /\ claimed[r] = {}
    /\ Reset(r)
    /\ UNCHANGED <<env, store, wstate, tally, faults>>

-----------------------------------------------------------------------------
\* The process dies, or is stopped in the middle of a cycle, and is started
\* again: what it held is held by no one.
Crash(r) ==
    /\ pc[r] # "idle"
    /\ Fault("crash")
    /\ Reset(r)
    /\ UNCHANGED <<env, store, wstate, tally>>

Work(r) ==
    \/ StartCycle(r) \/ RPop(r) \/ RPopEmpty(r) \/ RPopFails(r)
    \/ GetPayload(r) \/ GetPayloadFails(r) \/ Requeue(r)
    \/ MarkDelivering(r) \/ Deliver(r) \/ MarkDelivered(r) \/ Terminal(r)
    \/ ReadAttempts(r) \/ ScheduleRefused(r)
    \/ ScheduleSet(r) \/ ScheduleSetFails(r)
    \/ ScheduleZAdd(r) \/ ScheduleZAddFails(r)
    \/ DueRange(r) \/ DueRangeFails(r)
    \/ DueClaim(r) \/ DueClaimFails(r) \/ DueClaimed(r)
    \/ ProcessDue(r) \/ EndCycle(r)

Next ==
    \/ Clock
    \/ \E s \in Sessions : Handoff(s)
    \/ \E r \in Replicas : Work(r) \/ Crash(r)

Spec == Init /\ [][Next]_vars

\* The goroutine of every replica is scheduled, every call it makes returns
\* (client timeouts), and time passes.
Fairness == WF_vars(Clock) /\ \A r \in Replicas : WF_vars(Work(r))

FairSpec == Spec /\ Fairness
-----------------------------------------------------------------------------
(* What the consumer promises *)

InQueue(s) == \E i \in 1..Len(queue) : queue[i] = s
Holds(r, s) == cur[r] = s \/ s \in claimed[r]
InFlight(s) == InQueue(s) \/ s \in retry \/ \E r \in Replicas : Holds(r, s)
Settled(s) == delivered[s] + failed[s] > 0

\* The steps of runOnce itself, and those inside processOne.
LoopSteps    == {"idle", "drain", "range", "claim", "work"}
ProcessSteps == {"get", "requeue", "mark", "post", "done", "fail", "attempts",
                 "schedule", "zadd"}

\* The control state of the replicas: an id is in hand within processOne only.
WorkerType ==
    /\ pc \in [Replicas -> LoopSteps \cup ProcessSteps]
    /\ phase \in [Replicas -> {"drain", "due"}]
    /\ cur \in [Replicas -> Sessions \cup {None}]
    /\ attempt \in [Replicas -> 0..MaxAttempts]
    /\ nextAt \in [Replicas -> Int]
    /\ due \in [Replicas -> SUBSET Sessions]
    /\ claimed \in [Replicas -> SUBSET Sessions]
    /\ \A r \in Replicas : cur[r] # None <=> pc[r] \in ProcessSteps

TypeOK ==
    /\ now \in 0..MaxTime
    /\ kind \in [Sessions -> Kinds \cup {"none"}]
    /\ expiresAt \in [Sessions -> 0..MaxTime]
    /\ queue \in Seq(Sessions)
    /\ retry \subseteq Sessions
    /\ score \in [Sessions -> Int]
    /\ attempts \in [Sessions -> 0..MaxAttempts]
    /\ wstate \in [Sessions -> {"pending", "delivering", "delivered", "failed"}]
    /\ WorkerType
    /\ delivered \in [Sessions -> Nat]
    /\ failed \in [Sessions -> Nat]
    /\ posts \in [Sessions -> Nat]
    /\ faults \in 0..MaxFaults

\* A session id is in at most one place: once in the handoff queue, in the
\* retry ZSET, or with one replica.  This is what makes RPOP and the ZREM
\* claim of Retrier.Due ("exactly one wins") enough to run many replicas
\* without a lock.
ExclusiveOwnership ==
    /\ \A i, j \in 1..Len(queue) : queue[i] = queue[j] => i = j
    /\ \A s \in retry : ~InQueue(s)
    /\ \A r \in Replicas, s \in Sessions :
          Holds(r, s) =>
             /\ ~InQueue(s)
             /\ s \notin retry
             /\ ~(cur[r] = s /\ s \in claimed[r])
             /\ \A q \in Replicas : Holds(q, s) => q = r

\* The id processOne is called with exists nowhere else, so each of its exits
\* must account for it: a session handed off with a webhook is either still on
\* its way or counted as delivered or failed, never silently dropped.
NoSilentDrop ==
    \A s \in Sessions : kind[s] \notin {"none", "pollOnly"} => InFlight(s) \/ Settled(s)

\* A session's delivery has one outcome: the delivered and failed metrics
\* count it at most once between them, whatever order replicas, retries and
\* crashes come in.
SettledOnce == \A s \in Sessions : delivered[s] + failed[s] <= 1

\* Some replica has the 2xx answer to a send of s.
Accepted(s) == delivered[s] > 0 \/ \E r \in Replicas : cur[r] = s /\ pc[r] = "done"

\* What a client accepted is not sent to it again, and is counted once, whichever
\* calls fail: a Schedule that errs after its ZADD took effect leaves an id that is
\* counted failed by one replica and claimed by another, but never one that two
\* replicas send.
NotSentAgain ==
    [][\A s \in Sessions :
          Accepted(s) => posts'[s] = posts[s] /\ delivered'[s] <= 1]_vars

\* maxAttempts bounds the retries across replicas and cycles: the first send
\* and at most MaxAttempts retries.
PostsBounded == \A s \in Sessions : posts[s] <= MaxAttempts + 1

\* The counter Schedule persists gives "a later failure - on this replica or
\* another" the right exponent: whenever a session waits for its next attempt
\* the counter equals the sends made so far.
AttemptCounterExact ==
    \A s \in Sessions :
        (InQueue(s) \/ s \in retry \/ \E r \in Replicas : s \in claimed[r])
            => attempts[s] = posts[s]

\* Retries live inside the result TTL: every scheduled retry is due before its
\* payload is gone, and a retry is never left behind without its counter.
RetryInsideTTL ==
    \A s \in retry : /\ score[s] * Second <= expiresAt[s]
                     /\ attempts[s] > 0

\* A session fails only for the reasons the README's delivery diagram gives:
\* payload missing or undecryptable, attempts exhausted, or no retry left
\* inside the TTL.
FailureJustified ==
    \A s \in Sessions :
        failed[s] > 0 => \/ kind[s] \in {"malformed", "undecryptable"}
                         \/ attempts[s] >= MaxAttempts
                         \/ now + Delay(attempts[s]) > expiresAt[s]

\* The row and the metric agree once a session is settled, and, as long as no
\* call failed and no process died, a row that says "delivering" has a delivery
\* behind it: no late step of another replica overwrites a final state.
StateMatchesOutcome ==
    \A s \in Sessions :
        /\ delivered[s] > 0 => wstate[s] = "delivered"
        /\ failed[s] > 0 => wstate[s] = "failed"
        /\ wstate[s] = "delivering" /\ faults = 0 => InFlight(s)

\* Schedule's shift never overflows although config.go puts no upper bound on
\* the attempts: the TTL clamp refuses the retry before the delay wraps.
BackoffNeverWraps ==
    \A r \in Replicas : pc[r] = "schedule" /\ attempt[r] < MaxAttempts
        => Delay(attempt[r]) = Base * 2^attempt[r]

\* Every session handed off with a webhook is eventually delivered or failed,
\* by whichever replica gets to it.
EventuallySettled ==
    \A s \in Sessions : kind[s] \notin {"none", "pollOnly"} ~> Settled(s)

-----------------------------------------------------------------------------
(* The per-session contract this module implements *)

Outcome(s) ==
    CASE ~Settled(s) -> IF kind[s] \in {"none", "pollOnly"} THEN kind[s] ELSE "owed"
      [] delivered[s] + failed[s] > 1 -> "inconsistent"
      [] delivered[s] = 1 -> "delivered"
      [] OTHER -> "failed"

Contract == INSTANCE WebhookContract WITH
                MaxPosts <- MaxAttempts + 1,
                status <- [s \in Sessions |-> Outcome(s)],
                posts <- posts

\* The replicas together behave like one delivery per session.
ContractSpec == Contract!Spec
=============================================================================
