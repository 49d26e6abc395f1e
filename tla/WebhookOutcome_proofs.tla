----------------------- MODULE WebhookOutcome_proofs -----------------------
(***************************************************************************)
(* Theorems about what becomes of a session in WebhookDelivery: no failure *)
(* without a reason, no session dropped, a row that agrees with the        *)
(* outcome, and the refinement of WebhookContract.                         *)
(***************************************************************************)
EXTENDS WebhookRetry_proofs

-----------------------------------------------------------------------------
(* Why a session fails *)

Justified(s) ==
    \/ kind[s] \in {"malformed", "undecryptable"}
    \/ attempts[s] >= MaxAttempts
    \/ now + Delay(attempts[s]) > expiresAt[s]

\* A session that failed, or is about to, has a reason to.
FailInv ==
    /\ \A s \in Sessions : failed[s] > 0 => Justified(s)
    /\ \A r \in Replicas : pc[r] = "fail" => Justified(cur[r])

\* A reason stays one as time passes.
LEMMA JustifiedKept ==
  ASSUME TypeOK, NEW s \in Sessions, Justified(s),
         kind'[s] = kind[s], expiresAt'[s] = expiresAt[s],
         attempts'[s] = attempts[s], now' \in {now, now + 1}
  PROVE  Justified(s)'
  <1>1. Delay(attempts[s]) \in Int /\ now \in Int /\ expiresAt[s] \in Int
    BY DelayType, ConfigAssumption DEF TypeOK
  <1>2. Delay(attempts'[s]) = Delay(attempts[s])
    OBVIOUS
  <1>3. QED
    BY <1>1, <1>2 DEF Justified

\* The steps that end in Terminal, when no call of Schedule fails.
LEMMA FailSteps ==
  ASSUME Faults \cap {"set", "zadd", "zaddAck"} = {}, TypeOK,
         NEW r \in Replicas, Work(r) \/ Crash(r)
  PROVE  /\ \/ failed' = failed
            \/ pc[r] = "fail" /\ failed' = [failed EXCEPT ![cur[r]] = @ + 1]
         /\ pc'[r] = "fail" =>
               /\ UNCHANGED <<attempts, cur>> /\ pc[r] \in ProcessSteps
               /\ \/ pc[r] = "get" /\ ~Present(cur[r])
                  \/ kind[cur[r]] \in {"malformed", "undecryptable"}
                  \/ pc[r] = "schedule" /\ ~MayRetry(r)
  BY DEF Work, Crash, StartCycle, RPop, RPopEmpty, RPopFails, GetPayload, GetPayloadFails, Requeue, MarkDelivering, Deliver, MarkDelivered, Terminal, ReadAttempts, ScheduleRefused, ScheduleSet, ScheduleSetFails, ScheduleZAdd, ScheduleZAddFails, DueRange, DueRangeFails, DueClaim, DueClaimFails, DueClaimed, ProcessDue, EndCycle, Goto, Return, Reset, Process, Fault, store,
         worker, tally, TypeOK, WorkerType, ProcessSteps

LEMMA FailNext ==
  ASSUME Faults \cap {"set", "zadd", "zaddAck", "attempts"} = {}, DurationsFit,
         TypeOK, OwnInv, HandInv, CountInv, BackInv, FailInv, [Next]_vars
  PROVE  FailInv'
  <1>c. \A r \in Replicas : pc[r] \in ProcessSteps => cur[r] \in Sessions
    BY InHand DEF TypeOK
  <1>1. CASE Clock
    <2>1. ASSUME NEW s \in Sessions, Justified(s) PROVE Justified(s)'
      BY <1>1, <2>1, JustifiedKept DEF Clock, store
    <2>2. QED
      BY <1>1, <1>c, <2>1 DEF Clock, worker, tally, FailInv, ProcessSteps
  <1>2. ASSUME NEW s \in Sessions, Handoff(s) PROVE FailInv'
    <2>1. failed[s] = 0 /\ \A r \in Replicas : cur[r] # s
      BY <1>2, ConfigAssumption
      DEF Handoff, HandInv, Kept, Carries, TypeOK, WorkerType
    <2>2. ASSUME NEW t \in Sessions \ {s}, Justified(t) PROVE Justified(t)'
      BY <1>2, <2>2, JustifiedKept, ConfigAssumption DEF Handoff, TypeOK
    <2>3. QED
      BY <1>2, <1>c, <2>1, <2>2 DEF Handoff, worker, tally, FailInv, ProcessSteps
  <1>3. ASSUME NEW r \in Replicas, Work(r) \/ Crash(r) PROVE FailInv'
    <2>f. UNCHANGED env /\ Others(r)
      BY <1>3, WorkFrame
    <2>1. ASSUME NEW s \in Sessions, Justified(s),
                 s # cur[r] \/ pc[r] # "schedule" \/ attempts' = attempts
          PROVE  Justified(s)'
      <3>1. attempts'[s] = attempts[s]
        <4>1. attempts \in [Sessions -> 0..MaxAttempts]
          BY DEF TypeOK
        <4>2. QED
          BY <1>3, <2>1, <4>1, CounterSteps
      <3>2. QED
        BY <2>1, <2>f, <3>1, JustifiedKept DEF env
    <2>2. ASSUME NEW s \in Sessions, failed'[s] > 0 PROVE Justified(s)'
      <3>1. CASE failed[s] > 0
        <4>1. s # cur[r]
          BY <3>1 DEF OwnInv, Owned, Settled, InFlight, Holds, TypeOK
        <4>2. QED
          BY <3>1, <4>1, <2>1 DEF FailInv
      <3>2. CASE ~(failed[s] > 0)
        <4>1. pc[r] = "fail" /\ failed' = [failed EXCEPT ![cur[r]] = @ + 1]
          BY <1>3, <2>2, <3>2, FailSteps
        <4>2. s = cur[r]
          BY <2>2, <3>2, <4>1 DEF TypeOK
        <4>3. QED
          BY <4>1, <4>2, <2>1 DEF FailInv
      <3>3. QED
        BY <3>1, <3>2
    <2>3. ASSUME NEW q \in Replicas, q # r, pc'[q] = "fail"
          PROVE  Justified(cur[q])' /\ cur'[q] = cur[q]
      <3>1. pc[q] = "fail" /\ cur'[q] = cur[q] /\ cur[q] \in Sessions
        BY <2>3, <2>f, <1>c DEF Others, ProcessSteps
      <3>2. cur[q] # cur[r]
        BY <2>3, <3>1 DEF OwnInv, Owned, Alone, Holds
      <3>3. PICK x \in Sessions : x = cur[q]
        BY <3>1
      <3>4. Justified(x)'
        BY <3>1, <3>2, <3>3, <2>1 DEF FailInv
      <3>5. QED
        BY <3>1, <3>3, <3>4
    <2>4. ASSUME pc'[r] = "fail" PROVE Justified(cur[r])'
      <3>1. PICK x \in Sessions : x = cur[r] /\ x = cur'[r]
        BY <1>3, <2>4, <1>c, FailSteps
      <3>2. attempts' = attempts
        BY <1>3, <2>4, FailSteps
      <3>t. /\ Delay(attempts[x]) \in Nat \ {0} /\ attempts[x] \in Nat
            /\ now \in Int /\ expiresAt[x] \in Int
        BY DelayFits, ConfigAssumption DEF BackInv, TypeOK
      <3>3. CASE pc[r] = "get" /\ ~Present(cur[r])
        <4>1. ~(now < expiresAt[x])
          BY <3>1, <3>3 DEF HandInv, Carries, Present, ProcessSteps
        <4>2. QED
          BY <3>1, <3>2, <3>t, <4>1, <2>1 DEF Justified
      <3>4. CASE kind[cur[r]] \in {"malformed", "undecryptable"}
        BY <3>1, <3>2, <3>4, <2>1 DEF Justified
      <3>5. CASE pc[r] = "schedule" /\ ~MayRetry(r)
        <4>1. attempt[r] = attempts[x] \/ now >= expiresAt[x]
          BY <3>1, <3>5 DEF CountInv, Counted, Unrecorded
        <4>2. ~(attempt[r] < MaxAttempts /\ now + Delay(attempt[r]) <= expiresAt[x]
                /\ now < expiresAt[x])
          BY <3>1, <3>5 DEF MayRetry, NextAttempt
        <4>3. Justified(x)
          BY <3>t, <4>1, <4>2, ConfigAssumption DEF Justified
        <4>4. QED
          BY <3>1, <3>2, <4>3, <2>1
      <3>6. QED
        BY <1>3, <2>4, <3>3, <3>4, <3>5, FailSteps
    <2>5. QED
      BY <2>2, <2>3, <2>4 DEF FailInv
  <1>4. CASE UNCHANGED vars
    BY <1>4, <1>c DEF vars, env, store, worker, tally, FailInv, Justified
  <1>5. QED
    BY <1>1, <1>2, <1>3, <1>4 DEF Next

\* A session counted as failed had a payload that cannot be delivered, or used
\* up its attempts, or had no time left for another: no other error of
\* processOne ends in Terminal, as long as the calls of Schedule succeed.
THEOREM FailuresJustified ==
  ASSUME Faults \cap {"set", "zadd", "zaddAck", "attempts"} = {}, DurationsFit
  PROVE  Spec => []FailureJustified
  <1> DEFINE Inv == TypeOK /\ OwnInv /\ HandInv /\ CountInv /\ BackInv /\ FailInv
  <1>1. Init => Inv
    <2>1. Init => FailInv
      BY ConfigAssumption DEF Init, FailInv
    <2>2. QED
      BY <2>1, TypeInit, OwnInit, HandInit, CountInit, BackInit
  <1>2. Inv /\ [Next]_vars => Inv'
    BY TypeNext, OwnNext, HandNext, CountNext, BackNext, FailNext
  <1>3. Inv => FailureJustified
    BY DEF FailInv, Justified, FailureJustified
  <1>4. QED
    BY <1>1, <1>2, <1>3, PTL DEF Spec

-----------------------------------------------------------------------------
(* No session is dropped, and its row says what became of it *)

\* The failures that lose an id: a process that dies, a re-enqueue that fails,
\* an RPOP or ZREM that happened without an answer, and a ZREM that fails
\* after others of the same range succeeded.
Losing == {"crash", "lpush", "rpopAck", "zrem", "zremAck"}

\* A step of r that is no such failure.
NotLosing == faults' = faults \/ Faults \cap Losing = {}

LEMMA NotLosingFault ==
  ASSUME TypeOK, NotLosing, NEW f \in Losing PROVE ~Fault(f)
  BY DEF NotLosing, Fault, Losing, TypeOK

LEMMA TallySteps ==
  ASSUME TypeOK, NEW r \in Replicas, Work(r) \/ Crash(r)
  PROVE  /\ \/ delivered' = delivered
            \/ pc[r] = "done" /\ delivered' = [delivered EXCEPT ![cur[r]] = @ + 1]
         /\ \/ failed' = failed
            \/ pc[r] = "fail" /\ failed' = [failed EXCEPT ![cur[r]] = @ + 1]
  BY DEF Work, Crash, StartCycle, RPop, RPopEmpty, RPopFails, GetPayload, GetPayloadFails, Requeue, MarkDelivering, Deliver, MarkDelivered, Terminal, ReadAttempts, ScheduleRefused, ScheduleSet, ScheduleSetFails, ScheduleZAdd, ScheduleZAddFails, DueRange, DueRangeFails, DueClaim, DueClaimFails, DueClaimed, ProcessDue, EndCycle, tally

LEMMA SettledStays ==
  ASSUME TypeOK, NEW r \in Replicas, Work(r) \/ Crash(r),
         NEW s \in Sessions, Settled(s)
  PROVE  Settled(s)'
  <1>1. /\ delivered \in [Sessions -> Nat] /\ failed \in [Sessions -> Nat]
    BY DEF TypeOK
  <1>2. delivered'[s] \in {delivered[s], delivered[s] + 1}
    BY <1>1, TallySteps
  <1>3. failed'[s] \in {failed[s], failed[s] + 1}
    BY <1>1, TallySteps
  <1>4. QED
    BY <1>1, <1>2, <1>3 DEF Settled

\* Every step but those failures passes an id on, or counts its outcome.
LEMMA Flows ==
  ASSUME TypeOK, HandInv, NEW r \in Replicas, Work(r) \/ Crash(r), NotLosing,
         NEW s \in Sessions, InFlight(s)
  PROVE  InFlight(s)' \/ Settled(s)' \/ kind[s] = "pollOnly"
  <1> USE DEF store, worker, tally
  <1>f. Others(r) /\ UNCHANGED env
    BY WorkFrame
  <1>w. WorkerType /\ (pc[r] \in ProcessSteps => cur[r] \in Sessions)
    BY InHand DEF TypeOK
  <1>c. Carries(r)
    BY DEF HandInv
  <1>1. CASE \E q \in Replicas \ {r} : Holds(q, s)
    BY <1>1, <1>f DEF Others, Holds, InFlight
  <1>2. CASE InQueue(s) \/ s \in retry \/ Holds(r, s)
    <2>1. CASE StartCycle(r)
      BY <2>1, <1>2, <1>w, ConfigAssumption
      DEF StartCycle, Goto, WorkerType, InFlight, InQueue, Holds, ProcessSteps
    <2>2. CASE RPop(r)
      <3>1. InQueue(s) => InQueue(s)' \/ s = Head(queue)
        BY <2>2, QueueShrinks DEF RPop
      <3>2. QED
        BY <2>2, <1>2, <1>w, <3>1, ConfigAssumption
        DEF RPop, Process, WorkerType, InFlight, Holds, ProcessSteps
    <2>3. CASE RPopEmpty(r)
      BY <2>3, <1>2, <1>w, ConfigAssumption
      DEF RPopEmpty, Goto, WorkerType, InFlight, InQueue, Holds, ProcessSteps
    <2>4. CASE RPopFails(r)
      <3>1. UNCHANGED queue
        BY <2>4, NotLosingFault DEF RPopFails, Losing
      <3>2. QED
        BY <2>4, <1>2, <1>w, <3>1 DEF RPopFails, Goto, InFlight, InQueue, Holds
    <2>5. CASE GetPayload(r)
      <3>1. CASE Goto(r, "fail") \/ Goto(r, "mark")
        BY <2>5, <3>1, <1>2, <1>w DEF GetPayload, Goto, InFlight, InQueue, Holds
      <3>2. CASE kind[cur[r]] = "pollOnly" /\ Return(r)
        BY <2>5, <3>2, <1>2, <1>w, ConfigAssumption
        DEF GetPayload, Return, WorkerType, InFlight, InQueue, Holds
      <3>3. QED
        BY <2>5, <3>1, <3>2 DEF GetPayload
    <2>6. CASE GetPayloadFails(r)
      BY <2>6, <1>2, <1>w, ConfigAssumption
      DEF GetPayloadFails, Goto, WorkerType, InFlight, InQueue, Holds, ProcessSteps
    <2>7. CASE Requeue(r)
      <3>1. queue' = Append(queue, cur[r])
        BY <2>7, NotLosingFault DEF Requeue, Losing
      <3>2. InQueue(s)' <=> InQueue(s) \/ s = cur[r]
        BY <2>7, <1>w, <3>1, QueueAppend DEF Requeue, ProcessSteps
      <3>3. QED
        BY <2>7, <1>2, <1>w, <3>2, ConfigAssumption
        DEF Requeue, Return, WorkerType, InFlight, Holds
    <2>8. CASE MarkDelivering(r)
      BY <2>8, <1>2, <1>w, ConfigAssumption
      DEF MarkDelivering, Goto, WorkerType, InFlight, InQueue, Holds, ProcessSteps
    <2>9. CASE Deliver(r)
      BY <2>9, <1>2, <1>w, ConfigAssumption
      DEF Deliver, Goto, WorkerType, InFlight, InQueue, Holds, ProcessSteps
    <2>10. CASE MarkDelivered(r)
      <3>1. cur[r] \in Sessions
        BY <2>10, <1>w DEF MarkDelivered, ProcessSteps
      <3>2. s = cur[r] => Settled(s)'
        BY <2>10, <3>1 DEF MarkDelivered, Settled, TypeOK
      <3>3. s # cur[r] => InFlight(s)'
        BY <2>10, <1>2, <1>w, ConfigAssumption
        DEF MarkDelivered, Return, WorkerType, InFlight, InQueue, Holds
      <3>4. QED
        BY <3>2, <3>3
    <2>11. CASE Terminal(r)
      <3>1. cur[r] \in Sessions
        BY <2>11, <1>w DEF Terminal, ProcessSteps
      <3>2. s = cur[r] => Settled(s)'
        BY <2>11, <3>1 DEF Terminal, Settled, TypeOK
      <3>3. s # cur[r] => InFlight(s)'
        BY <2>11, <1>2, <1>w, ConfigAssumption
        DEF Terminal, Return, WorkerType, InFlight, InQueue, Holds
      <3>4. QED
        BY <3>2, <3>3
    <2>12. CASE ReadAttempts(r)
      BY <2>12, <1>2, <1>w, ConfigAssumption
      DEF ReadAttempts, WorkerType, InFlight, InQueue, Holds, ProcessSteps
    <2>13. CASE ScheduleRefused(r)
      BY <2>13, <1>2, <1>w, ConfigAssumption
      DEF ScheduleRefused, Goto, WorkerType, InFlight, InQueue, Holds, ProcessSteps
    <2>14. CASE ScheduleSet(r)
      BY <2>14, <1>2, <1>w, ConfigAssumption
      DEF ScheduleSet, WorkerType, InFlight, InQueue, Holds, ProcessSteps
    <2>15. CASE ScheduleSetFails(r)
      BY <2>15, <1>2, <1>w, ConfigAssumption
      DEF ScheduleSetFails, Goto, WorkerType, InFlight, InQueue, Holds, ProcessSteps
    <2>16. CASE ScheduleZAdd(r)
      BY <2>16, <1>2, <1>w, ConfigAssumption
      DEF ScheduleZAdd, Return, AddRetry, WorkerType, InFlight, InQueue, Holds, ProcessSteps
    <2>17. CASE ScheduleZAddFails(r)
      BY <2>17, <1>2, <1>w, ConfigAssumption
      DEF ScheduleZAddFails, Goto, AddRetry, WorkerType, InFlight, InQueue, Holds, ProcessSteps
    <2>18. CASE DueRange(r)
      BY <2>18, <1>2, <1>w, ConfigAssumption
      DEF DueRange, WorkerType, InFlight, InQueue, Holds, ProcessSteps
    <2>19. CASE DueRangeFails(r)
      <3>1. cur[r] = None /\ claimed[r] = {}
        BY <2>19, <1>w, <1>c DEF DueRangeFails, WorkerType, Carries, ProcessSteps
      <3>2. QED
        BY <2>19, <1>2, <3>1, ConfigAssumption DEF DueRangeFails, InFlight, InQueue, Holds
    <2>20. CASE DueClaim(r)
      <3>1. s \in retry => s \in retry' \/ s \in claimed'[r]
        BY <2>20, <1>w DEF DueClaim, RemoveRetry, Won, WorkerType
      <3>2. claimed[r] \subseteq claimed'[r]
        BY <2>20, <1>w DEF DueClaim, WorkerType
      <3>3. QED
        BY <2>20, <1>2, <3>1, <3>2 DEF DueClaim, InFlight, InQueue, Holds
    <2>21. CASE DueClaimFails(r)
      BY <2>21, NotLosingFault DEF DueClaimFails, Losing
    <2>22. CASE DueClaimed(r)
      BY <2>22, <1>2, <1>w, ConfigAssumption
      DEF DueClaimed, Goto, WorkerType, InFlight, InQueue, Holds, ProcessSteps
    <2>23. CASE ProcessDue(r)
      <3>1. PICK x \in claimed[r] :
              /\ cur' = [cur EXCEPT ![r] = x]
              /\ claimed' = [claimed EXCEPT ![r] = @ \ {x}]
        BY <2>23 DEF ProcessDue, Process
      <3>2. cur[r] = None /\ UNCHANGED <<queue, retry>>
        BY <2>23, <1>w DEF ProcessDue, WorkerType, ProcessSteps
      <3>3. Holds(r, s) => Holds(r, s)'
        BY <3>1, <3>2, <1>w, ConfigAssumption DEF Holds, WorkerType
      <3>4. QED
        BY <1>2, <3>2, <3>3 DEF InFlight, InQueue
    <2>24. CASE EndCycle(r)
      <3>1. cur[r] = None /\ claimed[r] = {}
        BY <2>24, <1>w, <1>c DEF EndCycle, WorkerType, Carries, ProcessSteps
      <3>2. QED
        BY <2>24, <1>2, <3>1, ConfigAssumption DEF EndCycle, InFlight, InQueue, Holds
    <2>25. CASE Crash(r)
      BY <2>25, NotLosingFault DEF Crash, Losing
    <2>26. QED
      BY <2>1, <2>2, <2>3, <2>4, <2>5, <2>6, <2>7, <2>8, <2>9, <2>10, <2>11, <2>12, <2>13, <2>14, <2>15, <2>16, <2>17, <2>18, <2>19, <2>20, <2>21, <2>22, <2>23, <2>24, <2>25 DEF Work
  <1>3. QED
    BY <1>1, <1>2 DEF InFlight, Holds

LEMMA DropNext ==
  ASSUME Faults \cap Losing = {}, TypeOK, HandInv, NoSilentDrop, [Next]_vars
  PROVE  NoSilentDrop'
  <1>1. CASE Clock
    BY <1>1 DEF Clock, store, worker, tally, NoSilentDrop, InFlight, InQueue,
                Holds, Settled
  <1>2. ASSUME NEW s \in Sessions, Handoff(s) PROVE NoSilentDrop'
    <2>1. \A t \in Sessions : InQueue(t)' <=> InQueue(t) \/ t = s
      BY <1>2, QueueAppend DEF Handoff
    <2>2. \A t \in Sessions \ {s} : kind'[t] = kind[t]
      BY <1>2 DEF Handoff, TypeOK
    <2>3. QED
      BY <1>2, <2>1, <2>2 DEF Handoff, worker, tally, NoSilentDrop, InFlight,
                              Holds, Settled
  <1>3. ASSUME NEW r \in Replicas, Work(r) \/ Crash(r) PROVE NoSilentDrop'
    BY <1>3, WorkFrame, Flows, SettledStays DEF NotLosing, NoSilentDrop, env
  <1>4. CASE UNCHANGED vars
    BY <1>4 DEF vars, env, store, worker, tally, NoSilentDrop, InFlight, InQueue,
                Holds, Settled
  <1>5. QED
    BY <1>1, <1>2, <1>3, <1>4 DEF Next

\* A session handed off with a webhook is queued, waiting for a retry, in a
\* replica's hand or settled, whatever fails outside Losing.
THEOREM NothingDropped ==
  ASSUME Faults \cap Losing = {} PROVE Spec => []NoSilentDrop
  <1>1. Init => NoSilentDrop
    BY DEF Init, NoSilentDrop
  <1>2. TypeOK /\ HandInv /\ NoSilentDrop /\ [Next]_vars => NoSilentDrop'
    BY DropNext
  <1>3. QED
    BY <1>1, <1>2, TypeInit, TypeNext, HandInit, HandNext, PTL DEF Spec

\* The row of a session in transit may say "delivering" only for a payload
\* with a webhook.
RowInv ==
    /\ StateMatchesOutcome
    /\ \A s \in Sessions :
          wstate[s] = "delivering" => kind[s] \in {"ok", "undecryptable"}

\* Who writes the row, and what.
LEMMA RowSteps ==
  ASSUME "state" \notin Faults, TypeOK, NEW r \in Replicas, Work(r) \/ Crash(r)
  PROVE  \/ UNCHANGED <<wstate, delivered, failed>>
         \/ /\ pc[r] = "mark" /\ UNCHANGED <<delivered, failed>>
            /\ wstate' = [wstate EXCEPT ![cur[r]] = "delivering"]
            /\ cur' = cur
         \/ /\ pc[r] = "done" /\ UNCHANGED failed
            /\ wstate' = [wstate EXCEPT ![cur[r]] = "delivered"]
            /\ delivered' = [delivered EXCEPT ![cur[r]] = @ + 1]
         \/ /\ pc[r] = "fail" /\ UNCHANGED delivered
            /\ wstate' = [wstate EXCEPT ![cur[r]] = "failed"]
            /\ failed' = [failed EXCEPT ![cur[r]] = @ + 1]
  BY DEF Work, Crash, StartCycle, RPop, RPopEmpty, RPopFails, GetPayload, GetPayloadFails, Requeue, MarkDelivering, Deliver, MarkDelivered, Terminal, ReadAttempts, ScheduleRefused, ScheduleSet, ScheduleSetFails, ScheduleZAdd, ScheduleZAddFails, DueRange, DueRangeFails, DueClaim, DueClaimFails, DueClaimed, ProcessDue, EndCycle, SetWebhookState, Fault, Goto, tally, worker

LEMMA FaultsGrow ==
  ASSUME TypeOK, NEW r \in Replicas, Work(r) \/ Crash(r), faults' = 0
  PROVE  faults' = faults
  BY DEF Work, Crash, StartCycle, RPop, RPopEmpty, RPopFails, GetPayload, GetPayloadFails, Requeue, MarkDelivering, Deliver, MarkDelivered, Terminal, ReadAttempts, ScheduleRefused, ScheduleSet, ScheduleSetFails, ScheduleZAdd, ScheduleZAddFails, DueRange, DueRangeFails, DueClaim, DueClaimFails, DueClaimed, ProcessDue, EndCycle, SetWebhookState, Fault, TypeOK

LEMMA RowNext ==
  ASSUME Faults \cap {"state", "zaddAck"} = {},
         TypeOK, OwnInv, HandInv, RowInv, [Next]_vars
  PROVE  RowInv'
  <1>1. CASE Clock
    BY <1>1 DEF Clock, store, worker, tally, RowInv, StateMatchesOutcome,
                InFlight, InQueue, Holds
  <1>2. ASSUME NEW s \in Sessions, Handoff(s) PROVE RowInv'
    <2>1. \A t \in Sessions : InQueue(t)' <=> InQueue(t) \/ t = s
      BY <1>2, QueueAppend DEF Handoff
    <2>2. \A t \in Sessions \ {s} : kind'[t] = kind[t]
      BY <1>2 DEF Handoff, TypeOK
    <2>3. wstate[s] = "pending"
      BY <1>2 DEF Handoff, HandInv, Kept
    <2>4. QED
      BY <1>2, <2>1, <2>2, <2>3
      DEF Handoff, worker, tally, RowInv, StateMatchesOutcome, InFlight, Holds
  <1>3. ASSUME NEW r \in Replicas, Work(r) \/ Crash(r), NEW s \in Sessions
        PROVE  /\ delivered'[s] > 0 => wstate'[s] = "delivered"
               /\ failed'[s] > 0 => wstate'[s] = "failed"
               /\ wstate'[s] = "delivering" =>
                     /\ kind'[s] \in {"ok", "undecryptable"}
                     /\ faults' = 0 => InFlight(s)'
    <2>f. UNCHANGED env
      BY <1>3, WorkFrame
    <2>t. /\ delivered \in [Sessions -> Nat] /\ failed \in [Sessions -> Nat]
          /\ DOMAIN wstate = Sessions
      BY DEF TypeOK
    <2>h. cur[r] = s => delivered[s] = 0 /\ failed[s] = 0
      BY <2>t DEF OwnInv, Owned, InFlight, Holds, Settled
    <2>1. s # cur[r] => UNCHANGED <<wstate[s], delivered[s], failed[s]>>
      BY <1>3, <2>t, RowSteps
    <2>2. CASE UNCHANGED <<wstate[s], delivered[s], failed[s]>>
      <3>1. wstate[s] = "delivering" /\ faults' = 0 => InFlight(s)'
        <4>1. SUFFICES ASSUME wstate[s] = "delivering", faults' = 0
                       PROVE  InFlight(s)'
          OBVIOUS
        <4>2. faults' = faults /\ InFlight(s)
          BY <1>3, <4>1, FaultsGrow DEF RowInv, StateMatchesOutcome
        <4>3. ~Settled(s)'
          BY <2>2, <2>t, <4>1 DEF RowInv, StateMatchesOutcome, Settled
        <4>4. kind[s] # "pollOnly"
          BY <4>1 DEF RowInv
        <4>5. QED
          BY <1>3, <4>2, <4>3, <4>4, Flows DEF NotLosing
      <3>2. QED
        BY <2>2, <2>f, <3>1 DEF RowInv, StateMatchesOutcome, env
    <2>3. CASE s = cur[r] /\ pc[r] = "mark" /\ UNCHANGED <<delivered, failed>>
               /\ wstate' = [wstate EXCEPT ![cur[r]] = "delivering"] /\ cur' = cur
      <3>1. InFlight(s)' /\ kind[s] \in {"ok", "undecryptable"}
        BY <2>3 DEF InFlight, Holds, HandInv, Carries
      <3>2. QED
        BY <2>3, <2>f, <2>t, <2>h, <3>1 DEF env
    <2>4. CASE /\ s = cur[r] /\ UNCHANGED failed
               /\ wstate' = [wstate EXCEPT ![cur[r]] = "delivered"]
      BY <2>4, <2>t, <2>h
    <2>5. CASE /\ s = cur[r] /\ UNCHANGED delivered
               /\ wstate' = [wstate EXCEPT ![cur[r]] = "failed"]
      BY <2>5, <2>t, <2>h
    <2>6. QED
      BY <1>3, <2>1, <2>2, <2>3, <2>4, <2>5, RowSteps
  <1>4. CASE UNCHANGED vars
    BY <1>4 DEF vars, env, store, worker, tally, RowInv, StateMatchesOutcome,
                InFlight, InQueue, Holds
  <1>5. QED
    BY <1>1, <1>2, <1>3, <1>4 DEF Next, RowInv, StateMatchesOutcome

\* The session row and the outcome metrics agree for good, and without a
\* failure a row that says "delivering" has a delivery behind it, when writes
\* of the row succeed and a ZADD reported as failed did not happen.
THEOREM RowsMatch ==
  ASSUME Faults \cap {"state", "zaddAck"} = {}
  PROVE  Spec => []StateMatchesOutcome
  <1>1. Init => RowInv
    BY DEF Init, RowInv, StateMatchesOutcome
  <1>2. TypeOK /\ OwnInv /\ HandInv /\ RowInv /\ [Next]_vars => RowInv'
    BY RowNext
  <1>3. RowInv => StateMatchesOutcome
    BY DEF RowInv
  <1>4. TypeOK /\ OwnInv /\ [Next]_vars => OwnInv'
    BY OwnNext
  <1>5. QED
    BY <1>1, <1>2, <1>3, <1>4, OwnInit, TypeInit, TypeNext, HandInit, HandNext, PTL
    DEF Spec

-----------------------------------------------------------------------------
(* The consumer implements the contract *)

\* What a replica's step is to a client of the contract.
LEMMA ContractSteps ==
  ASSUME TypeOK, NEW r \in Replicas, Work(r) \/ Crash(r)
  PROVE  \/ UNCHANGED tally
         \/ /\ pc[r] = "post" /\ kind[cur[r]] = "ok"
            /\ posts' = [posts EXCEPT ![cur[r]] = @ + 1]
            /\ UNCHANGED <<delivered, failed>>
         \/ /\ pc[r] = "done"
            /\ delivered' = [delivered EXCEPT ![cur[r]] = @ + 1]
            /\ UNCHANGED <<failed, posts>>
         \/ /\ pc[r] = "fail"
            /\ failed' = [failed EXCEPT ![cur[r]] = @ + 1]
            /\ UNCHANGED <<delivered, posts>>
  BY DEF Work, Crash, StartCycle, RPop, RPopEmpty, RPopFails, GetPayload, GetPayloadFails, Requeue, MarkDelivering, Deliver, MarkDelivered, Terminal, ReadAttempts, ScheduleRefused, ScheduleSet, ScheduleSetFails, ScheduleZAdd, ScheduleZAddFails, DueRange, DueRangeFails, DueClaim, DueClaimFails, DueClaimed, ProcessDue, EndCycle, tally

\* The outcome of a session in a replica's hand is open.
LEMMA InHandOpen ==
  ASSUME TypeOK, OwnInv, HandInv, NEW r \in Replicas, pc[r] \in ProcessSteps,
         NEW x \in Sessions, x = cur[r]
  PROVE  /\ delivered[x] = 0 /\ failed[x] = 0 /\ kind[x] # "none"
         /\ Outcome(x) = IF kind[x] = "pollOnly" THEN "pollOnly" ELSE "owed"
  <1>1. ~Settled(x) /\ kind[x] # "none"
    BY DEF OwnInv, Owned, InFlight, Holds, HandInv, Carries
  <1>2. delivered[x] = 0 /\ failed[x] = 0
    BY <1>1 DEF Settled, TypeOK
  <1>3. QED
    BY <1>1, <1>2 DEF Outcome

LEMMA OutcomeKept ==
  ASSUME NEW s \in Sessions, kind'[s] = kind[s],
         delivered'[s] = delivered[s], failed'[s] = failed[s]
  PROVE  Outcome(s)' = Outcome(s)
  BY DEF Outcome, Settled

LEMMA ContractInit == Init => Contract!Init
  BY DEF Init, Contract!Init, Outcome, Settled

LEMMA ContractNext ==
  ASSUME TypeOK, OwnInv, HandInv, CountInv, [Next]_vars
  PROVE  [Contract!Next]_(Contract!vars)
  <1> DEFINE status == [s \in Sessions |-> Outcome(s)]
  <1> USE DEF Contract!vars
  <1>1. ASSUME NEW x \in Sessions, kind' = kind,
               \A s \in Sessions \ {x} : /\ delivered'[s] = delivered[s]
                                         /\ failed'[s] = failed[s]
        PROVE  status' = [status EXCEPT ![x] = Outcome(x)']
    BY <1>1, OutcomeKept
  <1>2. ASSUME UNCHANGED <<kind, delivered, failed>> PROVE status' = status
    BY <1>2, OutcomeKept
  <1>3. CASE Clock \/ UNCHANGED vars
    BY <1>2, <1>3 DEF Clock, vars, env, tally
  <1>4. ASSUME NEW x \in Sessions, Handoff(x) PROVE Contract!Next
    <2>1. /\ delivered[x] = 0 /\ failed[x] = 0 /\ kind[x] = "none"
          /\ kind'[x] \in AllKinds /\ UNCHANGED tally
          /\ \A s \in Sessions \ {x} : kind'[s] = kind[s]
      BY <1>4, ConfigAssumption DEF Handoff, HandInv, Kept, TypeOK
    <2>2. \A s \in Sessions \ {x} : Outcome(s)' = Outcome(s)
      BY <2>1, OutcomeKept DEF tally
    <2>3. Outcome(x) = "none" /\ Outcome(x)' \in {"owed", "pollOnly"}
      BY <2>1 DEF Outcome, Settled, AllKinds, tally
    <2>4. status' = [status EXCEPT ![x] = Outcome(x)']
      BY <2>2
    <2>5. Contract!Finish(x)
      BY <2>1, <2>3, <2>4 DEF Contract!Finish, tally
    <2>6. QED
      BY <2>5 DEF Contract!Next
  <1>5. ASSUME NEW r \in Replicas, Work(r) \/ Crash(r)
        PROVE  Contract!Next \/ UNCHANGED Contract!vars
    <2>f. kind' = kind
      BY <1>5, WorkFrame DEF env
    <2>t. /\ delivered \in [Sessions -> Nat] /\ failed \in [Sessions -> Nat]
          /\ posts \in [Sessions -> Nat] /\ attempts \in [Sessions -> 0..MaxAttempts]
      BY DEF TypeOK
    <2>1. CASE UNCHANGED tally
      BY <2>1, <2>f, <1>2 DEF tally
    <2>2. CASE /\ pc[r] = "post" /\ kind[cur[r]] = "ok"
               /\ posts' = [posts EXCEPT ![cur[r]] = @ + 1]
               /\ UNCHANGED <<delivered, failed>>
      <3>1. PICK x \in Sessions : x = cur[r]
        BY <2>2, InHand DEF TypeOK, ProcessSteps
      <3>2. Outcome(x) = "owed"
        BY <2>2, <3>1, InHandOpen DEF ProcessSteps
      <3>3. posts[x] < MaxAttempts + 1
        BY <2>2, <3>1, <2>t, ConfigAssumption DEF CountInv, Counted, Even, EvenSteps
      <3>4. status' = status
        BY <2>2, <2>f, <1>2
      <3>5. Contract!Post(x)
        BY <2>2, <3>1, <3>2, <3>3, <3>4 DEF Contract!Post
      <3>6. QED
        BY <3>5 DEF Contract!Next
    <2>3. CASE /\ pc[r] = "done"
               /\ delivered' = [delivered EXCEPT ![cur[r]] = @ + 1]
               /\ UNCHANGED <<failed, posts>>
      <3>1. PICK x \in Sessions : x = cur[r]
        BY <2>3, InHand DEF TypeOK, ProcessSteps
      <3>2. /\ Outcome(x) = "owed" /\ posts[x] > 0
            /\ delivered[x] = 0 /\ failed[x] = 0
        BY <2>3, <3>1, InHandOpen DEF HandInv, Carries, ProcessSteps
      <3>3. delivered'[x] = 1 /\ failed'[x] = 0
        BY <2>3, <3>1, <3>2, <2>t
      <3>4. Outcome(x)' = "delivered"
        BY <3>3 DEF Outcome, Settled
      <3>5. status' = [status EXCEPT ![x] = "delivered"]
        BY <2>3, <2>t, <2>f, <3>1, <3>4, <1>1
      <3>6. Contract!Deliver(x)
        BY <2>3, <3>2, <3>5 DEF Contract!Deliver
      <3>7. QED
        BY <3>6 DEF Contract!Next
    <2>4. CASE /\ pc[r] = "fail"
               /\ failed' = [failed EXCEPT ![cur[r]] = @ + 1]
               /\ UNCHANGED <<delivered, posts>>
      <3>1. PICK x \in Sessions : x = cur[r]
        BY <2>4, InHand DEF TypeOK, ProcessSteps
      <3>2. /\ Outcome(x) \in {"owed", "pollOnly"}
            /\ delivered[x] = 0 /\ failed[x] = 0
        BY <2>4, <3>1, InHandOpen DEF ProcessSteps
      <3>3. delivered'[x] = 0 /\ failed'[x] = 1
        BY <2>4, <3>1, <3>2, <2>t
      <3>4. Outcome(x)' = "failed"
        BY <3>3 DEF Outcome, Settled
      <3>5. status' = [status EXCEPT ![x] = "failed"]
        BY <2>4, <2>t, <2>f, <3>1, <3>4, <1>1
      <3>6. Contract!Fail(x)
        BY <2>4, <3>2, <3>5 DEF Contract!Fail
      <3>7. QED
        BY <3>6 DEF Contract!Next
    <2>5. QED
      BY <1>5, <2>1, <2>2, <2>3, <2>4, ContractSteps
  <1>6. QED
    BY <1>3, <1>4, <1>5 DEF Next

\* The replicas, queue and retry set together implement one delivery per
\* session: a Handoff is Finish, a send is Post, counting an outcome is Deliver
\* or Fail, and every other step is invisible.
THEOREM ImplementsContract ==
  ASSUME Faults \cap {"attempts", "zaddAck"} = {}
  PROVE  Spec => ContractSpec
  <1>1. Init => Contract!Init
    BY ContractInit
  <1>2. TypeOK /\ OwnInv /\ HandInv /\ CountInv /\ [Next]_vars
          => [Contract!Next]_(Contract!vars)
    BY ContractNext
  <1>3. QED
    BY <1>1, <1>2, CountAlways, PTL DEF Spec, ContractSpec, Contract!Spec
-----------------------------------------------------------------------------
(* What a client accepted is not sent again, whatever fails *)

Waits(s) == InQueue(s) \/ s \in retry

\* r may still come to send s.  After a ZADD whose reply was lost s may be in the
\* retry set and in r's hand at once, but then r is about to count it as failed.
MaySend(r, s) == s \in claimed[r] \/ (cur[r] = s /\ pc[r] # "fail")

\* One place at most leads to a send of s, and none before the handoff or once s
\* was delivered.
Sole(s) ==
    /\ ~(InQueue(s) /\ s \in retry)
    /\ \A r \in Replicas :
          MaySend(r, s) => /\ ~Waits(s)
                           /\ ~(cur[r] = s /\ pc[r] # "fail" /\ s \in claimed[r])
                           /\ \A q \in Replicas : MaySend(q, s) => q = r
    /\ kind[s] = "none" \/ delivered[s] > 0
          => ~Waits(s) /\ \A r \in Replicas : ~MaySend(r, s)
    /\ kind[s] = "none" => delivered[s] = 0
    /\ delivered[s] <= 1

SoleInv == QueueOnce /\ \A s \in Sessions : Sole(s)

\* r takes nothing up.
Loosens(r) ==
    /\ cur'[r] = None \/ (cur'[r] = cur[r] /\ (pc'[r] = "fail" \/ pc[r] # "fail"))
    /\ claimed'[r] \subseteq claimed[r]

\* No new place leads to a send of s.
Fades(s) ==
    /\ InQueue(s)' => InQueue(s)
    /\ s \in retry' => s \in retry
    /\ \A r \in Replicas :
          /\ cur'[r] = s /\ pc'[r] # "fail" => cur[r] = s /\ pc[r] # "fail"
          /\ s \in claimed'[r] => s \in claimed[r]
    /\ kind'[s] = kind[s] /\ delivered'[s] = delivered[s]

LEMMA SoleKept ==
  ASSUME NEW s \in Sessions, Sole(s), Fades(s) PROVE Sole(s)'
  <1>1. ASSUME NEW r \in Replicas, MaySend(r, s)' PROVE MaySend(r, s)
    <2>1. s \in claimed'[r] \/ (cur'[r] = s /\ pc'[r] # "fail")
      BY <1>1 DEF MaySend
    <2>2. s \in claimed[r] \/ (cur[r] = s /\ pc[r] # "fail")
      BY <2>1 DEF Fades
    <2>3. QED
      BY <2>2 DEF MaySend
  <1>2. Waits(s)' => Waits(s)
    BY DEF Waits, Fades
  <1>3. ~(InQueue(s) /\ s \in retry)'
    BY DEF Sole, Fades
  <1>4. ASSUME NEW r \in Replicas, MaySend(r, s)'
        PROVE  /\ ~Waits(s)'
               /\ ~(cur[r] = s /\ pc[r] # "fail" /\ s \in claimed[r])'
               /\ \A q \in Replicas : MaySend(q, s)' => q = r
    BY <1>1, <1>2, <1>4 DEF Sole, Fades
  <1>5. (kind[s] = "none" \/ delivered[s] > 0)'
           => ~Waits(s)' /\ \A r \in Replicas : ~MaySend(r, s)'
    BY <1>1, <1>2 DEF Sole, Fades
  <1>6. (kind[s] = "none" => delivered[s] = 0)' /\ (delivered[s] <= 1)'
    BY DEF Sole, Fades
  <1>7. QED
    BY <1>3, <1>4, <1>5, <1>6 DEF Sole

LEMMA HandsLoosen ==
  ASSUME TypeOK, NEW r \in Replicas,
         (pc[r] # "fail" /\ \E l \in LoopSteps \cup ProcessSteps : Goto(r, l))
            \/ Return(r) \/ Reset(r)
  PROVE  \A q \in Replicas : Loosens(q)
  <1>t. /\ DOMAIN pc = Replicas /\ DOMAIN cur = Replicas
        /\ DOMAIN claimed = Replicas
    BY DEF TypeOK, WorkerType
  <1>1. CASE pc[r] # "fail" /\ \E l \in LoopSteps \cup ProcessSteps : Goto(r, l)
    <2>1. UNCHANGED <<cur, claimed>>
      BY <1>1 DEF Goto
    <2>2. \A q \in Replicas : pc[q] # "fail" \/ pc'[q] = pc[q]
      BY <1>1, <1>t DEF Goto
    <2>3. QED
      BY <2>1, <2>2 DEF Loosens
  <1>2. CASE Return(r) \/ Reset(r)
    <2>1. \A q \in Replicas : /\ claimed'[q] \subseteq claimed[q]
                              /\ cur'[q] = None \/ (cur'[q] = cur[q] /\ pc'[q] = pc[q])
      BY <1>2, <1>t DEF Return, Reset
    <2>2. QED
      BY <2>1 DEF Loosens
  <1>3. QED
    BY <1>1, <1>2

\* A step that takes nothing up and delivers nothing.
LEMMA SoleShrinks ==
  ASSUME TypeOK, SoleInv, UNCHANGED <<kind, delivered>>,
         queue' = queue \/ (queue # <<>> /\ queue' = Tail(queue)),
         retry' \subseteq retry,
         \A r \in Replicas : Loosens(r)
  PROVE  SoleInv'
  <1>1. QueueOnce' /\ \A s \in Sessions : InQueue(s)' => InQueue(s)
    <2>1. CASE queue' = queue
      BY <2>1 DEF SoleInv, QueueOnce, InQueue
    <2>2. CASE queue # <<>> /\ queue' = Tail(queue)
      BY <2>2, QueueTail DEF SoleInv
    <2>3. QED
      BY <2>1, <2>2
  <1>2. ASSUME NEW s \in Sessions PROVE Fades(s)
    BY <1>1, ConfigAssumption DEF Fades, Loosens
  <1>3. QED
    BY <1>1, <1>2, SoleKept DEF SoleInv

\* A step that moves one session.
LEMMA SoleMoves ==
  ASSUME SoleInv, QueueOnce', NEW x \in Sessions, Sole(x)',
         \A s \in Sessions \ {x} : Fades(s)
  PROVE  SoleInv'
  <1>1. \A s \in Sessions : Sole(s)'
    BY SoleKept DEF SoleInv
  <1>2. QED
    BY <1>1 DEF SoleInv

LEMMA SoleInit == Init => SoleInv
  BY ConfigAssumption
  DEF Init, SoleInv, QueueOnce, Sole, Waits, InQueue, MaySend

LEMMA SoleHandoff ==
  ASSUME TypeOK, SoleInv, NEW s \in Sessions, Handoff(s) PROVE SoleInv'
  <1> USE DEF env, store, worker, tally
  <1>1. /\ kind[s] = "none" /\ ~Waits(s) /\ delivered[s] = 0
        /\ \A r \in Replicas : ~MaySend(r, s)
    BY DEF Handoff, SoleInv, Sole
  <1>2. QueueOnce' /\ \A t \in Sessions : InQueue(t)' <=> InQueue(t) \/ t = s
    BY <1>1, QueueAppend DEF Handoff, SoleInv, Waits
  <1>3. kind'[s] # "none" /\ \A t \in Sessions \ {s} : kind'[t] = kind[t]
    BY ConfigAssumption DEF Handoff, TypeOK, AllKinds
  <1>4. UNCHANGED <<retry, cur, pc, claimed, delivered>>
    BY DEF Handoff
  <1>5. \A t \in Sessions \ {s} : Fades(t)
    BY <1>2, <1>3, <1>4 DEF Fades
  <1>6. Sole(s)'
    BY <1>1, <1>2, <1>3, <1>4 DEF Sole, Waits, MaySend
  <1>7. QED
    BY <1>2, <1>5, <1>6, SoleMoves

\* The steps of r that take an id up, put it down or count it delivered.
LEMMA SoleTakes ==
  ASSUME TypeOK, SoleInv, NEW r \in Replicas,
         RPop(r) \/ DueClaim(r) \/ ProcessDue(r)
  PROVE  SoleInv'
  <1> USE DEF env, store, worker, tally
  <1>w. WorkerType
    BY DEF TypeOK
  <1>1. CASE RPop(r)
    <2>1. PICK x \in Sessions : x = Head(queue)
      BY <1>1, QueueTail DEF RPop, SoleInv
    <2>2. /\ InQueue(x) /\ QueueOnce'
          /\ \A t \in Sessions : InQueue(t)' <=> InQueue(t) /\ t # x
      BY <1>1, <2>1, QueueTail DEF RPop, SoleInv
    <2>3. /\ cur' = [cur EXCEPT ![r] = x] /\ pc' = [pc EXCEPT ![r] = "get"]
          /\ UNCHANGED <<retry, claimed, kind, delivered>>
      BY <1>1, <2>1 DEF RPop, Process
    <2>4. cur[r] = None /\ cur \in [Replicas -> Sessions \cup {None}]
          /\ DOMAIN pc = Replicas
      BY <1>1, <1>w DEF RPop, WorkerType, ProcessSteps
    <2>5. \A t \in Sessions \ {x} : Fades(t)
      BY <2>2, <2>3, <2>4 DEF Fades
    <2>6. Sole(x) /\ Waits(x) /\ kind[x] # "none" /\ delivered[x] = 0
      BY <2>2, <1>w DEF SoleInv, Waits, Sole, TypeOK
    <2>7. /\ ~Waits(x)' /\ x \notin claimed'[r]
          /\ \A q \in Replicas : MaySend(q, x)' => q = r
      <3>1. \A q \in Replicas : ~MaySend(q, x)
        BY <2>6 DEF Sole
      <3>2. ~Waits(x)'
        BY <2>2, <2>3, <2>6 DEF Sole, Waits
      <3>3. x \notin claimed'[r]
        BY <2>3, <3>1 DEF MaySend
      <3>4. ASSUME NEW q \in Replicas, MaySend(q, x)', q # r PROVE FALSE
        BY <2>3, <2>4, <3>1, <3>4 DEF MaySend
      <3>5. QED
        BY <3>2, <3>3, <3>4
    <2>8. Sole(x)'
      BY <2>3, <2>6, <2>7 DEF Sole, Waits
    <2>9. QED
      BY <2>2, <2>5, <2>8, SoleMoves
  <1>2. CASE DueClaim(r)
    <2>1. PICK x \in due[r] :
            /\ claimed' = [claimed EXCEPT ![r] = IF Won(x) THEN @ \cup {x} ELSE @]
            /\ RemoveRetry(x)
      BY <1>2 DEF DueClaim
    <2>2. x \in Sessions /\ UNCHANGED <<queue, cur, pc, kind, delivered>>
      BY <1>2, <1>w DEF DueClaim, WorkerType
    <2>3. QueueOnce' /\ \A t \in Sessions : InQueue(t)' <=> InQueue(t)
      BY <2>2 DEF SoleInv, QueueOnce, InQueue
    <2>4. CASE x \in retry
      <3>1. /\ retry' = retry \ {x}
            /\ claimed' = [claimed EXCEPT ![r] = @ \cup {x}]
        BY <2>1, <2>4 DEF RemoveRetry, Won
      <3>2. /\ Sole(x) /\ Waits(x) /\ ~InQueue(x) /\ kind[x] # "none"
            /\ delivered[x] = 0 /\ \A q \in Replicas : ~MaySend(q, x)
        BY <2>2, <2>4 DEF SoleInv, Sole, Waits, TypeOK
      <3>3. \A t \in Sessions \ {x} : Fades(t)
        BY <2>2, <2>3, <3>1, <1>w DEF Fades, WorkerType
      <3>4. cur[r] = None
        BY <1>2, <1>w DEF DueClaim, WorkerType, ProcessSteps
      <3>5. /\ ~Waits(x)' /\ cur'[r] # x
            /\ \A q \in Replicas : MaySend(q, x)' => q = r
        BY <2>2, <2>3, <3>1, <3>2, <3>4, <1>w, ConfigAssumption
        DEF Waits, MaySend, WorkerType
      <3>6. Sole(x)'
        BY <2>2, <3>2, <3>5 DEF Sole, Waits
      <3>7. QED
        BY <2>2, <2>3, <3>3, <3>6, SoleMoves
    <2>5. CASE x \notin retry
      <3>1. retry' \subseteq retry /\ claimed' = claimed
        BY <2>1, <2>5, <1>w DEF RemoveRetry, Won, WorkerType
      <3>2. \A s \in Sessions : Fades(s)
        BY <2>2, <2>3, <3>1 DEF Fades
      <3>3. QED
        BY <2>3, <3>2, SoleKept DEF SoleInv
    <2>6. QED
      BY <2>4, <2>5
  <1>3. CASE ProcessDue(r)
    <2>1. PICK x \in claimed[r] :
            /\ cur' = [cur EXCEPT ![r] = x] /\ pc' = [pc EXCEPT ![r] = "get"]
            /\ claimed' = [claimed EXCEPT ![r] = @ \ {x}]
      BY <1>3 DEF ProcessDue, Process
    <2>2. x \in Sessions /\ UNCHANGED <<queue, retry, kind, delivered>> /\ cur[r] = None
      BY <1>3, <1>w DEF ProcessDue, WorkerType, ProcessSteps
    <2>3. QueueOnce' /\ \A t \in Sessions : InQueue(t)' <=> InQueue(t)
      BY <2>2 DEF SoleInv, QueueOnce, InQueue
    <2>4. /\ Sole(x) /\ MaySend(r, x) /\ ~Waits(x) /\ kind[x] # "none"
          /\ ~(delivered[x] > 0)
      <3>1. Sole(x) /\ MaySend(r, x)
        BY <2>2 DEF SoleInv, MaySend
      <3>2. QED
        BY <3>1 DEF Sole
    <2>5. \A t \in Sessions \ {x} : Fades(t)
      BY <2>1, <2>2, <2>3, <1>w DEF Fades, WorkerType
    <2>6. /\ ~Waits(x)' /\ x \notin claimed'[r]
          /\ \A q \in Replicas : MaySend(q, x)' => q = r
      BY <2>1, <2>2, <2>3, <2>4, <1>w DEF Sole, Waits, MaySend, WorkerType
    <2>7. Sole(x)'
      BY <2>2, <2>4, <2>6 DEF Sole, Waits
    <2>8. QED
      BY <2>2, <2>3, <2>5, <2>7, SoleMoves
  <1>4. QED
    BY <1>1, <1>2, <1>3

LEMMA SolePuts ==
  ASSUME TypeOK, SoleInv, NEW r \in Replicas,
         Requeue(r) \/ ScheduleZAdd(r) \/ ScheduleZAddFails(r) \/ MarkDelivered(r)
  PROVE  SoleInv'
  <1> USE DEF env, store, worker, tally
  <1>w. WorkerType
    BY DEF TypeOK
  <1>p. pc[r] \in {"requeue", "zadd", "done"}
    BY DEF Requeue, ScheduleZAdd, ScheduleZAddFails, MarkDelivered
  <1>x. PICK x \in Sessions : x = cur[r]
    BY <1>w, <1>p, InHand DEF ProcessSteps
  <1>m. /\ Sole(x) /\ MaySend(r, x) /\ ~Waits(x) /\ kind[x] # "none"
        /\ delivered[x] = 0 /\ x \notin claimed[r]
        /\ \A q \in Replicas : MaySend(q, x) => q = r
    <2>1. Sole(x) /\ MaySend(r, x)
      BY <1>x, <1>p DEF SoleInv, MaySend
    <2>2. delivered[x] \in Nat /\ ~(delivered[x] > 0)
      BY <2>1 DEF Sole, TypeOK
    <2>3. QED
      BY <2>1, <2>2, <1>x, <1>p DEF Sole
  \* The id leaves r's hand, or is there to be failed only.
  <1>h. ASSUME Return(r) \/ Goto(r, "fail")
        PROVE  /\ claimed' = claimed
               /\ \A q \in Replicas : ~MaySend(q, x)'
               /\ \A t \in Sessions \ {x}, q \in Replicas :
                     cur'[q] = t /\ pc'[q] # "fail" => cur[q] = t /\ pc[q] # "fail"
    BY <1>h, <1>x, <1>m, <1>w, ConfigAssumption
    DEF Return, Goto, MaySend, WorkerType
  <1>1. CASE Requeue(r) /\ queue' = Append(queue, x)
    <2>1. QueueOnce' /\ \A t \in Sessions : InQueue(t)' <=> InQueue(t) \/ t = x
      BY <1>1, <1>m, QueueAppend DEF SoleInv, Waits
    <2>2. UNCHANGED <<retry, kind, delivered>> /\ Return(r)
      BY <1>1 DEF Requeue
    <2>3. \A t \in Sessions \ {x} : Fades(t)
      BY <2>1, <2>2, <1>h DEF Fades
    <2>4. Sole(x)'
      BY <2>1, <2>2, <1>h, <1>m DEF Sole, Waits
    <2>5. QED
      BY <2>1, <2>3, <2>4, SoleMoves
  <1>2. CASE Requeue(r) /\ UNCHANGED queue
    BY <1>2, HandsLoosen, SoleShrinks DEF Requeue
  <1>3. CASE (Return(r) \/ Goto(r, "fail")) /\ AddRetry(r)
              /\ UNCHANGED <<queue, kind, delivered>>
    <2>1. QueueOnce' /\ \A t \in Sessions : InQueue(t)' <=> InQueue(t)
      BY <1>3 DEF SoleInv, QueueOnce, InQueue
    <2>2. retry' = retry \cup {x}
      BY <1>3, <1>x DEF AddRetry
    <2>3. \A t \in Sessions \ {x} : Fades(t)
      BY <2>1, <2>2, <1>h, <1>3 DEF Fades
    <2>4. Sole(x)'
      BY <2>1, <2>2, <1>h, <1>m, <1>3 DEF Sole, Waits
    <2>5. QED
      BY <2>1, <2>3, <2>4, SoleMoves
  <1>4. CASE ScheduleZAddFails(r) /\ UNCHANGED <<retry, score>>
    <2>1. Goto(r, "fail") /\ pc[r] # "fail"
      BY <1>4 DEF ScheduleZAddFails
    <2>2. \A q \in Replicas : Loosens(q)
      BY <2>1, HandsLoosen DEF ProcessSteps
    <2>3. QED
      BY <1>4, <2>2, SoleShrinks DEF ScheduleZAddFails
  <1>5. CASE MarkDelivered(r)
    <2>1. UNCHANGED <<queue, retry, kind>> /\ Return(r)
      BY <1>5 DEF MarkDelivered
    <2>2. QueueOnce' /\ \A t \in Sessions : InQueue(t)' <=> InQueue(t)
      BY <2>1 DEF SoleInv, QueueOnce, InQueue
    <2>3. /\ delivered'[x] = 1
          /\ \A t \in Sessions \ {x} : delivered'[t] = delivered[t]
      BY <1>5, <1>x, <1>m DEF MarkDelivered, TypeOK
    <2>4. \A t \in Sessions \ {x} : Fades(t)
      BY <2>1, <2>2, <2>3, <1>h DEF Fades
    <2>5. Sole(x)'
      BY <2>1, <2>2, <2>3, <1>h, <1>m DEF Sole, Waits
    <2>6. QED
      BY <2>2, <2>4, <2>5, SoleMoves
  <1>6. QED
    BY <1>1, <1>2, <1>3, <1>4, <1>5, <1>x
    DEF Requeue, ScheduleZAdd, ScheduleZAddFails

LEMMA SoleNext ==
  ASSUME TypeOK, SoleInv, [Next]_vars PROVE SoleInv'
  <1> USE DEF env, store, worker, tally
  <1>1. ASSUME NEW r \in Replicas, Work(r) \/ Crash(r) PROVE SoleInv'
    <2>w. WorkerType
      BY DEF TypeOK
    <2> DEFINE Plain == /\ UNCHANGED <<kind, queue, delivered>>
                        /\ retry' \subseteq retry
                        /\ \A q \in Replicas : Loosens(q)
    <2>p. Plain => SoleInv'
      BY SoleShrinks
    <2> HIDE DEF Plain
    <2>1. CASE StartCycle(r) \/ RPopEmpty(r) \/ GetPayloadFails(r) \/ DueClaimed(r)
      BY <2>1, <2>p, HandsLoosen
      DEF StartCycle, RPopEmpty, GetPayloadFails, DueClaimed, Plain, LoopSteps,
          ProcessSteps
    <2>2. CASE RPopFails(r)
      BY <2>2, HandsLoosen, SoleShrinks DEF RPopFails, LoopSteps
    <2>3. CASE GetPayload(r) \/ MarkDelivering(r) \/ Deliver(r)
      BY <2>3, <2>p, HandsLoosen
      DEF GetPayload, MarkDelivering, Deliver, Plain, ProcessSteps
    <2>4. CASE Terminal(r) \/ DueRangeFails(r) \/ EndCycle(r) \/ Crash(r)
      BY <2>4, <2>p, HandsLoosen
      DEF Terminal, DueRangeFails, EndCycle, Crash, Plain
    <2>5. CASE ReadAttempts(r) \/ ScheduleSet(r) \/ DueRange(r)
      BY <2>5, <2>p, <2>w
      DEF ReadAttempts, ScheduleSet, DueRange, Plain, Loosens, WorkerType
    <2>6. CASE ScheduleRefused(r) \/ ScheduleSetFails(r)
      BY <2>6, <2>p, HandsLoosen
      DEF ScheduleRefused, ScheduleSetFails, Plain, ProcessSteps
    <2>7. CASE DueClaimFails(r)
      BY <2>7, <2>p, HandsLoosen DEF DueClaimFails, RemoveRetry, Plain
    <2>8. CASE RPop(r) \/ DueClaim(r) \/ ProcessDue(r)
      BY <2>8, SoleTakes
    <2>9. CASE Requeue(r) \/ ScheduleZAdd(r) \/ ScheduleZAddFails(r) \/ MarkDelivered(r)
      BY <2>9, SolePuts
    <2>10. QED
      BY <1>1, <2>1, <2>2, <2>3, <2>4, <2>5, <2>6, <2>7, <2>8, <2>9 DEF Work
  <1>2. CASE Clock \/ UNCHANGED vars
    <2>1. UNCHANGED <<kind, queue, retry, worker, delivered>>
      BY <1>2 DEF Clock, vars
    <2>2. \A q \in Replicas : Loosens(q)
      BY <2>1 DEF Loosens
    <2>3. QED
      BY <2>1, <2>2, SoleShrinks
  <1>3. QED
    BY <1>1, <1>2, SoleHandoff DEF Next

\* A send, and the counting of a success, are of an id that nobody has a success of.
LEMMA AcceptedRests ==
  ASSUME TypeOK, SoleInv, [Next]_vars, NEW s \in Sessions, Accepted(s)
  PROVE  posts'[s] = posts[s] /\ delivered'[s] <= 1
  <1>1. delivered'[s] <= 1
    BY SoleNext DEF SoleInv, Sole
  <1>2. ASSUME NEW r \in Replicas, pc[r] = "post",
               posts' = [posts EXCEPT ![cur[r]] = @ + 1]
        PROVE  posts'[s] = posts[s]
    <2>1. cur[r] # s
      <3>1. SUFFICES ASSUME cur[r] = s PROVE FALSE
        OBVIOUS
      <3>2. MaySend(r, s)
        BY <1>2, <3>1 DEF MaySend
      <3>3. ~(delivered[s] > 0)
        BY <3>2 DEF SoleInv, Sole
      <3>4. PICK q \in Replicas : cur[q] = s /\ pc[q] = "done"
        BY <3>3 DEF Accepted
      <3>5. MaySend(q, s)
        BY <3>4 DEF MaySend
      <3>6. q = r
        BY <3>2, <3>5 DEF SoleInv, Sole
      <3>7. QED
        BY <1>2, <3>4, <3>6
    <2>2. QED
      BY <1>2, <2>1 DEF TypeOK
  <1>3. \/ UNCHANGED posts
        \/ \E r \in Replicas : /\ pc[r] = "post"
                              /\ posts' = [posts EXCEPT ![cur[r]] = @ + 1]
    <2>1. CASE Clock \/ (\E t \in Sessions : Handoff(t)) \/ UNCHANGED vars
      BY <2>1 DEF Clock, Handoff, vars, tally
    <2>2. CASE \E r \in Replicas : Work(r) \/ Crash(r)
      BY <2>2, ContractSteps DEF tally
    <2>3. QED
      BY <2>1, <2>2 DEF Next
  <1>4. QED
    BY <1>1, <1>2, <1>3

\* Whatever fails, any number of replicas never send a result again that its client
\* accepted, and count it delivered once.
THEOREM AcceptedOnce == Spec => NotSentAgain
  <1>1. Init => TypeOK /\ SoleInv
    BY TypeInit, SoleInit
  <1>2. TypeOK /\ SoleInv /\ [Next]_vars => TypeOK' /\ SoleInv'
    BY TypeNext, SoleNext
  <1>3. TypeOK /\ SoleInv /\ [Next]_vars
          => [\A s \in Sessions :
                Accepted(s) => posts'[s] = posts[s] /\ delivered'[s] <= 1]_vars
    BY AcceptedRests
  <1>4. QED
    BY <1>1, <1>2, <1>3, PTL DEF Spec, NotSentAgain
=============================================================================
