----------------------- MODULE WebhookDelivery_proofs -----------------------
(***************************************************************************)
(* Theorems about WebhookDelivery, for every number of replicas, sessions, *)
(* attempts and failures.                                                  *)
(***************************************************************************)
EXTENDS WebhookDelivery, TLAPS

-----------------------------------------------------------------------------
(* Type correctness *)

\* The sign bit's weight is half the range.
LEMMA HalfWidth ==
  2^Width = 2 * 2^(Width - 1) /\ 2^(Width - 1) \in Nat \ {0}
  <1>1. Width - 1 \in 0..Width /\ (Width - 1) + 1 = Width
    BY ConfigAssumption
  <1>2. QED
    BY PowerAssumption, <1>1

LEMMA WrapType == ASSUME NEW x \in Int PROVE Wrap(x) \in Int
  <1>1. 2^Width \in Nat \ {0} /\ 2^(Width - 1) \in Nat
    BY HalfWidth
  <1>2. QED
    BY <1>1 DEF Wrap

\* A Duration below the sign bit is left as it is.
LEMMA WrapId ==
  ASSUME NEW x \in Nat, x < 2^(Width - 1) PROVE Wrap(x) = x
  <1> DEFINE h == 2^(Width - 1)
  <1>1. h \in Nat \ {0} /\ 2^Width = 2 * h
    BY HalfWidth
  <1>2. x + h \in 0..(2 * h - 1) /\ 2 * h \in Nat \ {0}
    BY <1>1
  <1>3. ASSUME NEW m \in Nat \ {0}, NEW y \in 0..(m - 1) PROVE y % m = y
    BY <1>3, SMTT(30)
  <1>4. (x + h) % (2 * h) = x + h
    <2> HIDE DEF h
    <2>1. QED
      BY <1>2, <1>3
  <1>5. QED
    BY <1>1, <1>4 DEF Wrap

LEMMA DelayType == ASSUME NEW a \in Nat PROVE Delay(a) \in Int
  <1>1. (IF a < Width THEN 2^a ELSE 0) \in Int
    BY PowerAssumption, ConfigAssumption
  <1>2. QED
    BY <1>1, WrapType, ConfigAssumption DEF Delay

LEMMA UnixType == ASSUME NEW t \in Int PROVE Unix(t) \in Int
  BY ConfigAssumption, SMT DEF Unix

\* Attempts, as read, stays within the bound.
LEMMA AttemptsType ==
  ASSUME TypeOK, NEW s \in Sessions PROVE Attempts(s) \in 0..MaxAttempts
  BY ConfigAssumption DEF TypeOK, Attempts

\* A scheduled attempt lies at an integer time and keeps the counter in range.
LEMMA ScheduleType ==
  ASSUME TypeOK, NEW r \in Replicas
  PROVE  /\ NextAttempt(r) \in Int
         /\ attempt[r] < MaxAttempts => Recorded(r) \in 0..MaxAttempts
  <1>1. attempt[r] \in 0..MaxAttempts /\ now \in Int
    BY ConfigAssumption DEF TypeOK, WorkerType
  <1>2. Delay(attempt[r]) \in Int
    BY <1>1, DelayType, ConfigAssumption
  <1>3. QED
    BY <1>1, <1>2, ConfigAssumption DEF NextAttempt, Recorded

LEMMA FaultType ==
  ASSUME TypeOK, NEW f, Fault(f) PROVE faults' \in 0..MaxFaults
  BY ConfigAssumption DEF TypeOK, Fault

\* Steps that move a replica on, return from processOne or end a cycle keep
\* the types of its control state.
LEMMA ReturnType ==
  ASSUME WorkerType, NEW r \in Replicas, Return(r) PROVE WorkerType'
  BY ConfigAssumption DEF WorkerType, Return, LoopSteps, ProcessSteps

LEMMA ResetType ==
  ASSUME WorkerType, NEW r \in Replicas, Reset(r) PROVE WorkerType'
  BY ConfigAssumption DEF WorkerType, Reset, LoopSteps, ProcessSteps

LEMMA GotoType ==
  ASSUME WorkerType, NEW r \in Replicas, NEW l \in LoopSteps \cup ProcessSteps,
         l \in ProcessSteps <=> pc[r] \in ProcessSteps,
         Goto(r, l)
  PROVE  WorkerType'
  BY DEF WorkerType, Goto

\* Inside processOne a replica has a session in hand.
LEMMA InHand ==
  ASSUME WorkerType, NEW r \in Replicas, pc[r] \in ProcessSteps
  PROVE  cur[r] \in Sessions
  BY DEF WorkerType

LEMMA AddRetryType ==
  ASSUME TypeOK, NEW r \in Replicas, cur[r] \in Sessions, AddRetry(r)
  PROVE  retry' \subseteq Sessions /\ score' \in [Sessions -> Int]
  <1>1. Unix(nextAt[r]) \in Int
    BY UnixType DEF TypeOK, WorkerType
  <1>2. QED
    BY <1>1 DEF TypeOK, AddRetry

LEMMA StateType ==
  ASSUME TypeOK, NEW s \in Sessions,
         NEW x \in {"delivering", "delivered", "failed"}, SetWebhookState(s, x)
  PROVE  /\ wstate' \in [Sessions -> {"pending", "delivering", "delivered", "failed"}]
         /\ faults' \in 0..MaxFaults
  <1>1. CASE Fault("state") /\ UNCHANGED wstate
    BY <1>1, FaultType DEF TypeOK
  <1>2. CASE wstate' = [wstate EXCEPT ![s] = x] /\ UNCHANGED faults
    BY <1>2 DEF TypeOK
  <1>3. QED
    BY <1>1, <1>2 DEF SetWebhookState

LEMMA TypeInit == Init => TypeOK
  BY ConfigAssumption DEF Init, TypeOK, WorkerType, LoopSteps, ProcessSteps

LEMMA TypeNext == TypeOK /\ [Next]_vars => TypeOK'
  <1> SUFFICES ASSUME TypeOK, [Next]_vars PROVE TypeOK'
    OBVIOUS
  <1> USE DEF env, store, worker, tally
  <1>w. WorkerType
    BY DEF TypeOK
  <1>1. CASE Clock
    BY <1>1, ConfigAssumption DEF Clock, TypeOK, WorkerType
  <1>2. ASSUME NEW s \in Sessions, Handoff(s) PROVE TypeOK'
    <2>1. WorkerType'
      BY <1>2, <1>w DEF Handoff, WorkerType
    <2>2. QED
      BY <1>2, <2>1, ConfigAssumption DEF Handoff, TypeOK
  <1>3. ASSUME NEW r \in Replicas, Work(r) PROVE TypeOK'
    <2>1. CASE StartCycle(r)
      <3>1. WorkerType'
        BY <2>1, <1>w, GotoType
        DEF StartCycle, LoopSteps, ProcessSteps
      <3>2. QED
        BY <2>1, <3>1 DEF StartCycle, TypeOK
    <2>2. CASE RPop(r)
      <3>1. Head(queue) \in Sessions /\ queue' \in Seq(Sessions)
        BY <2>2, ConfigAssumption
        DEF RPop, TypeOK
      <3>2. WorkerType'
        BY <2>2, <1>w, <3>1, ConfigAssumption
        DEF RPop, Process, WorkerType, LoopSteps, ProcessSteps
      <3>3. QED
        BY <2>2, <3>1, <3>2 DEF RPop, TypeOK
    <2>3. CASE RPopEmpty(r)
      <3>1. WorkerType'
        BY <2>3, <1>w, GotoType
        DEF RPopEmpty, LoopSteps, ProcessSteps
      <3>2. QED
        BY <2>3, <3>1 DEF RPopEmpty, TypeOK
    <2>4. CASE RPopFails(r)
      <3>1. WorkerType'
        BY <2>4, <1>w, GotoType
        DEF RPopFails, LoopSteps, ProcessSteps
      <3>2. faults' \in 0..MaxFaults
        BY <2>4, FaultType
        DEF RPopFails
      <3>3. queue \in Seq(Sessions) /\ (queue # <<>> => Tail(queue) \in Seq(Sessions))
        BY <2>4
        DEF RPopFails, TypeOK
      <3>4. QED
        BY <2>4, <3>1, <3>2, <3>3 DEF RPopFails, TypeOK
    <2>5. CASE GetPayload(r)
      <3>1. WorkerType'
        BY <2>5, <1>w, GotoType, ReturnType
        DEF GetPayload, LoopSteps, ProcessSteps
      <3>2. QED
        BY <2>5, <3>1 DEF GetPayload, TypeOK
    <2>6. CASE GetPayloadFails(r)
      <3>1. WorkerType'
        BY <2>6, <1>w, GotoType
        DEF GetPayloadFails, LoopSteps, ProcessSteps
      <3>2. faults' \in 0..MaxFaults
        BY <2>6, FaultType
        DEF GetPayloadFails
      <3>3. QED
        BY <2>6, <3>1, <3>2 DEF GetPayloadFails, TypeOK
    <2>7. CASE Requeue(r)
      <3>1. WorkerType'
        BY <2>7, <1>w, ReturnType
        DEF Requeue
      <3>2. cur[r] \in Sessions
        BY <2>7, <1>w, InHand
        DEF Requeue, ProcessSteps
      <3>3. queue \in Seq(Sessions) /\ Append(queue, cur[r]) \in Seq(Sessions)
        BY <2>7, <3>2
        DEF Requeue, TypeOK
      <3>4. faults' \in 0..MaxFaults
        BY <2>7, FaultType
        DEF Requeue, TypeOK
      <3>5. QED
        BY <2>7, <3>1, <3>2, <3>3, <3>4 DEF Requeue, TypeOK
    <2>8. CASE MarkDelivering(r)
      <3>1. WorkerType'
        BY <2>8, <1>w, GotoType
        DEF MarkDelivering, LoopSteps, ProcessSteps
      <3>2. cur[r] \in Sessions
        BY <2>8, <1>w, InHand
        DEF MarkDelivering, ProcessSteps
      <3>3. wstate' \in [Sessions -> {"pending", "delivering", "delivered", "failed"}]
            /\ faults' \in 0..MaxFaults
        BY <2>8, <3>2, StateType
        DEF MarkDelivering
      <3>4. QED
        BY <2>8, <3>1, <3>2, <3>3 DEF MarkDelivering, TypeOK
    <2>9. CASE Deliver(r)
      <3>1. WorkerType'
        BY <2>9, <1>w, GotoType
        DEF Deliver, LoopSteps, ProcessSteps
      <3>2. cur[r] \in Sessions
        BY <2>9, <1>w, InHand
        DEF Deliver, ProcessSteps
      <3>3. [posts EXCEPT ![cur[r]] = @ + 1] \in [Sessions -> Nat]
        BY <2>9, <3>2
        DEF Deliver, TypeOK
      <3>4. QED
        BY <2>9, <3>1, <3>2, <3>3 DEF Deliver, TypeOK
    <2>10. CASE MarkDelivered(r)
      <3>1. WorkerType'
        BY <2>10, <1>w, ReturnType
        DEF MarkDelivered
      <3>2. cur[r] \in Sessions
        BY <2>10, <1>w, InHand
        DEF MarkDelivered, ProcessSteps
      <3>3. wstate' \in [Sessions -> {"pending", "delivering", "delivered", "failed"}]
            /\ faults' \in 0..MaxFaults
        BY <2>10, <3>2, StateType
        DEF MarkDelivered
      <3>4. delivered' \in [Sessions -> Nat]
        <4>1. delivered \in [Sessions -> Nat]
          BY DEF TypeOK
        <4>2. QED
          BY <2>10, <3>2, <4>1 DEF MarkDelivered
      <3>5. QED
        BY <2>10, <3>1, <3>2, <3>3, <3>4 DEF MarkDelivered, TypeOK
    <2>11. CASE Terminal(r)
      <3>1. WorkerType'
        BY <2>11, <1>w, ReturnType
        DEF Terminal
      <3>2. cur[r] \in Sessions
        BY <2>11, <1>w, InHand
        DEF Terminal, ProcessSteps
      <3>3. wstate' \in [Sessions -> {"pending", "delivering", "delivered", "failed"}]
            /\ faults' \in 0..MaxFaults
        BY <2>11, <3>2, StateType
        DEF Terminal
      <3>4. failed' \in [Sessions -> Nat]
        <4>1. failed \in [Sessions -> Nat]
          BY DEF TypeOK
        <4>2. QED
          BY <2>11, <3>2, <4>1 DEF Terminal
      <3>5. QED
        BY <2>11, <3>1, <3>2, <3>3, <3>4 DEF Terminal, TypeOK
    <2>12. CASE ReadAttempts(r)
      <3>1. cur[r] \in Sessions
        BY <2>12, <1>w, InHand
        DEF ReadAttempts, ProcessSteps
      <3>2. Attempts(cur[r]) \in 0..MaxAttempts
        BY <2>12, <3>1, AttemptsType
        DEF ReadAttempts
      <3>3. attempt' \in [Replicas -> 0..MaxAttempts]
        BY <2>12, <1>w, <3>2, ConfigAssumption
        DEF ReadAttempts, WorkerType
      <3>4. WorkerType'
        BY <2>12, <1>w, <3>3
        DEF ReadAttempts, WorkerType, LoopSteps, ProcessSteps
      <3>5. faults' \in 0..MaxFaults
        BY <2>12, FaultType
        DEF ReadAttempts, TypeOK
      <3>6. QED
        BY <2>12, <3>1, <3>2, <3>3, <3>4, <3>5 DEF ReadAttempts, TypeOK
    <2>13. CASE ScheduleRefused(r)
      <3>1. WorkerType'
        BY <2>13, <1>w, GotoType
        DEF ScheduleRefused, LoopSteps, ProcessSteps
      <3>2. QED
        BY <2>13, <3>1 DEF ScheduleRefused, TypeOK
    <2>14. CASE ScheduleSet(r)
      <3>1. cur[r] \in Sessions
        BY <2>14, <1>w, InHand
        DEF ScheduleSet, ProcessSteps
      <3>2. Recorded(r) \in 0..MaxAttempts /\ NextAttempt(r) \in Int
        BY <2>14, ScheduleType
        DEF ScheduleSet, MayRetry
      <3>3. attempts' \in [Sessions -> 0..MaxAttempts]
        BY <2>14, <3>1, <3>2
        DEF ScheduleSet, TypeOK
      <3>4. WorkerType'
        BY <2>14, <1>w, <3>2
        DEF ScheduleSet, WorkerType, LoopSteps, ProcessSteps
      <3>5. QED
        BY <2>14, <3>1, <3>2, <3>3, <3>4 DEF ScheduleSet, TypeOK
    <2>15. CASE ScheduleSetFails(r)
      <3>1. cur[r] \in Sessions
        BY <2>15, <1>w, InHand
        DEF ScheduleSetFails, ProcessSteps
      <3>2. Recorded(r) \in 0..MaxAttempts
        BY <2>15, ScheduleType
        DEF ScheduleSetFails, MayRetry
      <3>3. attempts' \in [Sessions -> 0..MaxAttempts]
        BY <2>15, <3>1, <3>2
        DEF ScheduleSetFails, TypeOK
      <3>4. WorkerType'
        BY <2>15, <1>w, GotoType
        DEF ScheduleSetFails, LoopSteps, ProcessSteps
      <3>5. faults' \in 0..MaxFaults
        BY <2>15, FaultType
        DEF ScheduleSetFails
      <3>6. QED
        BY <2>15, <3>1, <3>2, <3>3, <3>4, <3>5 DEF ScheduleSetFails, TypeOK
    <2>16. CASE ScheduleZAdd(r)
      <3>1. cur[r] \in Sessions
        BY <2>16, <1>w, InHand
        DEF ScheduleZAdd, ProcessSteps
      <3>2. retry' \subseteq Sessions /\ score' \in [Sessions -> Int]
        BY <2>16, <3>1, AddRetryType
        DEF ScheduleZAdd
      <3>3. WorkerType'
        BY <2>16, <1>w, ReturnType
        DEF ScheduleZAdd
      <3>4. QED
        BY <2>16, <3>1, <3>2, <3>3 DEF ScheduleZAdd, TypeOK
    <2>17. CASE ScheduleZAddFails(r)
      <3>1. cur[r] \in Sessions
        BY <2>17, <1>w, InHand
        DEF ScheduleZAddFails, ProcessSteps
      <3>2. retry' \subseteq Sessions /\ score' \in [Sessions -> Int]
        BY <2>17, <3>1, AddRetryType
        DEF ScheduleZAddFails, TypeOK
      <3>3. WorkerType'
        BY <2>17, <1>w, GotoType
        DEF ScheduleZAddFails, LoopSteps, ProcessSteps
      <3>4. faults' \in 0..MaxFaults
        BY <2>17, FaultType
        DEF ScheduleZAddFails
      <3>5. QED
        BY <2>17, <3>1, <3>2, <3>3, <3>4 DEF ScheduleZAddFails, TypeOK
    <2>18. CASE DueRange(r)
      <3>1. due'[r] \subseteq Sessions
        BY <2>18, <1>w
        DEF DueRange, TypeOK, WorkerType
      <3>2. WorkerType'
        BY <2>18, <1>w, <3>1
        DEF DueRange, WorkerType, LoopSteps, ProcessSteps
      <3>3. QED
        BY <2>18, <3>1, <3>2 DEF DueRange, TypeOK
    <2>19. CASE DueRangeFails(r)
      <3>1. WorkerType'
        BY <2>19, <1>w, ResetType
        DEF DueRangeFails
      <3>2. faults' \in 0..MaxFaults
        BY <2>19, FaultType
        DEF DueRangeFails
      <3>3. QED
        BY <2>19, <3>1, <3>2 DEF DueRangeFails, TypeOK
    <2>20. CASE DueClaim(r)
      <3>1. WorkerType'
        BY <2>20, <1>w
        DEF DueClaim, WorkerType
      <3>2. retry' \subseteq Sessions /\ score' \in [Sessions -> Int]
        BY <2>20, <1>w
        DEF DueClaim, RemoveRetry, TypeOK, WorkerType
      <3>3. QED
        BY <2>20, <3>1, <3>2 DEF DueClaim, TypeOK
    <2>21. CASE DueClaimFails(r)
      <3>1. WorkerType'
        BY <2>21, <1>w, ResetType
        DEF DueClaimFails
      <3>2. faults' \in 0..MaxFaults
        BY <2>21, FaultType
        DEF DueClaimFails
      <3>3. retry' \subseteq Sessions /\ score' \in [Sessions -> Int]
        <4>1. retry \subseteq Sessions /\ score \in [Sessions -> Int]
          BY DEF TypeOK
        <4>2. QED
          BY <2>21, <4>1 DEF DueClaimFails, RemoveRetry
      <3>4. QED
        BY <2>21, <3>1, <3>2, <3>3 DEF DueClaimFails, TypeOK
    <2>22. CASE DueClaimed(r)
      <3>1. WorkerType'
        BY <2>22, <1>w, GotoType
        DEF DueClaimed, LoopSteps, ProcessSteps
      <3>2. QED
        BY <2>22, <3>1 DEF DueClaimed, TypeOK
    <2>23. CASE ProcessDue(r)
      <3>1. WorkerType'
        BY <2>23, <1>w, ConfigAssumption
        DEF ProcessDue, Process, WorkerType, LoopSteps, ProcessSteps
      <3>2. QED
        BY <2>23, <3>1 DEF ProcessDue, TypeOK
    <2>24. CASE EndCycle(r)
      <3>1. WorkerType'
        BY <2>24, <1>w, ResetType
        DEF EndCycle
      <3>2. QED
        BY <2>24, <3>1 DEF EndCycle, TypeOK
    <2>25. QED
      BY <1>3,
         <2>1, <2>2, <2>3, <2>4, <2>5, <2>6, <2>7, <2>8, <2>9, <2>10,
         <2>11, <2>12, <2>13, <2>14, <2>15, <2>16, <2>17, <2>18,
         <2>19, <2>20, <2>21, <2>22, <2>23, <2>24
      DEF Work
  <1>4. ASSUME NEW r \in Replicas, Crash(r) PROVE TypeOK'
    <2>1. WorkerType' /\ faults' \in 0..MaxFaults
      BY <1>4, <1>w, ResetType, FaultType DEF Crash
    <2>2. QED
      BY <1>4, <2>1 DEF Crash, TypeOK
  <1>5. CASE UNCHANGED vars
    BY <1>5 DEF vars, TypeOK, WorkerType
  <1>6. QED
    BY <1>1, <1>2, <1>3, <1>4, <1>5 DEF Next

\* Every variable keeps its type; in particular a counter never exceeds
\* MaxAttempts, and a replica has a session in hand exactly while it is inside
\* processOne.
THEOREM TypeCorrect == Spec => []TypeOK
  BY TypeInit, TypeNext, PTL DEF Spec

-----------------------------------------------------------------------------
(* Ownership: a session id is in one place, and a settled one in none *)

QueueOnce == \A i, j \in 1..Len(queue) : queue[i] = queue[j] => i = j

\* s is in at most one place.
Alone(s) ==
    /\ InQueue(s) => s \notin retry
    /\ \A r \in Replicas :
          Holds(r, s) => /\ ~InQueue(s)
                         /\ s \notin retry
                         /\ ~(cur[r] = s /\ s \in claimed[r])
                         /\ \A q \in Replicas : Holds(q, s) => q = r

\* Ownership alone is not inductive: a handoff may only add an id that is
\* nowhere, and an outcome may only be counted for an id that has none.
Owned(s) ==
    /\ Alone(s)
    /\ kind[s] = "none" => ~InFlight(s) /\ ~Settled(s)
    /\ Settled(s) => ~InFlight(s)
    /\ delivered[s] + failed[s] <= 1

OwnInv == QueueOnce /\ \A s \in Sessions : Owned(s)

\* A step that brings s to no new place and leaves its payload and its outcome
\* alone.
Undisturbed(s) ==
    /\ InQueue(s)' => InQueue(s)
    /\ s \in retry' => s \in retry
    /\ \A r \in Replicas : /\ cur'[r] = s => cur[r] = s
                           /\ s \in claimed'[r] => s \in claimed[r]
    /\ kind'[s] = kind[s] /\ delivered'[s] = delivered[s] /\ failed'[s] = failed[s]

LEMMA QueueAppend ==
  ASSUME TypeOK, NEW s \in Sessions, queue' = Append(queue, s)
  PROVE  /\ \A t \in Sessions : InQueue(t)' <=> InQueue(t) \/ t = s
         /\ QueueOnce /\ ~InQueue(s) => QueueOnce'
  <1>1. queue \in Seq(Sessions)
    BY DEF TypeOK
  <1>2. /\ Len(queue) \in Nat
        /\ Len(queue') = Len(queue) + 1
        /\ \A i \in 1..Len(queue) : queue'[i] = queue[i]
        /\ queue'[Len(queue) + 1] = s
    BY <1>1
  <1>3. ASSUME NEW t \in Sessions PROVE InQueue(t)' <=> InQueue(t) \/ t = s
    BY <1>2 DEF InQueue
  <1>4. QueueOnce /\ ~InQueue(s) => QueueOnce'
    BY <1>2 DEF QueueOnce, InQueue
  <1>5. QED
    BY <1>3, <1>4

LEMMA QueueTail ==
  ASSUME TypeOK, QueueOnce, queue # <<>>, queue' = Tail(queue)
  PROVE  /\ Head(queue) \in Sessions
         /\ InQueue(Head(queue))
         /\ \A t \in Sessions : InQueue(t)' <=> InQueue(t) /\ t # Head(queue)
         /\ QueueOnce'
  <1>1. queue \in Seq(Sessions)
    BY DEF TypeOK
  <1>2. /\ Len(queue) \in Nat \ {0}
        /\ Len(queue') = Len(queue) - 1
        /\ \A i \in 1..Len(queue') : queue'[i] = queue[i + 1]
        /\ Head(queue) = queue[1]
        /\ Head(queue) \in Sessions
    BY <1>1
  <1>3. InQueue(Head(queue))
    BY <1>2 DEF InQueue
  <1>4. ASSUME NEW t \in Sessions
        PROVE InQueue(t)' <=> InQueue(t) /\ t # Head(queue)
    <2>1. ASSUME InQueue(t)' PROVE InQueue(t) /\ t # Head(queue)
      <3>1. PICK i \in 1..Len(queue') : queue'[i] = t
        BY <2>1 DEF InQueue
      <3>2. i + 1 \in 1..Len(queue) /\ queue[i + 1] = t /\ i + 1 # 1
        BY <3>1, <1>2
      <3>3. QED
        BY <3>2, <1>2 DEF InQueue, QueueOnce
    <2>2. ASSUME InQueue(t), t # Head(queue) PROVE InQueue(t)'
      <3>1. PICK i \in 1..Len(queue) : queue[i] = t
        BY <2>2 DEF InQueue
      <3>2. i - 1 \in 1..Len(queue') /\ queue'[i - 1] = t
        BY <3>1, <2>2, <1>2
      <3>3. QED
        BY <3>2 DEF InQueue
    <2>3. QED
      BY <2>1, <2>2
  <1>5. QueueOnce'
    BY <1>2 DEF QueueOnce
  <1>6. QED
    BY <1>2, <1>3, <1>4, <1>5

LEMMA OwnedKept ==
  ASSUME NEW s \in Sessions, Owned(s), Undisturbed(s) PROVE Owned(s)'
  <1>1. \A r \in Replicas : Holds(r, s)' => Holds(r, s)
    BY DEF Holds, Undisturbed
  <1>2. /\ InQueue(s)' => InQueue(s)
        /\ s \in retry' => s \in retry
    BY DEF Undisturbed
  <1>3. (InFlight(s)' => InFlight(s)) /\ (Settled(s)' <=> Settled(s))
    BY <1>1, <1>2 DEF InFlight, Settled, Undisturbed
  <1>4. Alone(s)'
    <2>1. InQueue(s)' => s \notin retry'
      BY <1>2 DEF Owned, Alone
    <2>2. ASSUME NEW r \in Replicas, Holds(r, s)'
          PROVE  /\ ~InQueue(s)'
                 /\ s \notin retry'
                 /\ ~(cur'[r] = s /\ s \in claimed'[r])
                 /\ \A q \in Replicas : Holds(q, s)' => q = r
      <3>1. /\ ~InQueue(s) /\ s \notin retry
            /\ ~(cur[r] = s /\ s \in claimed[r])
            /\ \A q \in Replicas : Holds(q, s) => q = r
        BY <2>2, <1>1 DEF Owned, Alone
      <3>2. ~(cur'[r] = s /\ s \in claimed'[r])
        BY <3>1 DEF Undisturbed
      <3>3. QED
        BY <3>1, <3>2, <1>1, <1>2
    <2>3. QED
      BY <2>1, <2>2 DEF Alone
  <1>5. QED
    BY <1>3, <1>4 DEF Owned, Undisturbed

\* What Goto, Return and Reset do to the ids in a replica's hands.
LEMMA HandsShrink ==
  ASSUME TypeOK, NEW r \in Replicas,
         (\E l \in LoopSteps \cup ProcessSteps : Goto(r, l)) \/ Return(r) \/ Reset(r)
  PROVE  \A q \in Replicas : /\ cur'[q] \in {cur[q], None}
                             /\ claimed'[q] \subseteq claimed[q]
  BY DEF TypeOK, WorkerType, Goto, Return, Reset

\* A step that moves no id into a place, and settles none, keeps ownership.
LEMMA OwnShrinks ==
  ASSUME TypeOK, OwnInv, UNCHANGED <<kind, delivered, failed>>,
         queue' = queue \/ (queue # <<>> /\ queue' = Tail(queue)),
         retry' \subseteq retry,
         \A r \in Replicas : /\ cur'[r] \in {cur[r], None}
                             /\ claimed'[r] \subseteq claimed[r]
  PROVE  OwnInv'
  <1>1. QueueOnce' /\ \A s \in Sessions : InQueue(s)' => InQueue(s)
    <2>1. CASE queue' = queue
      BY <2>1 DEF OwnInv, QueueOnce, InQueue
    <2>2. CASE queue # <<>> /\ queue' = Tail(queue)
      BY <2>2, QueueTail DEF OwnInv
    <2>3. QED
      BY <2>1, <2>2
  <1>2. ASSUME NEW s \in Sessions PROVE Undisturbed(s)
    BY <1>1, ConfigAssumption DEF Undisturbed
  <1>3. QED
    BY <1>1, <1>2, OwnedKept DEF OwnInv

\* The general case: every id the step disturbs is shown to be owned after it.
LEMMA OwnMoves ==
  ASSUME OwnInv, QueueOnce', NEW x \in Sessions, Owned(x)',
         \A s \in Sessions \ {x} : Undisturbed(s)
  PROVE  OwnInv'
  <1>1. \A s \in Sessions : Owned(s)'
    BY OwnedKept DEF OwnInv
  <1>2. QED
    BY <1>1 DEF OwnInv

\* Counting an outcome takes the id out of the replica's hand for good.
LEMMA OwnSettles ==
  ASSUME TypeOK, OwnInv, NEW r \in Replicas, cur[r] \in Sessions, Return(r),
         UNCHANGED <<queue, retry, kind>>,
         \/ delivered' = [delivered EXCEPT ![cur[r]] = @ + 1] /\ UNCHANGED failed
         \/ failed' = [failed EXCEPT ![cur[r]] = @ + 1] /\ UNCHANGED delivered
  PROVE  OwnInv'
  <1>x. PICK x \in Sessions : x = cur[r]
    OBVIOUS
  <1>1. /\ cur' = [cur EXCEPT ![r] = None] /\ UNCHANGED claimed
        /\ cur \in [Replicas -> Sessions \cup {None}]
        /\ delivered \in [Sessions -> Nat] /\ failed \in [Sessions -> Nat]
    BY DEF Return, TypeOK, WorkerType
  <1>2. QueueOnce' /\ \A t \in Sessions : InQueue(t)' <=> InQueue(t)
    BY DEF OwnInv, QueueOnce, InQueue
  <1>3. Owned(x) /\ Holds(r, x)
    BY <1>x DEF OwnInv, Holds
  <1>4. \A t \in Sessions \ {x} : Undisturbed(t)
    BY <1>x, <1>1, <1>2, ConfigAssumption DEF Undisturbed
  <1>5. ~InQueue(x)' /\ x \notin retry' /\ \A q \in Replicas : ~Holds(q, x)'
    BY <1>x, <1>1, <1>2, <1>3, ConfigAssumption DEF Owned, Alone, Holds
  <1>6. delivered'[x] + failed'[x] <= 1
    <2>1. ~Settled(x)
      BY <1>3 DEF Owned, InFlight
    <2>2. delivered[x] = 0 /\ failed[x] = 0
      BY <2>1, <1>1 DEF Settled
    <2>3. QED
      BY <2>2, <1>x, <1>1
  <1>7. kind'[x] # "none"
    BY <1>3 DEF Owned, InFlight
  <1>8. Owned(x)'
    BY <1>5, <1>6, <1>7 DEF Owned, Alone, InFlight
  <1>9. QED
    BY <1>2, <1>4, <1>8, OwnMoves

LEMMA OwnInit == Init => OwnInv
  BY ConfigAssumption
  DEF Init, OwnInv, QueueOnce, Owned, Alone, InFlight, InQueue, Holds, Settled

LEMMA OwnNext ==
  ASSUME "zaddAck" \notin Faults, TypeOK, OwnInv, [Next]_vars
  PROVE  OwnInv'
  <1> USE DEF env, store, worker, tally
  <1>1. CASE Clock
    BY <1>1, OwnShrinks DEF Clock
  <1>2. ASSUME NEW s \in Sessions, Handoff(s) PROVE OwnInv'
    <2>1. ~InFlight(s) /\ ~Settled(s) /\ kind[s] = "none"
      BY <1>2 DEF Handoff, OwnInv, Owned
    <2>2. /\ \A t \in Sessions : InQueue(t)' <=> InQueue(t) \/ t = s
          /\ QueueOnce'
      BY <1>2, <2>1, QueueAppend DEF Handoff, OwnInv, InFlight
    <2>3. kind'[s] # "none" /\ \A t \in Sessions \ {s} : kind'[t] = kind[t]
      BY <1>2, ConfigAssumption DEF Handoff, TypeOK, AllKinds
    <2>4. \A t \in Sessions \ {s} : Undisturbed(t)
      BY <1>2, <2>2, <2>3 DEF Handoff, Undisturbed
    <2>5. Owned(s)'
      BY <1>2, <2>1, <2>2, <2>3
      DEF Handoff, OwnInv, Owned, Alone, InFlight, Holds, Settled
    <2>6. QED
      BY <2>2, <2>4, <2>5, OwnMoves
  <1>3. ASSUME NEW r \in Replicas, Work(r) PROVE OwnInv'
    <2> USE <1>3
    <2>w. WorkerType /\ retry \subseteq Sessions
      BY DEF TypeOK
    <2>1. CASE StartCycle(r)
      <3>1. \A q \in Replicas : /\ cur'[q] \in {cur[q], None}
                               /\ claimed'[q] \subseteq claimed[q]
        BY <2>1, HandsShrink DEF StartCycle, LoopSteps, ProcessSteps
      <3>2. QED
        BY <2>1, <3>1, OwnShrinks DEF StartCycle
    <2>2. CASE RPop(r)
      <3>1. PICK x \in Sessions : x = Head(queue)
        BY <2>2, QueueTail DEF RPop, OwnInv
      <3>q. /\ InQueue(x) /\ QueueOnce'
            /\ \A t \in Sessions : InQueue(t)' <=> InQueue(t) /\ t # x
        BY <2>2, <3>1, QueueTail DEF RPop, OwnInv
      <3>2. cur' = [cur EXCEPT ![r] = x] /\ UNCHANGED <<retry, claimed, kind, tally>>
        BY <2>2, <3>1 DEF RPop, Process
      <3>3. cur[r] = None /\ cur \in [Replicas -> Sessions \cup {None}]
        BY <2>2, <2>w DEF RPop, WorkerType, ProcessSteps
      <3>4. \A t \in Sessions \ {x} : Undisturbed(t)
        BY <3>q, <3>2, <3>3 DEF Undisturbed
      <3>5. Owned(x)'
        <4>1. Owned(x) /\ InFlight(x)
          BY <3>q DEF OwnInv, InFlight
        <4>2. /\ ~InQueue(x)' /\ x \notin retry'
              /\ \A q \in Replicas : Holds(q, x)' <=> q = r
              /\ x \notin claimed'[r]
          BY <3>q, <3>2, <3>3, <4>1 DEF Owned, Alone, Holds
        <4>3. QED
          BY <3>2, <4>1, <4>2 DEF Owned, Alone, Settled
      <3>6. QED
        BY <3>q, <3>4, <3>5, OwnMoves
    <2>3. CASE RPopEmpty(r)
      <3>1. \A q \in Replicas : /\ cur'[q] \in {cur[q], None}
                               /\ claimed'[q] \subseteq claimed[q]
        BY <2>3, HandsShrink DEF RPopEmpty, LoopSteps, ProcessSteps
      <3>2. QED
        BY <2>3, <3>1, OwnShrinks DEF RPopEmpty
    <2>4. CASE RPopFails(r)
      <3>1. \A q \in Replicas : /\ cur'[q] \in {cur[q], None}
                               /\ claimed'[q] \subseteq claimed[q]
        BY <2>4, HandsShrink DEF RPopFails, LoopSteps, ProcessSteps
      <3>2. QED
        BY <2>4, <3>1, OwnShrinks DEF RPopFails
    <2>5. CASE GetPayload(r)
      <3>1. \A q \in Replicas : /\ cur'[q] \in {cur[q], None}
                               /\ claimed'[q] \subseteq claimed[q]
        BY <2>5, HandsShrink DEF GetPayload, LoopSteps, ProcessSteps
      <3>2. QED
        BY <2>5, <3>1, OwnShrinks DEF GetPayload
    <2>6. CASE GetPayloadFails(r)
      <3>1. \A q \in Replicas : /\ cur'[q] \in {cur[q], None}
                               /\ claimed'[q] \subseteq claimed[q]
        BY <2>6, HandsShrink DEF GetPayloadFails, LoopSteps, ProcessSteps
      <3>2. QED
        BY <2>6, <3>1, OwnShrinks DEF GetPayloadFails
    <2>7. CASE Requeue(r)
      <3>1. PICK x \in Sessions : x = cur[r]
        BY <2>7, <2>w, InHand DEF Requeue, ProcessSteps
      <3>2. Owned(x) /\ Holds(r, x)
        BY <3>1 DEF OwnInv, Holds
      <3>3. CASE UNCHANGED queue
        <4>1. \A q \in Replicas : /\ cur'[q] \in {cur[q], None}
                                  /\ claimed'[q] \subseteq claimed[q]
          BY <2>7, HandsShrink DEF Requeue
        <4>2. QED
          BY <2>7, <3>3, <4>1, OwnShrinks DEF Requeue
      <3>4. CASE queue' = Append(queue, x)
        <4>1. /\ \A t \in Sessions : InQueue(t)' <=> InQueue(t) \/ t = x
              /\ QueueOnce'
          BY <3>1, <3>2, <3>4, QueueAppend DEF OwnInv, Owned, Alone
        <4>2. /\ cur' = [cur EXCEPT ![r] = None]
              /\ UNCHANGED <<retry, claimed, kind, tally>>
          BY <2>7 DEF Requeue, Return
        <4>3. \A t \in Sessions \ {x} : Undisturbed(t)
          BY <3>1, <4>1, <4>2, <2>w, ConfigAssumption DEF Undisturbed, WorkerType
        <4>4. InQueue(x)' /\ x \notin retry' /\ \A q \in Replicas : ~Holds(q, x)'
          BY <3>1, <3>2, <4>1, <4>2, <2>w, ConfigAssumption
          DEF Owned, Alone, Holds, WorkerType
        <4>5. Owned(x)'
          BY <3>2, <4>2, <4>4 DEF Owned, Alone, Settled, InFlight
        <4>6. QED
          BY <3>1, <4>1, <4>3, <4>5, OwnMoves
      <3>5. QED
        BY <2>7, <3>1, <3>3, <3>4 DEF Requeue
    <2>8. CASE MarkDelivering(r)
      <3>1. \A q \in Replicas : /\ cur'[q] \in {cur[q], None}
                               /\ claimed'[q] \subseteq claimed[q]
        BY <2>8, HandsShrink DEF MarkDelivering, LoopSteps, ProcessSteps
      <3>2. QED
        BY <2>8, <3>1, OwnShrinks DEF MarkDelivering
    <2>9. CASE Deliver(r)
      <3>1. \A q \in Replicas : /\ cur'[q] \in {cur[q], None}
                               /\ claimed'[q] \subseteq claimed[q]
        BY <2>9, HandsShrink DEF Deliver, LoopSteps, ProcessSteps
      <3>2. QED
        BY <2>9, <3>1, OwnShrinks DEF Deliver
    <2>10. CASE MarkDelivered(r)
      <3>1. delivered' = [delivered EXCEPT ![cur[r]] = @ + 1] /\ Return(r)
        BY <2>10 DEF MarkDelivered
      <3>2. UNCHANGED <<queue, retry, kind, failed>>
        BY <2>10 DEF MarkDelivered
      <3>3. cur[r] \in Sessions
        BY <2>10, <2>w, InHand DEF MarkDelivered, ProcessSteps
      <3>4. QED
        BY <3>1, <3>2, <3>3, OwnSettles
    <2>11. CASE Terminal(r)
      <3>1. failed' = [failed EXCEPT ![cur[r]] = @ + 1] /\ Return(r)
        BY <2>11 DEF Terminal
      <3>2. UNCHANGED <<queue, retry, kind, delivered>>
        BY <2>11 DEF Terminal
      <3>3. cur[r] \in Sessions
        BY <2>11, <2>w, InHand DEF Terminal, ProcessSteps
      <3>4. QED
        BY <3>1, <3>2, <3>3, OwnSettles
    <2>12. CASE ReadAttempts(r)
      <3>1. \A q \in Replicas : /\ cur'[q] \in {cur[q], None}
                               /\ claimed'[q] \subseteq claimed[q]
        BY <2>12, <2>w DEF ReadAttempts, WorkerType
      <3>2. QED
        BY <2>12, <3>1, OwnShrinks DEF ReadAttempts
    <2>13. CASE ScheduleRefused(r)
      <3>1. \A q \in Replicas : /\ cur'[q] \in {cur[q], None}
                               /\ claimed'[q] \subseteq claimed[q]
        BY <2>13, HandsShrink DEF ScheduleRefused, LoopSteps, ProcessSteps
      <3>2. QED
        BY <2>13, <3>1, OwnShrinks DEF ScheduleRefused
    <2>14. CASE ScheduleSet(r)
      <3>1. \A q \in Replicas : /\ cur'[q] \in {cur[q], None}
                               /\ claimed'[q] \subseteq claimed[q]
        BY <2>14, <2>w DEF ScheduleSet, WorkerType
      <3>2. QED
        BY <2>14, <3>1, OwnShrinks DEF ScheduleSet
    <2>15. CASE ScheduleSetFails(r)
      <3>1. \A q \in Replicas : /\ cur'[q] \in {cur[q], None}
                               /\ claimed'[q] \subseteq claimed[q]
        BY <2>15, HandsShrink DEF ScheduleSetFails, LoopSteps, ProcessSteps
      <3>2. QED
        BY <2>15, <3>1, OwnShrinks DEF ScheduleSetFails
    <2>16. CASE ScheduleZAdd(r)
      <3>1. PICK x \in Sessions : x = cur[r]
        BY <2>16, <2>w, InHand DEF ScheduleZAdd, ProcessSteps
      <3>2. Owned(x) /\ Holds(r, x)
        BY <3>1 DEF OwnInv, Holds
      <3>3. /\ retry' = retry \cup {x} /\ cur' = [cur EXCEPT ![r] = None]
            /\ UNCHANGED <<queue, claimed, kind, tally>>
        BY <2>16, <3>1 DEF ScheduleZAdd, AddRetry, Return
      <3>4. QueueOnce' /\ \A t \in Sessions : InQueue(t)' <=> InQueue(t)
        BY <3>3 DEF OwnInv, QueueOnce, InQueue
      <3>5. \A t \in Sessions \ {x} : Undisturbed(t)
        BY <3>3, <3>4, <2>w, ConfigAssumption DEF Undisturbed, WorkerType
      <3>6. ~InQueue(x)' /\ x \in retry' /\ \A q \in Replicas : ~Holds(q, x)'
        BY <3>1, <3>2, <3>3, <3>4, <2>w, ConfigAssumption
        DEF Owned, Alone, Holds, WorkerType
      <3>7. Owned(x)'
        BY <3>2, <3>3, <3>6 DEF Owned, Alone, Settled, InFlight
      <3>8. QED
        BY <3>1, <3>4, <3>5, <3>7, OwnMoves
    <2>17. CASE ScheduleZAddFails(r)
      <3>1. \A q \in Replicas : /\ cur'[q] \in {cur[q], None}
                               /\ claimed'[q] \subseteq claimed[q]
        BY <2>17, HandsShrink DEF ScheduleZAddFails, LoopSteps, ProcessSteps
      <3>2. UNCHANGED <<retry, score>>
        BY <2>17 DEF ScheduleZAddFails, Fault
      <3>3. QED
        BY <2>17, <3>1, <3>2, OwnShrinks DEF ScheduleZAddFails
    <2>18. CASE DueRange(r)
      <3>1. \A q \in Replicas : /\ cur'[q] \in {cur[q], None}
                               /\ claimed'[q] \subseteq claimed[q]
        BY <2>18, <2>w DEF DueRange, WorkerType
      <3>2. QED
        BY <2>18, <3>1, OwnShrinks DEF DueRange
    <2>19. CASE DueRangeFails(r)
      <3>1. \A q \in Replicas : /\ cur'[q] \in {cur[q], None}
                               /\ claimed'[q] \subseteq claimed[q]
        BY <2>19, HandsShrink DEF DueRangeFails, LoopSteps, ProcessSteps
      <3>2. QED
        BY <2>19, <3>1, OwnShrinks DEF DueRangeFails
    <2>20. CASE DueClaim(r)
      <3>1. PICK x \in due[r] :
              /\ claimed' = [claimed EXCEPT ![r] = IF Won(x) THEN @ \cup {x} ELSE @]
              /\ RemoveRetry(x)
        BY <2>20 DEF DueClaim
      <3>2. x \in Sessions /\ UNCHANGED <<queue, cur, kind, tally>>
        BY <2>20, <2>w DEF DueClaim, WorkerType
      <3>3. QueueOnce' /\ \A t \in Sessions : InQueue(t)' <=> InQueue(t)
        BY <3>2 DEF OwnInv, QueueOnce, InQueue
      <3>4. CASE x \in retry
        <4>1. /\ retry' = retry \ {x}
              /\ claimed' = [claimed EXCEPT ![r] = @ \cup {x}]
          BY <3>1, <3>4 DEF RemoveRetry, Won
        <4>2. Owned(x) /\ ~InQueue(x) /\ \A q \in Replicas : ~Holds(q, x)
          BY <3>2, <3>4 DEF OwnInv, Owned, Alone
        <4>3. \A t \in Sessions \ {x} : Undisturbed(t)
          BY <3>2, <3>3, <4>1, <2>w DEF Undisturbed, WorkerType
        <4>4. /\ ~InQueue(x)' /\ x \notin retry' /\ cur'[r] # x
              /\ \A q \in Replicas : Holds(q, x)' <=> q = r
          BY <3>2, <3>3, <4>1, <4>2, <2>w DEF Holds, WorkerType
        <4>5. InFlight(x)
          BY <3>4 DEF InFlight
        <4>6. Owned(x)'
          BY <3>2, <4>2, <4>4, <4>5 DEF Owned, Alone, Settled
        <4>7. QED
          BY <3>2, <3>3, <4>3, <4>6, OwnMoves
      <3>5. CASE x \notin retry
        <4>1. retry' \subseteq retry /\ claimed' = claimed
          BY <3>1, <3>5, <2>w DEF RemoveRetry, Won, WorkerType
        <4>2. QED
          BY <3>2, <4>1, OwnShrinks
      <3>6. QED
        BY <3>4, <3>5
    <2>21. CASE DueClaimFails(r)
      <3>1. \A q \in Replicas : /\ cur'[q] \in {cur[q], None}
                               /\ claimed'[q] \subseteq claimed[q]
        BY <2>21, HandsShrink DEF DueClaimFails, LoopSteps, ProcessSteps
      <3>2. QED
        BY <2>21, <3>1, OwnShrinks DEF DueClaimFails, RemoveRetry
    <2>22. CASE DueClaimed(r)
      <3>1. \A q \in Replicas : /\ cur'[q] \in {cur[q], None}
                               /\ claimed'[q] \subseteq claimed[q]
        BY <2>22, HandsShrink DEF DueClaimed, LoopSteps, ProcessSteps
      <3>2. QED
        BY <2>22, <3>1, OwnShrinks DEF DueClaimed
    <2>23. CASE ProcessDue(r)
      <3>1. PICK x \in claimed[r] :
              /\ cur' = [cur EXCEPT ![r] = x]
              /\ claimed' = [claimed EXCEPT ![r] = @ \ {x}]
        BY <2>23 DEF ProcessDue, Process
      <3>2. x \in Sessions /\ UNCHANGED <<queue, retry, kind, tally>> /\ cur[r] = None
        BY <2>23, <2>w DEF ProcessDue, WorkerType, ProcessSteps
      <3>3. QueueOnce' /\ \A t \in Sessions : InQueue(t)' <=> InQueue(t)
        BY <3>2 DEF OwnInv, QueueOnce, InQueue
      <3>4. Owned(x) /\ Holds(r, x)
        BY <3>2 DEF OwnInv, Holds
      <3>5. \A t \in Sessions \ {x} : Undisturbed(t)
        BY <3>1, <3>2, <3>3, <2>w DEF Undisturbed, WorkerType
      <3>6. /\ ~InQueue(x)' /\ x \notin retry' /\ x \notin claimed'[r]
            /\ \A q \in Replicas : Holds(q, x)' <=> q = r
        BY <3>1, <3>2, <3>3, <3>4, <2>w DEF Owned, Alone, Holds, WorkerType
      <3>7. InFlight(x)
        BY <3>4 DEF InFlight
      <3>8. Owned(x)'
        BY <3>2, <3>4, <3>6, <3>7 DEF Owned, Alone, Settled
      <3>9. QED
        BY <3>2, <3>3, <3>5, <3>8, OwnMoves
    <2>24. CASE EndCycle(r)
      <3>1. \A q \in Replicas : /\ cur'[q] \in {cur[q], None}
                               /\ claimed'[q] \subseteq claimed[q]
        BY <2>24, HandsShrink DEF EndCycle, LoopSteps, ProcessSteps
      <3>2. QED
        BY <2>24, <3>1, OwnShrinks DEF EndCycle
    <2>25. QED
      BY
         <2>1, <2>2, <2>3, <2>4, <2>5, <2>6, <2>7, <2>8, <2>9, <2>10,
         <2>11, <2>12, <2>13, <2>14, <2>15, <2>16, <2>17, <2>18,
         <2>19, <2>20, <2>21, <2>22, <2>23, <2>24
      DEF Work
  <1>4. ASSUME NEW r \in Replicas, Crash(r) PROVE OwnInv'
    <2>1. \A q \in Replicas : /\ cur'[q] \in {cur[q], None}
                               /\ claimed'[q] \subseteq claimed[q]
      BY <1>4, HandsShrink DEF Crash
    <2>2. QED
      BY <1>4, <2>1, OwnShrinks DEF Crash
  <1>5. CASE UNCHANGED vars
    BY <1>5, OwnShrinks DEF vars
  <1>6. QED
    BY <1>1, <1>2, <1>3, <1>4, <1>5 DEF Next

LEMMA OwnImplies == TypeOK /\ OwnInv => ExclusiveOwnership /\ SettledOnce
  <1> SUFFICES ASSUME TypeOK, OwnInv PROVE ExclusiveOwnership /\ SettledOnce
    OBVIOUS
  <1>1. ExclusiveOwnership
    BY DEF TypeOK, OwnInv, QueueOnce, Owned, Alone, ExclusiveOwnership
  <1>2. SettledOnce
    BY DEF OwnInv, Owned, SettledOnce
  <1>3. QED
    BY <1>1, <1>2

LEMMA OwnAlways ==
  ASSUME "zaddAck" \notin Faults
  PROVE  Spec => [](TypeOK /\ OwnInv)
  <1>1. TypeOK /\ OwnInv /\ [Next]_vars => TypeOK' /\ OwnInv'
    BY TypeNext, OwnNext
  <1>2. Init => TypeOK /\ OwnInv
    BY TypeInit, OwnInit
  <1>3. QED
    BY <1>1, <1>2, PTL DEF Spec

\* Without a lock, any number of replicas never share a session: RPOP and the
\* ZREM claim keep every id in one place, whatever calls fail and whenever
\* processes crash, as long as a ZADD reported as failed did not happen.
THEOREM OwnershipHolds ==
  ASSUME "zaddAck" \notin Faults
  PROVE  Spec => []ExclusiveOwnership
  BY OwnAlways, OwnImplies, PTL

\* Under the same condition no session is counted twice among the outcomes.
THEOREM OneOutcome ==
  ASSUME "zaddAck" \notin Faults
  PROVE  Spec => []SettledOnce
  BY OwnAlways, OwnImplies, PTL
=============================================================================
