------------------------ MODULE WebhookRetry_proofs ------------------------
(***************************************************************************)
(* Theorems about the retries of WebhookDelivery: what is scheduled, how   *)
(* the persisted attempt counter relates to the sends, and the back-off    *)
(* computed from it.                                                       *)
(***************************************************************************)
EXTENDS WebhookDelivery_proofs

-----------------------------------------------------------------------------
(* What every step of a replica has in common *)

\* A step of r leaves the control state of every other replica alone.
Others(r) ==
    \A q \in Replicas \ {r} :
        /\ pc'[q] = pc[q] /\ phase'[q] = phase[q] /\ cur'[q] = cur[q]
        /\ attempt'[q] = attempt[q] /\ nextAt'[q] = nextAt[q]
        /\ due'[q] = due[q] /\ claimed'[q] = claimed[q]

\* The counts a step of a replica may only raise.
Rising ==
    \A s \in Sessions : /\ posts[s] > 0 => posts'[s] > 0
                        /\ attempts[s] > 0 => attempts'[s] > 0

LEMMA RisingKept ==
  ASSUME TypeOK, UNCHANGED <<posts, attempts>> PROVE Rising
  BY DEF Rising, TypeOK

LEMMA WorkFrame ==
  ASSUME TypeOK, NEW r \in Replicas, Work(r) \/ Crash(r)
  PROVE  UNCHANGED env /\ Others(r) /\ Rising
  <1> USE DEF env, store, worker, tally
  <1>t. /\ phase \in [Replicas -> {"drain", "due"}]
        /\ DOMAIN pc = Replicas /\ DOMAIN cur = Replicas
        /\ DOMAIN attempt = Replicas /\ DOMAIN nextAt = Replicas
        /\ DOMAIN due = Replicas /\ DOMAIN claimed = Replicas
    BY DEF TypeOK, WorkerType
  <1>1. CASE StartCycle(r)
    BY <1>1, <1>t, RisingKept DEF Others, StartCycle, Goto
  <1>2. CASE RPop(r)
    BY <1>2, <1>t, RisingKept DEF Others, RPop, Process
  <1>3. CASE RPopEmpty(r)
    BY <1>3, <1>t, RisingKept DEF Others, RPopEmpty, Goto
  <1>4. CASE RPopFails(r)
    BY <1>4, <1>t, RisingKept DEF Others, RPopFails, Goto
  <1>5. CASE GetPayload(r)
    BY <1>5, <1>t, RisingKept DEF Others, GetPayload, Goto, Return
  <1>6. CASE GetPayloadFails(r)
    BY <1>6, <1>t, RisingKept DEF Others, GetPayloadFails, Goto
  <1>7. CASE Requeue(r)
    BY <1>7, <1>t, RisingKept DEF Others, Requeue, Return
  <1>8. CASE MarkDelivering(r)
    BY <1>8, <1>t, RisingKept DEF Others, MarkDelivering, Goto
  <1>9. CASE Deliver(r)
    <2>1. posts \in [Sessions -> Nat] /\ attempts' = attempts
      BY <1>9 DEF Deliver, TypeOK
    <2>2. posts' = posts \/ posts' = [posts EXCEPT ![cur[r]] = @ + 1]
      BY <1>9 DEF Deliver
    <2>3. \A s \in Sessions : posts[s] > 0 => posts'[s] > 0
      BY <2>1, <2>2
    <2>4. QED
      BY <1>9, <1>t, <2>1, <2>3 DEF Others, Rising, Deliver, Goto
  <1>10. CASE MarkDelivered(r)
    BY <1>10, <1>t, RisingKept DEF Others, MarkDelivered, Return
  <1>11. CASE Terminal(r)
    BY <1>11, <1>t, RisingKept DEF Others, Terminal, Return
  <1>12. CASE ReadAttempts(r)
    BY <1>12, <1>t, RisingKept DEF Others, ReadAttempts
  <1>13. CASE ScheduleRefused(r)
    BY <1>13, <1>t, RisingKept DEF Others, ScheduleRefused, Goto
  <1>14. CASE ScheduleSet(r)
    <2>1. Recorded(r) > 0 /\ posts \in [Sessions -> Nat] /\ posts' = posts
      BY <1>14, ConfigAssumption DEF ScheduleSet, TypeOK, WorkerType, Recorded
    <2>2. \A s \in Sessions : attempts[s] > 0 => attempts'[s] > 0
      BY <1>14, <2>1 DEF ScheduleSet, TypeOK
    <2>3. QED
      BY <1>14, <1>t, <2>1, <2>2 DEF Rising, Others, ScheduleSet
  <1>15. CASE ScheduleSetFails(r)
    <2>1. Recorded(r) > 0 /\ posts \in [Sessions -> Nat] /\ posts' = posts
      BY <1>15, ConfigAssumption DEF ScheduleSetFails, TypeOK, WorkerType, Recorded
    <2>2. \A s \in Sessions : attempts[s] > 0 => attempts'[s] > 0
      BY <1>15, <2>1 DEF ScheduleSetFails, TypeOK
    <2>3. QED
      BY <1>15, <1>t, <2>1, <2>2 DEF Rising, Others, ScheduleSetFails, Goto
  <1>16. CASE ScheduleZAdd(r)
    BY <1>16, <1>t, RisingKept DEF Others, ScheduleZAdd, Return
  <1>17. CASE ScheduleZAddFails(r)
    BY <1>17, <1>t, RisingKept DEF Others, ScheduleZAddFails, Goto
  <1>18. CASE DueRange(r)
    BY <1>18, <1>t, RisingKept DEF Others, DueRange
  <1>19. CASE DueRangeFails(r)
    BY <1>19, <1>t, RisingKept DEF Others, DueRangeFails, Reset
  <1>20. CASE DueClaim(r)
    BY <1>20, <1>t, RisingKept DEF Others, DueClaim
  <1>21. CASE DueClaimFails(r)
    BY <1>21, <1>t, RisingKept DEF Others, DueClaimFails, Reset
  <1>22. CASE DueClaimed(r)
    BY <1>22, <1>t, RisingKept DEF Others, DueClaimed, Goto
  <1>23. CASE ProcessDue(r)
    BY <1>23, <1>t, RisingKept DEF Others, ProcessDue, Process
  <1>24. CASE EndCycle(r)
    BY <1>24, <1>t, RisingKept DEF Others, EndCycle, Reset
  <1>25. CASE Crash(r)
    BY <1>25, <1>t, RisingKept DEF Others, Crash, Reset
  <1>26. QED
    BY <1>1, <1>2, <1>3, <1>4, <1>5, <1>6, <1>7, <1>8, <1>9, <1>10, <1>11, <1>12, <1>13, <1>14, <1>15, <1>16, <1>17, <1>18, <1>19, <1>20, <1>21, <1>22, <1>23, <1>24, <1>25 DEF Work

-----------------------------------------------------------------------------
(* What a replica carries and what the stores keep *)

LEMMA UnixBelow == ASSUME NEW t \in Int PROVE Unix(t) * Second <= t
  BY ConfigAssumption, SMTT(30) DEF Unix

\* Taking the head off the queue, wherever else the same id may be.
LEMMA QueueShrinks ==
  ASSUME TypeOK, queue # <<>>, queue' = Tail(queue)
  PROVE  /\ Head(queue) \in Sessions /\ InQueue(Head(queue))
         /\ \A s \in Sessions : /\ InQueue(s)' => InQueue(s)
                                /\ InQueue(s) => InQueue(s)' \/ s = Head(queue)
  <1>1. queue \in Seq(Sessions)
    BY DEF TypeOK
  <1>2. /\ Len(queue) \in Nat \ {0}
        /\ Len(queue') = Len(queue) - 1
        /\ \A i \in 1..Len(queue') : queue'[i] = queue[i + 1]
        /\ Head(queue) = queue[1]
        /\ Head(queue) \in Sessions
    BY <1>1
  <1>3. ASSUME NEW s \in Sessions, InQueue(s)' PROVE InQueue(s)
    <2>1. PICK i \in 1..Len(queue') : queue'[i] = s
      BY <1>3 DEF InQueue
    <2>2. i + 1 \in 1..Len(queue) /\ queue[i + 1] = s
      BY <2>1, <1>2
    <2>3. QED
      BY <2>2 DEF InQueue
  <1>4. ASSUME NEW s \in Sessions, InQueue(s), s # Head(queue) PROVE InQueue(s)'
    <2>1. PICK i \in 1..Len(queue) : queue[i] = s
      BY <1>4 DEF InQueue
    <2>2. i - 1 \in 1..Len(queue') /\ queue'[i - 1] = s
      BY <2>1, <1>2, <1>4
    <2>3. QED
      BY <2>2 DEF InQueue
  <1>5. InQueue(Head(queue))
    BY <1>2 DEF InQueue
  <1>6. QED
    BY <1>2, <1>3, <1>4, <1>5

\* What replica r has in hand was handed off with a payload that goes as far
\* as the step it is at; a scheduled retry is inside the TTL and has its
\* counter.
Carries(r) ==
    /\ claimed[r] # {} => \/ pc[r] \in {"claim", "work"}
                          \/ phase[r] = "due" /\ pc[r] \in ProcessSteps
    /\ \A s \in claimed[r] : kind[s] # "none"
    /\ pc[r] \in ProcessSteps => kind[cur[r]] # "none"
    /\ pc[r] \in {"mark", "post"} => kind[cur[r]] \in {"ok", "undecryptable"}
    /\ pc[r] \in {"done", "attempts", "schedule", "zadd"} =>
          kind[cur[r]] = "ok" /\ posts[cur[r]] > 0
    /\ pc[r] = "zadd" => nextAt[r] <= expiresAt[cur[r]] /\ attempts[cur[r]] > 0

\* What the queue, the retry set and the row of s hold for it.
Kept(s) ==
    /\ InQueue(s) \/ s \in retry => kind[s] # "none"
    /\ s \in retry => score[s] * Second <= expiresAt[s] /\ attempts[s] > 0
    /\ kind[s] = "none" => /\ posts[s] = 0 /\ attempts[s] = 0
                           /\ delivered[s] = 0 /\ failed[s] = 0
                           /\ wstate[s] = "pending"

HandInv == (\A r \in Replicas : Carries(r)) /\ (\A s \in Sessions : Kept(s))

LEMMA HandInit == Init => HandInv
  BY ConfigAssumption
  DEF Init, HandInv, Carries, Kept, InQueue, ProcessSteps

\* The replicas a step leaves alone.
LEMMA CarriesKept ==
  ASSUME TypeOK, NEW r \in Replicas, Others(r), Rising, UNCHANGED env,
         NEW q \in Replicas \ {r}, Carries(q)
  PROVE  Carries(q)'
  <1>1. pc[q] \in ProcessSteps => cur[q] \in Sessions
    BY InHand DEF TypeOK
  <1>2. QED
    BY <1>1 DEF Carries, Others, ProcessSteps, Rising, env

\* The sessions whose store entries a step leaves alone or removes.
LEMMA KeptKept ==
  ASSUME NEW s \in Sessions, Kept(s), UNCHANGED env, Rising,
         InQueue(s)' => kind[s] # "none",
         s \in retry' => s \in retry /\ score'[s] = score[s],
         kind[s] = "none" => UNCHANGED <<posts[s], attempts[s], delivered[s],
                                         failed[s], wstate[s]>>
  PROVE  Kept(s)'
  BY DEF Kept, env, Rising

\* ZADD at the time Schedule computed, truncated to whole seconds.
LEMMA KeptAdds ==
  ASSUME TypeOK, NEW s \in Sessions, Kept(s), UNCHANGED env, Rising,
         NEW r \in Replicas, Carries(r), pc[r] = "zadd", AddRetry(r),
         InQueue(s)' <=> InQueue(s),
         UNCHANGED <<posts, attempts, delivered, failed, wstate>>
  PROVE  Kept(s)'
  <1>1. CASE s = cur[r]
    <2>1. Unix(nextAt[r]) * Second <= nextAt[r] /\ nextAt[r] <= expiresAt[s]
      BY <1>1, UnixBelow DEF Carries, TypeOK, WorkerType
    <2>2. Unix(nextAt[r]) \in Int /\ nextAt[r] \in Int /\ expiresAt[s] \in Int
      BY UnixType, ConfigAssumption DEF TypeOK, WorkerType
    <2>3. score'[s] = Unix(nextAt[r])
      BY <1>1 DEF AddRetry, TypeOK
    <2>4. score'[s] * Second <= expiresAt[s]
      BY <2>1, <2>2, <2>3, ConfigAssumption
    <2>5. QED
      BY <1>1, <2>4 DEF Kept, Carries, ProcessSteps, env
  <1>2. CASE s # cur[r]
    BY <1>2, KeptKept DEF Kept, AddRetry, TypeOK
  <1>3. QED
    BY <1>1, <1>2

LEMMA HandNext ==
  ASSUME TypeOK, HandInv, [Next]_vars PROVE HandInv'
  <1> USE DEF store, worker, tally
  <1>1. CASE Clock
    BY <1>1 DEF Clock, HandInv, Carries, Kept, InQueue
  <1>2. ASSUME NEW s \in Sessions, Handoff(s) PROVE HandInv'
    <2>1. /\ kind[s] = "none" /\ kind'[s] # "none"
          /\ \A t \in Sessions \ {s} : kind'[t] = kind[t] /\ expiresAt'[t] = expiresAt[t]
      BY <1>2, ConfigAssumption DEF Handoff, TypeOK, AllKinds
    <2>2. \A t \in Sessions : InQueue(t)' <=> InQueue(t) \/ t = s
      BY <1>2, QueueAppend DEF Handoff
    <2>3. ASSUME NEW r \in Replicas PROVE Carries(r)'
      <3>1. claimed[r] \subseteq Sessions \ {s}
        BY <2>1 DEF HandInv, Carries, TypeOK, WorkerType
      <3>2. pc[r] \in ProcessSteps => cur[r] \in Sessions \ {s}
        BY <2>1, InHand DEF HandInv, Carries, TypeOK
      <3>3. QED
        BY <1>2, <2>1, <3>1, <3>2 DEF Handoff, HandInv, Carries, ProcessSteps
    <2>4. ASSUME NEW t \in Sessions PROVE Kept(t)'
      BY <1>2, <2>1, <2>2 DEF Handoff, HandInv, Kept
    <2>5. QED
      BY <2>3, <2>4 DEF HandInv
  <1>3. ASSUME NEW r \in Replicas, Work(r) PROVE HandInv'
    <2>f. UNCHANGED env /\ Others(r) /\ Rising
      BY <1>3, WorkFrame
    <2>k. Carries(r) /\ \A s \in Sessions : Kept(s)
      BY DEF HandInv
    <2>w. WorkerType /\ (pc[r] \in ProcessSteps => cur[r] \in Sessions)
      BY InHand DEF TypeOK
    <2>1. SUFFICES Carries(r)' /\ \A s \in Sessions : Kept(s)'
      BY <2>f, CarriesKept DEF HandInv
    <2>2. CASE StartCycle(r)
      <3>1. Carries(r)'
        BY <2>2, <2>f, <2>k, <2>w, ConfigAssumption DEF StartCycle, Goto, Carries, env, WorkerType, LoopSteps, ProcessSteps
      <3>2. ASSUME NEW s \in Sessions PROVE Kept(s)'
        BY <2>2, <2>f, <2>k, KeptKept DEF StartCycle, Goto, Kept, InQueue
      <3>3. QED
        BY <3>1, <3>2
    <2>3. CASE RPop(r)
      <3>1. Carries(r)'
        <4>1. Head(queue) \in Sessions /\ kind[Head(queue)] # "none"
          BY <2>3, <2>k, QueueShrinks DEF RPop, Kept
        <4>2. QED
          BY <2>3, <2>f, <2>k, <2>w, <4>1 DEF RPop, Process, Carries, env, WorkerType, LoopSteps, ProcessSteps
      <3>2. ASSUME NEW s \in Sessions PROVE Kept(s)'
        BY <2>3, <2>f, <2>k, QueueShrinks, KeptKept DEF RPop, Kept
      <3>3. QED
        BY <3>1, <3>2
    <2>4. CASE RPopEmpty(r)
      <3>1. Carries(r)'
        BY <2>4, <2>f, <2>k, <2>w, ConfigAssumption DEF RPopEmpty, Goto, Carries, env, WorkerType, LoopSteps, ProcessSteps
      <3>2. ASSUME NEW s \in Sessions PROVE Kept(s)'
        BY <2>4, <2>f, <2>k, KeptKept DEF RPopEmpty, Goto, Kept, InQueue
      <3>3. QED
        BY <3>1, <3>2
    <2>5. CASE RPopFails(r)
      <3>1. Carries(r)'
        BY <2>5, <2>f, <2>k, <2>w, ConfigAssumption DEF RPopFails, Goto, Carries, env, WorkerType, LoopSteps, ProcessSteps
      <3>2. ASSUME NEW s \in Sessions PROVE Kept(s)'
        <4>1. InQueue(s)' => InQueue(s)
          BY <2>5, QueueShrinks DEF RPopFails, InQueue
        <4>2. QED
          BY <2>5, <2>f, <2>k, <4>1, KeptKept DEF RPopFails, Kept
      <3>3. QED
        BY <3>1, <3>2
    <2>6. CASE GetPayload(r)
      <3>1. Carries(r)'
        BY <2>6, <2>f, <2>k, <2>w, ConfigAssumption DEF GetPayload, Goto, Return, Carries, env, WorkerType, LoopSteps, ProcessSteps
      <3>2. ASSUME NEW s \in Sessions PROVE Kept(s)'
        BY <2>6, <2>f, <2>k, KeptKept DEF GetPayload, Goto, Return, Kept, InQueue
      <3>3. QED
        BY <3>1, <3>2
    <2>7. CASE GetPayloadFails(r)
      <3>1. Carries(r)'
        BY <2>7, <2>f, <2>k, <2>w, ConfigAssumption DEF GetPayloadFails, Goto, Carries, env, WorkerType, LoopSteps, ProcessSteps
      <3>2. ASSUME NEW s \in Sessions PROVE Kept(s)'
        BY <2>7, <2>f, <2>k, KeptKept DEF GetPayloadFails, Goto, Kept, InQueue
      <3>3. QED
        BY <3>1, <3>2
    <2>8. CASE Requeue(r)
      <3>1. Carries(r)'
        BY <2>8, <2>f, <2>k, <2>w, ConfigAssumption DEF Requeue, Return, Carries, env, WorkerType, LoopSteps, ProcessSteps
      <3>2. ASSUME NEW s \in Sessions PROVE Kept(s)'
        <4>1. InQueue(s)' => InQueue(s) \/ s = cur[r]
          BY <2>8, <2>w, QueueAppend DEF Requeue, InQueue, ProcessSteps
        <4>2. QED
          BY <2>8, <2>f, <2>k, <4>1, KeptKept DEF Requeue, Kept, Carries, ProcessSteps
      <3>3. QED
        BY <3>1, <3>2
    <2>9. CASE MarkDelivering(r)
      <3>1. Carries(r)'
        BY <2>9, <2>f, <2>k, <2>w, ConfigAssumption DEF MarkDelivering, Goto, Carries, env, WorkerType, LoopSteps, ProcessSteps
      <3>2. ASSUME NEW s \in Sessions PROVE Kept(s)'
        <4>1. s # cur[r] => UNCHANGED <<delivered[s], failed[s], wstate[s]>>
          BY <2>9 DEF MarkDelivering, SetWebhookState, TypeOK
        <4>2. (InQueue(s)' <=> InQueue(s)) /\ UNCHANGED <<retry, score, posts, attempts>>
          BY <2>9 DEF MarkDelivering, InQueue
        <4>3. kind[cur[r]] # "none"
          BY <2>9, <2>k DEF MarkDelivering, Carries, ProcessSteps
        <4>4. QED
          BY <2>f, <2>k, <4>1, <4>2, <4>3, KeptKept DEF Kept
      <3>3. QED
        BY <3>1, <3>2
    <2>10. CASE Deliver(r)
      <3>1. Carries(r)'
        <4>1. cur[r] \in Sessions /\ posts \in [Sessions -> Nat]
          BY <2>10, <2>w DEF Deliver, ProcessSteps, TypeOK
        <4>2. QED
          BY <2>10, <2>f, <2>k, <2>w, <4>1 DEF Deliver, Goto, Carries, env, WorkerType, ProcessSteps
      <3>2. ASSUME NEW s \in Sessions PROVE Kept(s)'
        <4>1. s # cur[r] => UNCHANGED <<posts[s], attempts[s]>>
          BY <2>10 DEF Deliver, TypeOK
        <4>2. (InQueue(s)' <=> InQueue(s)) /\ UNCHANGED <<retry, score, delivered, failed, wstate>>
          BY <2>10 DEF Deliver, InQueue
        <4>3. kind[cur[r]] # "none"
          BY <2>10, <2>k DEF Deliver, Carries, ProcessSteps
        <4>4. QED
          BY <2>f, <2>k, <4>1, <4>2, <4>3, KeptKept DEF Kept
      <3>3. QED
        BY <3>1, <3>2
    <2>11. CASE MarkDelivered(r)
      <3>1. Carries(r)'
        BY <2>11, <2>f, <2>k, <2>w, ConfigAssumption DEF MarkDelivered, Return, Carries, env, WorkerType, LoopSteps, ProcessSteps
      <3>2. ASSUME NEW s \in Sessions PROVE Kept(s)'
        <4>1. s # cur[r] => UNCHANGED <<delivered[s], failed[s], wstate[s]>>
          BY <2>11 DEF MarkDelivered, SetWebhookState, TypeOK
        <4>2. (InQueue(s)' <=> InQueue(s)) /\ UNCHANGED <<retry, score, posts, attempts>>
          BY <2>11 DEF MarkDelivered, InQueue
        <4>3. kind[cur[r]] # "none"
          BY <2>11, <2>k DEF MarkDelivered, Carries, ProcessSteps
        <4>4. QED
          BY <2>f, <2>k, <4>1, <4>2, <4>3, KeptKept DEF Kept
      <3>3. QED
        BY <3>1, <3>2
    <2>12. CASE Terminal(r)
      <3>1. Carries(r)'
        BY <2>12, <2>f, <2>k, <2>w, ConfigAssumption DEF Terminal, Return, Carries, env, WorkerType, LoopSteps, ProcessSteps
      <3>2. ASSUME NEW s \in Sessions PROVE Kept(s)'
        <4>1. s # cur[r] => UNCHANGED <<delivered[s], failed[s], wstate[s]>>
          BY <2>12 DEF Terminal, SetWebhookState, TypeOK
        <4>2. (InQueue(s)' <=> InQueue(s)) /\ UNCHANGED <<retry, score, posts, attempts>>
          BY <2>12 DEF Terminal, InQueue
        <4>3. kind[cur[r]] # "none"
          BY <2>12, <2>k DEF Terminal, Carries, ProcessSteps
        <4>4. QED
          BY <2>f, <2>k, <4>1, <4>2, <4>3, KeptKept DEF Kept
      <3>3. QED
        BY <3>1, <3>2
    <2>13. CASE ReadAttempts(r)
      <3>1. Carries(r)'
        BY <2>13, <2>f, <2>k, <2>w, ConfigAssumption DEF ReadAttempts, Carries, env, WorkerType, LoopSteps, ProcessSteps
      <3>2. ASSUME NEW s \in Sessions PROVE Kept(s)'
        BY <2>13, <2>f, <2>k, KeptKept DEF ReadAttempts, Kept, InQueue
      <3>3. QED
        BY <3>1, <3>2
    <2>14. CASE ScheduleRefused(r)
      <3>1. Carries(r)'
        BY <2>14, <2>f, <2>k, <2>w, ConfigAssumption DEF ScheduleRefused, Goto, Carries, env, WorkerType, LoopSteps, ProcessSteps
      <3>2. ASSUME NEW s \in Sessions PROVE Kept(s)'
        BY <2>14, <2>f, <2>k, KeptKept DEF ScheduleRefused, Goto, Kept, InQueue
      <3>3. QED
        BY <3>1, <3>2
    <2>15. CASE ScheduleSet(r)
      <3>1. Carries(r)'
        <4>1. /\ cur[r] \in Sessions /\ attempts \in [Sessions -> 0..MaxAttempts]
              /\ Recorded(r) > 0 /\ attempts' = [attempts EXCEPT ![cur[r]] = Recorded(r)]
              /\ NextAttempt(r) <= expiresAt[cur[r]]
          BY <2>15, <2>w, ConfigAssumption
          DEF ScheduleSet, MayRetry, ProcessSteps, TypeOK, WorkerType, Recorded
        <4>2. QED
          BY <2>15, <2>f, <2>k, <2>w, <4>1 DEF ScheduleSet, Carries, env, WorkerType, ProcessSteps
      <3>2. ASSUME NEW s \in Sessions PROVE Kept(s)'
        <4>1. s # cur[r] => UNCHANGED <<posts[s], attempts[s]>>
          BY <2>15 DEF ScheduleSet, TypeOK
        <4>2. (InQueue(s)' <=> InQueue(s)) /\ UNCHANGED <<retry, score, delivered, failed, wstate>>
          BY <2>15 DEF ScheduleSet, InQueue
        <4>3. kind[cur[r]] # "none"
          BY <2>15, <2>k DEF ScheduleSet, Carries, ProcessSteps
        <4>4. QED
          BY <2>f, <2>k, <4>1, <4>2, <4>3, KeptKept DEF Kept
      <3>3. QED
        BY <3>1, <3>2
    <2>16. CASE ScheduleSetFails(r)
      <3>1. Carries(r)'
        BY <2>16, <2>f, <2>k, <2>w, ConfigAssumption DEF ScheduleSetFails, Goto, Carries, env, WorkerType, LoopSteps, ProcessSteps
      <3>2. ASSUME NEW s \in Sessions PROVE Kept(s)'
        <4>1. s # cur[r] => UNCHANGED <<posts[s], attempts[s]>>
          BY <2>16 DEF ScheduleSetFails, TypeOK
        <4>2. (InQueue(s)' <=> InQueue(s)) /\ UNCHANGED <<retry, score, delivered, failed, wstate>>
          BY <2>16 DEF ScheduleSetFails, InQueue
        <4>3. kind[cur[r]] # "none"
          BY <2>16, <2>k DEF ScheduleSetFails, Carries, ProcessSteps
        <4>4. QED
          BY <2>f, <2>k, <4>1, <4>2, <4>3, KeptKept DEF Kept
      <3>3. QED
        BY <3>1, <3>2
    <2>17. CASE ScheduleZAdd(r)
      <3>1. Carries(r)'
        BY <2>17, <2>f, <2>k, <2>w, ConfigAssumption DEF ScheduleZAdd, Return, Carries, env, WorkerType, LoopSteps, ProcessSteps
      <3>2. ASSUME NEW s \in Sessions PROVE Kept(s)'
        <4>1. /\ (InQueue(s)' <=> InQueue(s)) /\ UNCHANGED <<posts, attempts, delivered, failed, wstate>>
              /\ UNCHANGED <<retry, score>> \/ AddRetry(r)
          BY <2>17 DEF ScheduleZAdd, InQueue
        <4>2. QED
          BY <2>17, <2>f, <2>k, <2>w, <4>1, KeptAdds, KeptKept DEF ScheduleZAdd, Kept, Carries, ProcessSteps
      <3>3. QED
        BY <3>1, <3>2
    <2>18. CASE ScheduleZAddFails(r)
      <3>1. Carries(r)'
        BY <2>18, <2>f, <2>k, <2>w, ConfigAssumption DEF ScheduleZAddFails, Goto, Carries, env, WorkerType, LoopSteps, ProcessSteps
      <3>2. ASSUME NEW s \in Sessions PROVE Kept(s)'
        <4>1. /\ (InQueue(s)' <=> InQueue(s)) /\ UNCHANGED <<posts, attempts, delivered, failed, wstate>>
              /\ UNCHANGED <<retry, score>> \/ AddRetry(r)
          BY <2>18 DEF ScheduleZAddFails, InQueue
        <4>2. QED
          BY <2>18, <2>f, <2>k, <2>w, <4>1, KeptAdds, KeptKept DEF ScheduleZAddFails, Kept, Carries, ProcessSteps
      <3>3. QED
        BY <3>1, <3>2
    <2>19. CASE DueRange(r)
      <3>1. Carries(r)'
        BY <2>19, <2>f, <2>k, <2>w, ConfigAssumption DEF DueRange, Carries, env, WorkerType, LoopSteps, ProcessSteps
      <3>2. ASSUME NEW s \in Sessions PROVE Kept(s)'
        BY <2>19, <2>f, <2>k, KeptKept DEF DueRange, Kept, InQueue
      <3>3. QED
        BY <3>1, <3>2
    <2>20. CASE DueRangeFails(r)
      <3>1. Carries(r)'
        BY <2>20, <2>f, <2>k, <2>w, ConfigAssumption DEF DueRangeFails, Reset, Carries, env, WorkerType, LoopSteps, ProcessSteps
      <3>2. ASSUME NEW s \in Sessions PROVE Kept(s)'
        BY <2>20, <2>f, <2>k, KeptKept DEF DueRangeFails, Reset, Kept, InQueue
      <3>3. QED
        BY <3>1, <3>2
    <2>21. CASE DueClaim(r)
      <3>1. Carries(r)'
        <4>1. PICK s \in due[r] :
                 claimed' = [claimed EXCEPT ![r] = IF Won(s) THEN @ \cup {s} ELSE @]
          BY <2>21 DEF DueClaim
        <4>2. s \in Sessions /\ (Won(s) => kind[s] # "none")
          BY <2>w, <2>k DEF WorkerType, Won, Kept
        <4>3. claimed'[r] \subseteq claimed[r] \cup {t \in {s} : kind[t] # "none"}
          BY <2>w, <4>1, <4>2 DEF WorkerType
        <4>4. QED
          BY <2>21, <2>f, <2>k, <4>3 DEF DueClaim, Carries, env, ProcessSteps
      <3>2. ASSUME NEW s \in Sessions PROVE Kept(s)'
        <4>1. s \in retry' => s \in retry /\ score'[s] = score[s]
          BY <2>21 DEF DueClaim, RemoveRetry, TypeOK
        <4>2. (InQueue(s)' <=> InQueue(s)) /\ UNCHANGED <<posts, attempts, delivered, failed, wstate>>
          BY <2>21 DEF DueClaim, InQueue
        <4>3. QED
          BY <2>f, <2>k, <4>1, <4>2, KeptKept DEF Kept
      <3>3. QED
        BY <3>1, <3>2
    <2>22. CASE DueClaimFails(r)
      <3>1. Carries(r)'
        BY <2>22, <2>f, <2>k, <2>w, ConfigAssumption DEF DueClaimFails, Reset, Carries, env, WorkerType, LoopSteps, ProcessSteps
      <3>2. ASSUME NEW s \in Sessions PROVE Kept(s)'
        <4>1. s \in retry' => s \in retry /\ score'[s] = score[s]
          BY <2>22 DEF DueClaimFails, RemoveRetry, TypeOK
        <4>2. (InQueue(s)' <=> InQueue(s)) /\ UNCHANGED <<posts, attempts, delivered, failed, wstate>>
          BY <2>22 DEF DueClaimFails, InQueue
        <4>3. QED
          BY <2>f, <2>k, <4>1, <4>2, KeptKept DEF Kept
      <3>3. QED
        BY <3>1, <3>2
    <2>23. CASE DueClaimed(r)
      <3>1. Carries(r)'
        BY <2>23, <2>f, <2>k, <2>w, ConfigAssumption DEF DueClaimed, Goto, Carries, env, WorkerType, LoopSteps, ProcessSteps
      <3>2. ASSUME NEW s \in Sessions PROVE Kept(s)'
        BY <2>23, <2>f, <2>k, KeptKept DEF DueClaimed, Goto, Kept, InQueue
      <3>3. QED
        BY <3>1, <3>2
    <2>24. CASE ProcessDue(r)
      <3>1. Carries(r)'
        BY <2>24, <2>f, <2>k, <2>w, ConfigAssumption DEF ProcessDue, Process, Carries, env, WorkerType, LoopSteps, ProcessSteps
      <3>2. ASSUME NEW s \in Sessions PROVE Kept(s)'
        BY <2>24, <2>f, <2>k, KeptKept DEF ProcessDue, Process, Kept, InQueue
      <3>3. QED
        BY <3>1, <3>2
    <2>25. CASE EndCycle(r)
      <3>1. Carries(r)'
        BY <2>25, <2>f, <2>k, <2>w, ConfigAssumption DEF EndCycle, Reset, Carries, env, WorkerType, LoopSteps, ProcessSteps
      <3>2. ASSUME NEW s \in Sessions PROVE Kept(s)'
        BY <2>25, <2>f, <2>k, KeptKept DEF EndCycle, Reset, Kept, InQueue
      <3>3. QED
        BY <3>1, <3>2
    <2>26. QED
      BY <1>3, <2>2, <2>3, <2>4, <2>5, <2>6, <2>7, <2>8, <2>9, <2>10, <2>11, <2>12, <2>13, <2>14, <2>15, <2>16, <2>17, <2>18, <2>19, <2>20, <2>21, <2>22, <2>23, <2>24, <2>25 DEF Work
  <1>4. ASSUME NEW r \in Replicas, Crash(r) PROVE HandInv'
    <2>1. Carries(r)'
      BY <1>4 DEF Crash, Reset, Carries, TypeOK, WorkerType, ProcessSteps
    <2>2. ASSUME NEW s \in Sessions PROVE Kept(s)'
      BY <1>4 DEF env, Crash, Kept, InQueue, HandInv
    <2>3. QED
      BY <1>4, <2>1, <2>2, WorkFrame, CarriesKept DEF HandInv
  <1>5. CASE UNCHANGED vars
    BY <1>5 DEF vars, env, HandInv, Carries, Kept, InQueue
  <1>6. QED
    BY <1>1, <1>2, <1>3, <1>4, <1>5 DEF Next

LEMMA HandAlways == Spec => [](TypeOK /\ HandInv)
  BY TypeInit, TypeNext, HandInit, HandNext, PTL DEF Spec

\* Whatever calls fail and whenever processes crash, a session in the retry
\* ZSET is due (in whole seconds, as Schedule stores it) before its payload's
\* TTL ends, and its attempt counter has been written.
THEOREM RetriesInTime == Spec => []RetryInsideTTL
  <1>1. TypeOK /\ HandInv => RetryInsideTTL
    BY DEF TypeOK, HandInv, Kept, RetryInsideTTL
  <1>2. QED
    BY <1>1, HandAlways, PTL

-----------------------------------------------------------------------------
(* The attempt counter *)

\* The steps of processOne at which the counter equals the sends made.
EvenSteps == {"get", "requeue", "mark", "post", "zadd"}

\* s waits, or is in hand, between one send and the next.
Even(s) ==
    \/ InQueue(s) \/ s \in retry
    \/ \E r \in Replicas : s \in claimed[r] \/ (cur[r] = s /\ pc[r] \in EvenSteps)

\* A send not yet recorded: the counter is one behind, and Schedule is about to
\* record it from the value it read, unless that read came after the TTL.
Unrecorded(r, s) ==
    /\ posts[s] = attempts[s] + 1
    /\ pc[r] = "schedule" => attempt[r] = attempts[s] \/ now >= expiresAt[s]

Counted(s) ==
    /\ posts[s] <= MaxAttempts + 1
    /\ Even(s) => posts[s] = attempts[s]
    /\ \A r \in Replicas :
          cur[r] = s /\ pc[r] \in {"attempts", "schedule"} => Unrecorded(r, s)

CountInv == \A s \in Sessions : Counted(s)

LEMMA CountInit == Init => CountInv
  BY ConfigAssumption
  DEF Init, CountInv, Counted, Even, InQueue

\* A step of r that makes no send and records none.
LEMMA CountKept ==
  ASSUME NEW s \in Sessions, Counted(s), NEW r \in Replicas,
         Others(r), UNCHANGED env,
         posts'[s] = posts[s] /\ attempts'[s] = attempts[s],
         InQueue(s)' \/ s \in retry' => Even(s),
         s \in claimed'[r] => Even(s),
         cur'[r] = s /\ pc'[r] \in EvenSteps => Even(s),
         cur'[r] = s /\ pc'[r] \in {"attempts", "schedule"} => Unrecorded(r, s)'
  PROVE  Counted(s)'
  <1>1. Even(s)' => Even(s)
    <2>1. SUFFICES ASSUME NEW q \in Replicas,
                          s \in claimed'[q] \/ (cur'[q] = s /\ pc'[q] \in EvenSteps)
                   PROVE  Even(s)
      BY DEF Even
    <2>2. CASE q = r
      BY <2>1, <2>2
    <2>3. CASE q # r
      BY <2>1, <2>3 DEF Others, Even
    <2>4. QED
      BY <2>2, <2>3
  <1>2. ASSUME NEW q \in Replicas,
               cur'[q] = s, pc'[q] \in {"attempts", "schedule"}
        PROVE  Unrecorded(q, s)'
    <2>1. CASE q = r
      BY <1>2, <2>1
    <2>2. CASE q # r
      BY <1>2, <2>2 DEF Others, Counted, Unrecorded, env
    <2>3. QED
      BY <2>1, <2>2
  <1>3. QED
    BY <1>1, <1>2 DEF Counted

\* The id in r's hand is nowhere else.
LEMMA OnlyHere ==
  ASSUME TypeOK, OwnInv, NEW r \in Replicas, cur[r] \in Sessions,
         Others(r), UNCHANGED <<queue, retry>>, cur'[r] = cur[r],
         claimed'[r] = claimed[r], pc'[r] \notin EvenSteps
  PROVE  ~Even(cur[r])'
  <1>x. PICK x \in Sessions : x = cur[r]
    OBVIOUS
  <1>1. Alone(x) /\ Holds(r, x)
    BY <1>x DEF OwnInv, Owned, Holds
  <1>2. ~InQueue(x)' /\ x \notin retry'
    BY <1>1 DEF Alone, InQueue
  <1>3. ASSUME NEW q \in Replicas
        PROVE  ~(x \in claimed'[q] \/ (cur'[q] = x /\ pc'[q] \in EvenSteps))
    BY <1>x, <1>1 DEF Alone, Holds, Others
  <1>4. QED
    BY <1>x, <1>2, <1>3 DEF Even

\* No other replica is between a send of that id and its record.
LEMMA OnlyMine ==
  ASSUME OwnInv, NEW r \in Replicas, cur[r] \in Sessions, Others(r),
         NEW q \in Replicas, cur'[q] = cur[r]
  PROVE  q = r
  BY DEF OwnInv, Owned, Alone, Holds, Others

LEMMA CountNext ==
  ASSUME Faults \cap {"attempts", "zaddAck"} = {},
         TypeOK, OwnInv, HandInv, CountInv, [Next]_vars
  PROVE  CountInv'
  <1> USE DEF store, worker, tally
  <1>1. CASE Clock
    BY <1>1 DEF Clock, CountInv, Counted, Even, Unrecorded, InQueue, TypeOK
  <1>2. ASSUME NEW s \in Sessions, Handoff(s) PROVE CountInv'
    <2>1. /\ kind[s] = "none" /\ posts[s] = 0 /\ attempts[s] = 0
          /\ \A t \in Sessions \ {s} : expiresAt'[t] = expiresAt[t]
      BY <1>2 DEF Handoff, HandInv, Kept, TypeOK
    <2>2. \A t \in Sessions : InQueue(t)' <=> InQueue(t) \/ t = s
      BY <1>2, QueueAppend DEF Handoff
    <2>3. \A r \in Replicas : cur[r] # s
      BY <2>1, ConfigAssumption DEF HandInv, Carries, TypeOK, WorkerType
    <2>4. ASSUME NEW t \in Sessions PROVE Counted(t)'
      BY <1>2, <2>1, <2>2, <2>3 DEF Handoff, CountInv, Counted, Even, Unrecorded
    <2>5. QED
      BY <2>4 DEF CountInv
  <1>3. ASSUME NEW r \in Replicas, Work(r) PROVE CountInv'
    <2>1. SUFFICES ASSUME NEW s \in Sessions PROVE Counted(s)'
      BY DEF CountInv
    <2>f. UNCHANGED env /\ Others(r)
      BY <1>3, WorkFrame
    <2>w. WorkerType /\ (pc[r] \in ProcessSteps => cur[r] \in Sessions)
      BY InHand DEF TypeOK
    <2>c. Counted(s)
      BY DEF CountInv
    <2>2. CASE StartCycle(r)
      BY <2>2, <2>f, <2>w, <2>c, CountKept, ConfigAssumption
      DEF StartCycle, Goto, WorkerType, Even, InQueue, EvenSteps, LoopSteps, ProcessSteps, Counted, Unrecorded, env
    <2>3. CASE RPop(r)
      <3>1. InQueue(s)' => InQueue(s)
        BY <2>3, QueueShrinks DEF RPop
      <3>2. cur'[r] = s => InQueue(s)
        BY <2>3, <2>w, QueueShrinks DEF RPop, Process, WorkerType
      <3>3. QED
        BY <2>3, <2>f, <2>w, <2>c, <3>1, <3>2, CountKept DEF RPop, Process, WorkerType, Even
    <2>4. CASE RPopEmpty(r)
      BY <2>4, <2>f, <2>w, <2>c, CountKept, ConfigAssumption
      DEF RPopEmpty, Goto, WorkerType, Even, InQueue, EvenSteps, LoopSteps, ProcessSteps, Counted, Unrecorded, env
    <2>5. CASE RPopFails(r)
      <3>1. InQueue(s)' => InQueue(s)
        BY <2>5, QueueShrinks DEF RPopFails, InQueue
      <3>2. QED
        BY <2>5, <2>f, <2>w, <2>c, <3>1, CountKept, ConfigAssumption
        DEF RPopFails, Goto, WorkerType, Even, LoopSteps, ProcessSteps
    <2>6. CASE GetPayload(r)
      BY <2>6, <2>f, <2>w, <2>c, CountKept, ConfigAssumption
      DEF GetPayload, Goto, Return, WorkerType, Even, InQueue, EvenSteps, LoopSteps, ProcessSteps, Counted, Unrecorded, env
    <2>7. CASE GetPayloadFails(r)
      BY <2>7, <2>f, <2>w, <2>c, CountKept, ConfigAssumption
      DEF GetPayloadFails, Goto, WorkerType, Even, InQueue, EvenSteps, LoopSteps, ProcessSteps, Counted, Unrecorded, env
    <2>8. CASE Requeue(r)
      <3>1. InQueue(s)' => InQueue(s) \/ cur[r] = s
        BY <2>8, <2>w, QueueAppend DEF Requeue, InQueue, ProcessSteps
      <3>2. QED
        BY <2>8, <2>f, <2>w, <2>c, <3>1, CountKept, ConfigAssumption
        DEF Requeue, Return, WorkerType, Even, EvenSteps
    <2>9. CASE MarkDelivering(r)
      BY <2>9, <2>f, <2>w, <2>c, CountKept, ConfigAssumption
      DEF MarkDelivering, Goto, WorkerType, Even, InQueue, EvenSteps, LoopSteps, ProcessSteps, Counted, Unrecorded, env
    <2>10. CASE Deliver(r)
      <3>1. CASE posts' = posts /\ Goto(r, "fail")
        BY <2>10, <2>f, <2>w, <2>c, <3>1, CountKept
        DEF Deliver, Goto, WorkerType, Even, InQueue, EvenSteps
      <3>2. CASE /\ posts' = [posts EXCEPT ![cur[r]] = @ + 1]
                 /\ Goto(r, "done") \/ Goto(r, "attempts")
        <4>t. posts \in [Sessions -> Nat] /\ attempts \in [Sessions -> 0..MaxAttempts]
          BY DEF TypeOK
        <4>1. CASE s = cur[r]
          <5>1. ~Even(s)'
            BY <2>10, <2>f, <2>w, <3>2, <4>1, OnlyHere DEF Deliver, Goto, WorkerType, EvenSteps
          <5>2. posts[s] = attempts[s] /\ posts'[s] = attempts'[s] + 1
            BY <2>10, <2>c, <3>2, <4>1, <4>t DEF Deliver, Counted, Even, EvenSteps
          <5>3. \A q \in Replicas : cur'[q] = s => pc'[q] # "schedule"
            BY <2>f, <2>w, <3>2, <4>1, OnlyMine DEF Goto, WorkerType
          <5>4. attempts' = attempts
            BY <2>10 DEF Deliver
          <5>5. QED
            BY <4>t, <5>1, <5>2, <5>3, <5>4, ConfigAssumption DEF Counted, Unrecorded
        <4>2. CASE s # cur[r]
          BY <2>10, <2>f, <2>w, <2>c, <3>2, <4>2, <4>t, CountKept
          DEF Deliver, Goto, WorkerType, Even, InQueue
        <4>3. QED
          BY <4>1, <4>2
      <3>3. QED
        BY <2>10, <3>1, <3>2 DEF Deliver
    <2>11. CASE MarkDelivered(r)
      BY <2>11, <2>f, <2>w, <2>c, CountKept, ConfigAssumption
      DEF MarkDelivered, Return, WorkerType, Even, InQueue, EvenSteps, LoopSteps, ProcessSteps, Counted, Unrecorded, env
    <2>12. CASE Terminal(r)
      BY <2>12, <2>f, <2>w, <2>c, CountKept, ConfigAssumption
      DEF Terminal, Return, WorkerType, Even, InQueue, EvenSteps, LoopSteps, ProcessSteps, Counted, Unrecorded, env
    <2>13. CASE ReadAttempts(r)
      <3>1. cur[r] = s => Unrecorded(r, s)'
        BY <2>13, <2>c, <2>f, <2>w DEF ReadAttempts, Fault, Counted, Unrecorded, Attempts, WorkerType, TypeOK, env
      <3>2. QED
        BY <2>13, <2>f, <2>w, <2>c, <3>1, CountKept
        DEF ReadAttempts, WorkerType, Even, InQueue, EvenSteps
    <2>14. CASE ScheduleRefused(r)
      BY <2>14, <2>f, <2>w, <2>c, CountKept, ConfigAssumption
      DEF ScheduleRefused, Goto, WorkerType, Even, InQueue, EvenSteps, LoopSteps, ProcessSteps, Counted, Unrecorded, env
    <2>15. CASE ScheduleSet(r)
      <3>t. posts \in [Sessions -> Nat] /\ attempts \in [Sessions -> 0..MaxAttempts]
        BY DEF TypeOK
      <3>1. CASE s = cur[r]
        <4>0. now \in Int /\ expiresAt[s] \in Int /\ now < expiresAt[s]
          BY <2>15, <3>1, ConfigAssumption DEF ScheduleSet, MayRetry, TypeOK
        <4>1. attempt[r] = attempts[s] /\ posts[s] = attempts[s] + 1
          BY <2>15, <2>c, <3>1, <4>0 DEF ScheduleSet, Counted, Unrecorded
        <4>2. attempts'[s] = posts[s] /\ posts' = posts
          BY <2>15, <3>t, <3>1, <4>1 DEF ScheduleSet, Recorded
        <4>3. \A q \in Replicas : cur'[q] = s => pc'[q] = "zadd"
          BY <2>15, <2>f, <2>w, <3>1, OnlyMine DEF ScheduleSet, WorkerType
        <4>4. QED
          BY <2>c, <4>2, <4>3 DEF Counted
      <3>2. CASE s # cur[r]
        BY <2>15, <2>f, <2>w, <2>c, <3>2, <3>t, CountKept
        DEF ScheduleSet, WorkerType, Even, InQueue
      <3>3. QED
        BY <3>1, <3>2
    <2>16. CASE ScheduleSetFails(r)
      <3>t. posts \in [Sessions -> Nat] /\ attempts \in [Sessions -> 0..MaxAttempts]
        BY DEF TypeOK
      <3>1. CASE s = cur[r]
        <4>1. ~Even(s)'
          BY <2>16, <2>f, <2>w, <3>1, OnlyHere DEF ScheduleSetFails, Goto, WorkerType, EvenSteps
        <4>2. \A q \in Replicas : cur'[q] = s => pc'[q] = "fail"
          BY <2>16, <2>f, <2>w, <3>1, OnlyMine DEF ScheduleSetFails, Goto, WorkerType
        <4>3. QED
          BY <2>16, <2>c, <4>1, <4>2 DEF Counted, ScheduleSetFails
      <3>2. CASE s # cur[r]
        BY <2>16, <2>f, <2>w, <2>c, <3>2, <3>t, CountKept
        DEF ScheduleSetFails, Goto, WorkerType, Even, InQueue
      <3>3. QED
        BY <3>1, <3>2
    <2>17. CASE ScheduleZAdd(r)
      BY <2>17, <2>f, <2>w, <2>c, CountKept, ConfigAssumption
      DEF ScheduleZAdd, Return, AddRetry, WorkerType, Even, InQueue, EvenSteps, LoopSteps, ProcessSteps, Counted, Unrecorded, env
    <2>18. CASE ScheduleZAddFails(r)
      <3>1. UNCHANGED <<retry, score>>
        BY <2>18 DEF ScheduleZAddFails, Fault
      <3>2. QED
        BY <2>18, <2>f, <2>w, <2>c, <3>1, CountKept
        DEF ScheduleZAddFails, Goto, WorkerType, Even, InQueue, EvenSteps
    <2>19. CASE DueRange(r)
      BY <2>19, <2>f, <2>w, <2>c, CountKept, ConfigAssumption
      DEF DueRange, WorkerType, Even, InQueue, EvenSteps, LoopSteps, ProcessSteps, Counted, Unrecorded, env
    <2>20. CASE DueRangeFails(r)
      BY <2>20, <2>f, <2>w, <2>c, CountKept, ConfigAssumption
      DEF DueRangeFails, Reset, WorkerType, Even, InQueue, EvenSteps, LoopSteps, ProcessSteps, Counted, Unrecorded, env
    <2>21. CASE DueClaim(r)
      <3>1. (s \in retry' => s \in retry) /\ (s \in claimed'[r] => s \in claimed[r] \cup retry)
        BY <2>21, <2>w DEF DueClaim, RemoveRetry, Won, WorkerType
      <3>2. QED
        BY <2>21, <2>f, <2>w, <2>c, <3>1, CountKept
        DEF DueClaim, WorkerType, Even, InQueue, Counted, Unrecorded, env
    <2>22. CASE DueClaimFails(r)
      BY <2>22, <2>f, <2>w, <2>c, CountKept, ConfigAssumption
      DEF DueClaimFails, Reset, RemoveRetry, WorkerType, Even, InQueue, EvenSteps, LoopSteps, ProcessSteps, Counted, Unrecorded, env
    <2>23. CASE DueClaimed(r)
      BY <2>23, <2>f, <2>w, <2>c, CountKept, ConfigAssumption
      DEF DueClaimed, Goto, WorkerType, Even, InQueue, EvenSteps, LoopSteps, ProcessSteps, Counted, Unrecorded, env
    <2>24. CASE ProcessDue(r)
      BY <2>24, <2>f, <2>w, <2>c, CountKept, ConfigAssumption
      DEF ProcessDue, Process, WorkerType, Even, InQueue, EvenSteps, LoopSteps, ProcessSteps, Counted, Unrecorded, env
    <2>25. CASE EndCycle(r)
      BY <2>25, <2>f, <2>w, <2>c, CountKept, ConfigAssumption
      DEF EndCycle, Reset, WorkerType, Even, InQueue, EvenSteps, LoopSteps, ProcessSteps, Counted, Unrecorded, env
    <2>26. QED
      BY <1>3, <2>2, <2>3, <2>4, <2>5, <2>6, <2>7, <2>8, <2>9, <2>10, <2>11, <2>12, <2>13, <2>14, <2>15, <2>16, <2>17, <2>18, <2>19, <2>20, <2>21, <2>22, <2>23, <2>24, <2>25 DEF Work
  <1>4. ASSUME NEW r \in Replicas, Crash(r) PROVE CountInv'
    <2>1. ASSUME NEW s \in Sessions PROVE Counted(s)'
      BY <1>4, WorkFrame, CountKept, ConfigAssumption
      DEF Crash, Reset, TypeOK, WorkerType, CountInv, Even, InQueue
    <2>2. QED
      BY <2>1 DEF CountInv
  <1>5. CASE UNCHANGED vars
    BY <1>5 DEF vars, env, CountInv, Counted, Even, Unrecorded, InQueue
  <1>6. QED
    BY <1>1, <1>2, <1>3, <1>4, <1>5 DEF Next

LEMMA CountAlways ==
  ASSUME Faults \cap {"attempts", "zaddAck"} = {}
  PROVE  Spec => [](TypeOK /\ OwnInv /\ HandInv /\ CountInv)
  <1>1. Init => TypeOK /\ OwnInv /\ HandInv /\ CountInv
    BY TypeInit, OwnInit, HandInit, CountInit
  <1>2. TypeOK /\ OwnInv /\ HandInv /\ CountInv /\ [Next]_vars
          => TypeOK' /\ OwnInv' /\ HandInv' /\ CountInv'
    BY TypeNext, OwnNext, HandNext, CountNext
  <1>3. QED
    BY <1>1, <1>2, PTL DEF Spec

\* The client is sent a session's payload at most MaxAttempts + 1 times, by all
\* replicas together, when the counter is never misread and a ZADD reported as
\* failed did not happen.
THEOREM SendsBounded ==
  ASSUME Faults \cap {"attempts", "zaddAck"} = {}
  PROVE  Spec => []PostsBounded
  <1>1. CountInv => PostsBounded
    BY DEF CountInv, Counted, PostsBounded
  <1>2. QED
    BY <1>1, CountAlways, PTL

\* Under the same conditions the persisted counter of a session that waits for
\* its next attempt equals the sends made so far, so the replica that takes it
\* up continues the back-off where the last one left it.
THEOREM CounterExact ==
  ASSUME Faults \cap {"attempts", "zaddAck"} = {}
  PROVE  Spec => []AttemptCounterExact
  <1>1. CountInv => AttemptCounterExact
    BY DEF CountInv, Counted, Even, AttemptCounterExact
  <1>2. QED
    BY <1>1, CountAlways, PTL

-----------------------------------------------------------------------------
(* The back-off *)

\* base << a is a Duration: it does not wrap.
Fits(a) == a < Width /\ Base * 2^a < 2^(Width - 1)

\* The configured durations leave one bit of room: the retry base is a
\* positive Duration, and twice the result TTL is one.  In the code a Duration
\* has 64 bits and counts nanoseconds, so the TTL may be 146 years.
DurationsFit == Base < 2^(Width - 1) /\ 2 * ResultTTL < 2^(Width - 1)

LEMMA FitsFirst == ASSUME DurationsFit PROVE Fits(0)
  BY PowerAssumption, ConfigAssumption DEF Fits, DurationsFit

LEMMA DelayFits ==
  ASSUME NEW a \in Nat, Fits(a)
  PROVE  Delay(a) = Base * 2^a /\ Delay(a) \in Nat \ {0}
  <1>1. 2^a \in Nat \ {0} /\ a < Width /\ Base * 2^a < 2^(Width - 1)
    BY PowerAssumption, ConfigAssumption DEF Fits
  <1>2. 2^a <= Base * 2^a /\ Base * 2^a \in Nat \ {0}
    BY <1>1, ConfigAssumption
  <1>3. Wrap(2^a) = 2^a /\ Wrap(Base * 2^a) = Base * 2^a
    BY <1>1, <1>2, WrapId, HalfWidth
  <1>4. QED
    BY <1>1, <1>2, <1>3 DEF Delay

\* A delay that ends inside the TTL may be doubled once more.
LEMMA FitsNext ==
  ASSUME NEW a \in Nat, Fits(a), Delay(a) <= ResultTTL, DurationsFit
  PROVE  Fits(a + 1)
  <1>1. Delay(a) = Base * 2^a /\ a \in 0..Width /\ 2^a \in Nat \ {0}
    BY DelayFits, PowerAssumption, ConfigAssumption DEF Fits
  <1>2. 2^(a + 1) = 2 * 2^a
    BY <1>1, PowerAssumption
  <1>3. /\ Base * 2^a \in Nat /\ 2^a <= Base * 2^a
        /\ Base * (2 * 2^a) = 2 * (Base * 2^a)
    BY <1>1, ConfigAssumption
  <1>4. Base * 2^(a + 1) < 2^(Width - 1)
    BY <1>1, <1>2, <1>3, HalfWidth, ConfigAssumption DEF DurationsFit
  <1>5. a # Width - 1
    <2>1. SUFFICES ASSUME a = Width - 1 PROVE FALSE
      OBVIOUS
    <2>2. 2^a = 2^(Width - 1)
      BY <2>1
    <2>3. QED
      BY <2>2, <1>1, <1>3, HalfWidth, ConfigAssumption DEF DurationsFit
  <1>6. QED
    BY <1>4, <1>5, ConfigAssumption DEF Fits

\* The counters that may be raised to an exponent, and the time left to a
\* payload.
BackInv ==
    /\ \A s \in Sessions : /\ Fits(attempts[s])
                           /\ kind[s] # "none" => expiresAt[s] <= now + ResultTTL
    /\ \A r \in Replicas : Fits(attempt[r])

\* The only ways a replica changes the counters.
LEMMA CounterSteps ==
  ASSUME TypeOK, NEW r \in Replicas, Work(r) \/ Crash(r)
  PROVE  /\ \/ attempts' = attempts
            \/ /\ pc[r] = "schedule" /\ MayRetry(r)
               /\ attempts' = [attempts EXCEPT ![cur[r]] = Recorded(r)]
         /\ \/ attempt' \in {attempt, [attempt EXCEPT ![r] = 0]}
            \/ /\ pc[r] = "attempts"
               /\ attempt' = [attempt EXCEPT ![r] = attempts[cur[r]]]
  BY DEF Work, Crash, StartCycle, RPop, RPopEmpty, RPopFails, GetPayload, GetPayloadFails, Requeue, MarkDelivering, Deliver, MarkDelivered, Terminal, ReadAttempts, ScheduleRefused, ScheduleSet, ScheduleSetFails, ScheduleZAdd, ScheduleZAddFails, DueRange, DueRangeFails, DueClaim, DueClaimFails, DueClaimed, ProcessDue, EndCycle, Goto, Return, Reset, Process, Attempts, store, worker

LEMMA BackInit == DurationsFit /\ Init => BackInv
  BY FitsFirst DEF Init, BackInv

LEMMA BackNext ==
  ASSUME DurationsFit, TypeOK, HandInv, BackInv, [Next]_vars
  PROVE  BackInv'
  <1>1. CASE Clock
    BY <1>1, ConfigAssumption DEF Clock, BackInv, TypeOK, store, worker
  <1>2. ASSUME NEW s \in Sessions, Handoff(s) PROVE BackInv'
    <2>1. /\ expiresAt \in [Sessions -> 0..MaxTime] /\ DOMAIN kind = Sessions
      BY DEF TypeOK
    <2>2. \A t \in Sessions :
             kind'[t] # "none" =>
                \/ expiresAt'[t] = now + ResultTTL
                \/ kind[t] # "none" /\ expiresAt'[t] = expiresAt[t]
      BY <1>2, <2>1 DEF Handoff
    <2>3. UNCHANGED <<attempts, attempt, now>> /\ now \in Int
      BY <1>2, ConfigAssumption DEF Handoff, TypeOK, store, worker
    <2>4. QED
      BY <2>2, <2>3, ConfigAssumption DEF BackInv, Fits
  <1>3. ASSUME NEW r \in Replicas, Work(r) \/ Crash(r) PROVE BackInv'
    <2>f. UNCHANGED env /\ WorkerType
      BY <1>3, WorkFrame DEF TypeOK
    <2>1. ASSUME pc[r] = "schedule", MayRetry(r) PROVE Fits(Recorded(r))
      <3>1. /\ cur[r] \in Sessions /\ kind[cur[r]] = "ok"
            /\ attempt[r] \in 0..MaxAttempts
        BY <2>1, <2>f, InHand DEF HandInv, Carries, WorkerType, ProcessSteps
      <3>2. /\ expiresAt[cur[r]] <= now + ResultTTL
            /\ now + Delay(attempt[r]) <= expiresAt[cur[r]]
            /\ Fits(attempt[r])
        BY <2>1, <3>1 DEF BackInv, MayRetry, NextAttempt
      <3>3. Delay(attempt[r]) \in Int /\ now \in Int /\ expiresAt[cur[r]] \in Int
        <4>1. attempt[r] \in Nat /\ now \in Int
          BY <3>1, ConfigAssumption DEF TypeOK
        <4>2. expiresAt[cur[r]] \in Int
          BY <3>1, ConfigAssumption DEF TypeOK
        <4>3. QED
          BY <4>1, <4>2, DelayType
      <3>4. Delay(attempt[r]) <= ResultTTL
        BY <3>2, <3>3, ConfigAssumption
      <3>5. QED
        BY <3>1, <3>2, <3>4, FitsNext, ConfigAssumption DEF Recorded
    <2>2. ASSUME NEW s \in Sessions PROVE Fits(attempts[s])'
      <3>1. attempts \in [Sessions -> 0..MaxAttempts]
        BY DEF TypeOK
      <3>2. attempts'[s] = attempts[s] \/ Fits(attempts'[s])
        BY <1>3, <2>1, <3>1, CounterSteps
      <3>3. QED
        BY <3>2 DEF BackInv, Fits
    <2>3. ASSUME NEW q \in Replicas PROVE Fits(attempt[q])'
      <3>1. pc[r] = "attempts" => cur[r] \in Sessions
        BY <2>f, InHand DEF ProcessSteps
      <3>2. attempt'[q] \in {attempt[q], 0} \cup {attempts[s] : s \in Sessions}
        BY <1>3, <2>f, <3>1, CounterSteps DEF WorkerType
      <3>3. QED
        BY <3>2, FitsFirst DEF BackInv, Fits
    <2>4. QED
      BY <2>2, <2>3, <2>f DEF BackInv, env
  <1>4. CASE UNCHANGED vars
    BY <1>4 DEF vars, env, store, worker, BackInv
  <1>5. QED
    BY <1>1, <1>2, <1>3, <1>4 DEF Next

LEMMA BackAlways ==
  ASSUME DurationsFit PROVE Spec => [](TypeOK /\ HandInv /\ BackInv)
  <1>1. Init => BackInv
    BY BackInit
  <1>2. TypeOK /\ HandInv /\ BackInv /\ [Next]_vars => BackInv'
    BY BackNext
  <1>3. QED
    BY <1>1, <1>2, TypeInit, TypeNext, HandInit, HandNext, PTL DEF Spec

\* Schedule's base << attempt never overflows a Duration, although nothing but
\* the TTL bounds the configured number of attempts, and whatever calls fail.
THEOREM NoWrap ==
  ASSUME DurationsFit PROVE Spec => []BackoffNeverWraps
  <1>1. TypeOK /\ BackInv => BackoffNeverWraps
    BY DelayFits, ConfigAssumption DEF TypeOK, WorkerType, BackInv, BackoffNeverWraps
  <1>2. QED
    BY <1>1, BackAlways, PTL
=============================================================================
