--------------------------- MODULE Service_proofs ---------------------------
(***************************************************************************)
(* Theorems about Service: what SessionLifecycle_proofs and                *)
(* WebhookDelivery_proofs prove of each part holds of both together, with  *)
(* processes that end, and the whole implements ClientView.                *)
(***************************************************************************)
EXTENDS Service, TLAPS

Rows == INSTANCE SessionLifecycle_proofs
            WITH Sweepers <- Replicas, Faults <- RowFaults

Delivery == INSTANCE WebhookDelivery_proofs
            WITH expiresAt <- until, Faults <- DeliveryFaults

-----------------------------------------------------------------------------
(* The theorems of the parts are stated for their own modules, which extend *)
(* the ones Service is made of: the definitions are the same.               *)

LEMMA SameCore ==
  /\ L!Init <=> Rows!Init
  /\ \A s \in Sessions :
        /\ L!Create(s) <=> Rows!Create(s)
        /\ L!Engage(s) <=> Rows!Engage(s)
        /\ L!SaveReport(s) <=> Rows!SaveReport(s)
        /\ L!Complete(s) <=> Rows!Complete(s)
        /\ L!HandOff(s) <=> Rows!HandOff(s)
  BY
  DEF L!row, L!valkey, L!sweeper, L!Idle, L!Init, L!Create, L!Engage,
      L!SaveReport, L!Complete, L!HandOff, Rows!row, Rows!valkey, Rows!sweeper,
      Rows!Idle, Rows!Init, Rows!Create, Rows!Engage, Rows!SaveReport,
      Rows!Complete, Rows!HandOff

LEMMA SameRequests ==
  \A q \in Requests : /\ L!Poll(q) <=> Rows!Poll(q)
                      /\ L!CancelRequest(q) <=> Rows!CancelRequest(q)
                      /\ L!Handle(q) <=> Rows!Handle(q)
  BY
  DEF L!Open, L!Terminal, L!row, L!valkey, L!sweeper, L!Idle, L!Fault, L!IsDue,
      L!Status, L!Write, L!Visible, L!Arrive, L!Poll, L!CancelRequest, L!Answer,
      L!Advance, L!NotFound, L!GetForClient, L!Redeems, L!GetReport, L!GetDel,
      L!GetDelFails, L!Redeem, L!MarkCodeRedeemed, L!ProcedureFails,
      L!ReplyLost, L!Releasable, L!Respond, L!FetchFails, L!Cancel,
      L!DeleteEngineSession, L!Handle, Rows!Open, Rows!Terminal, Rows!row,
      Rows!valkey, Rows!sweeper, Rows!Idle, Rows!Fault, Rows!IsDue, Rows!Status,
      Rows!Write, Rows!Visible, Rows!Arrive, Rows!Poll, Rows!CancelRequest,
      Rows!Answer, Rows!Advance, Rows!NotFound, Rows!GetForClient, Rows!Redeems,
      Rows!GetReport, Rows!GetDel, Rows!GetDelFails, Rows!Redeem,
      Rows!MarkCodeRedeemed, Rows!ProcedureFails, Rows!ReplyLost,
      Rows!Releasable, Rows!Respond, Rows!FetchFails, Rows!Cancel,
      Rows!DeleteEngineSession, Rows!Handle

LEMMA SameSweepers ==
  \A w \in Replicas : /\ L!Sweep(w) <=> Rows!Sweep(w)
                      /\ L!SweeperCrash(w) <=> Rows!SweeperCrash(w)
  <1>1. \A s : L!IsDue(s) <=> Rows!IsDue(s)
    BY DEF L!IsDue, Rows!IsDue, L!Open, Rows!Open
  <1>2. PICK overdue : overdue = {s \in Sessions : L!IsDue(s)}
    OBVIOUS
  <1>3. overdue = {s \in Sessions : Rows!IsDue(s)}
    BY <1>1, <1>2
  <1>4. L!BatchSize = Rows!BatchSize
    BY <1>2, <1>3
    DEF L!BatchSize, L!Min, L!Cardinality, Rows!BatchSize, Rows!Min, Rows!Cardinality
  <1>5. \A k : L!kSubset(k, overdue) = Rows!kSubset(k, overdue)
    BY DEF L!kSubset, L!Cardinality, Rows!kSubset, Rows!Cardinality
  <1>6. \A d : L!Expire(d) <=> Rows!Expire(d)
    BY <1>2, <1>3 DEF L!Expire, Rows!Expire
  <1>7. L!kSubset(L!BatchSize, {s \in Sessions : L!IsDue(s)})
          = Rows!kSubset(Rows!BatchSize, {s \in Sessions : Rows!IsDue(s)})
    BY <1>2, <1>3, <1>4, <1>5
  <1>8. \A w \in Replicas : L!ExpireDue(w) <=> Rows!ExpireDue(w)
    BY <1>6, <1>7 DEF L!ExpireDue, L!row, L!valkey, Rows!ExpireDue, Rows!row, Rows!valkey
  <1>9. \A w \in Replicas : L!ExpireDueFails(w) <=> Rows!ExpireDueFails(w)
    BY <1>6, <1>7
    DEF L!ExpireDueFails, L!Fault, L!row, L!valkey, L!sweeper,
        Rows!ExpireDueFails, Rows!Fault, Rows!row, Rows!valkey, Rows!sweeper
  <1>10. \A w \in Replicas : /\ L!Notify(w) <=> Rows!Notify(w)
                             /\ L!SweeperCrash(w) <=> Rows!SweeperCrash(w)
    BY
    DEF L!Notify, L!SweeperCrash, L!Fault, L!row, L!valkey, L!sweeper,
        Rows!Notify, Rows!SweeperCrash, Rows!Fault, Rows!row, Rows!valkey, Rows!sweeper
  <1>11. QED
    BY <1>8, <1>9, <1>10 DEF L!Sweep, Rows!Sweep

LEMMA SameDelivery ==
  /\ D!Init <=> Delivery!Init
  /\ D!Next <=> Delivery!Next
  /\ D!vars = Delivery!vars
  BY
  DEF D!Init, D!store, D!worker, D!tally, D!env, D!vars, D!Unix, D!Wrap,
      D!Delay, D!Present, D!Attempts, D!Fault, D!Goto, D!Process, D!Return,
      D!Reset, D!Clock, D!Handoff, D!StartCycle, D!RPop, D!RPopEmpty,
      D!RPopFails, D!GetPayload, D!GetPayloadFails, D!Requeue,
      D!SetWebhookState, D!MarkDelivering, D!Deliver, D!MarkDelivered,
      D!Terminal, D!ReadAttempts, D!NextAttempt, D!MayRetry, D!ScheduleRefused,
      D!Recorded, D!ScheduleSet, D!ScheduleSetFails, D!AddRetry, D!ScheduleZAdd,
      D!ScheduleZAddFails, D!DueRange, D!DueRangeFails, D!Won, D!RemoveRetry,
      D!DueClaim, D!DueClaimFails, D!DueClaimed, D!ProcessDue, D!EndCycle,
      D!Crash, D!Work, D!Next, Delivery!Init, Delivery!store, Delivery!worker,
      Delivery!tally, Delivery!env, Delivery!vars, Delivery!Unix, Delivery!Wrap,
      Delivery!Delay, Delivery!Present, Delivery!Attempts, Delivery!Fault,
      Delivery!Goto, Delivery!Process, Delivery!Return, Delivery!Reset,
      Delivery!Clock, Delivery!Handoff, Delivery!StartCycle, Delivery!RPop,
      Delivery!RPopEmpty, Delivery!RPopFails, Delivery!GetPayload,
      Delivery!GetPayloadFails, Delivery!Requeue, Delivery!SetWebhookState,
      Delivery!MarkDelivering, Delivery!Deliver, Delivery!MarkDelivered,
      Delivery!Terminal, Delivery!ReadAttempts, Delivery!NextAttempt,
      Delivery!MayRetry, Delivery!ScheduleRefused, Delivery!Recorded,
      Delivery!ScheduleSet, Delivery!ScheduleSetFails, Delivery!AddRetry,
      Delivery!ScheduleZAdd, Delivery!ScheduleZAddFails, Delivery!DueRange,
      Delivery!DueRangeFails, Delivery!Won, Delivery!RemoveRetry,
      Delivery!DueClaim, Delivery!DueClaimFails, Delivery!DueClaimed,
      Delivery!ProcessDue, Delivery!EndCycle, Delivery!Crash, Delivery!Work,
      Delivery!Next

-----------------------------------------------------------------------------
(* What each kind of step is to the parts *)

\* A step of rows, requests or sweepers.
LEMMA RowStepIs ==
  ASSUME RowStep
  PROVE  /\ UNCHANGED <<deliveryVars, result, now>>
         /\ \/ \E s \in Sessions : \/ Rows!Create(s) \/ Rows!Engage(s)
                                   \/ Rows!SaveReport(s) \/ Rows!Complete(s)
            \/ \E q \in Requests : Rows!Poll(q) \/ Rows!CancelRequest(q) \/ Rows!Handle(q)
            \/ \E w \in Replicas : Rows!Sweep(w)
  <1>1. UNCHANGED <<deliveryVars, result>>
    BY DEF RowStep
  <1>2. \/ \E s \in Sessions : \/ Rows!Create(s) \/ Rows!Engage(s)
                               \/ Rows!SaveReport(s) \/ Rows!Complete(s)
        \/ \E q \in Requests : Rows!Poll(q) \/ Rows!CancelRequest(q) \/ Rows!Handle(q)
        \/ \E w \in Replicas : Rows!Sweep(w)
    BY SameCore, SameRequests, SameSweepers DEF RowStep
  <1>3. now' = now
    <2>1. CASE \E s \in Sessions : \/ Rows!Create(s) \/ Rows!Engage(s)
                                   \/ Rows!SaveReport(s) \/ Rows!Complete(s)
      BY <2>1 DEF Rows!Create, Rows!Engage, Rows!SaveReport, Rows!Complete
    <2>2. CASE \E q \in Requests : Rows!Poll(q) \/ Rows!CancelRequest(q)
      BY <2>2 DEF Rows!Poll, Rows!CancelRequest, Rows!Arrive
    <2>3. CASE \E q \in Requests : Rows!Handle(q)
      BY <2>3
      DEF Rows!Handle, Rows!NotFound, Rows!GetForClient, Rows!GetReport, Rows!GetDel,
          Rows!GetDelFails, Rows!MarkCodeRedeemed, Rows!ProcedureFails,
          Rows!ReplyLost, Rows!Respond, Rows!FetchFails, Rows!Cancel,
          Rows!DeleteEngineSession
    <2>4. CASE \E w \in Replicas : Rows!Sweep(w)
      BY <2>4
      DEF Rows!Sweep, Rows!ExpireDue, Rows!ExpireDueFails, Rows!Notify
    <2>5. QED
      BY <1>2, <2>1, <2>2, <2>3, <2>4
  <1>4. QED
    BY <1>1, <1>2, <1>3

LEMMA RowStepMoves ==
  ASSUME Rows!Inv, RowStep PROVE Rows!Inv'
  <1>1. Rows!Next
    BY RowStepIs DEF Rows!Next, Rows!Core
  <1>2. QED
    BY <1>1, Rows!InvNext, ServiceAssumption
    DEF L!AllFaults, Rows!AllFaults, IsFiniteSet, Rows!IsFiniteSet

\* What the rows see of the other steps.
LEMMA RowsAside ==
  ASSUME Rows!Inv, now' \in 0..MaxTime, faults' \in 0..MaxFaults, UNCHANGED rowVars,
         batch' = batch \/ \E w \in Replicas : batch' = [batch EXCEPT ![w] = {}]
  PROVE  Rows!Inv'
  <1>1. /\ payload \in [Sessions -> {"none", "live", "gone"}]
        /\ code \in [Sessions -> BOOLEAN]
    BY DEF Rows!Inv, Rows!TypeOK
  <1>2. QED
    BY <1>1, Rows!Outside, ServiceAssumption
    DEF rowVars, L!AllFaults, Rows!AllFaults, IsFiniteSet, Rows!IsFiniteSet

\* Time passes for both parts: the rows see payloads and codes end.
LEMMA TickIs ==
  ASSUME Rows!Inv, Tick
  PROVE  /\ Rows!Inv'
         /\ Delivery!Next
         /\ UNCHANGED <<status, req, notices, kind, posts, result>>
         /\ \A s \in Sessions : payload'[s] = "none" <=> payload[s] = "none"
  <1>t. /\ payload \in [Sessions -> {"none", "live", "gone"}]
        /\ code \in [Sessions -> BOOLEAN] /\ now \in 0..MaxTime
        /\ faults \in 0..MaxFaults
    BY DEF Rows!Inv, Rows!TypeOK
  <1> DEFINE Ended(s) == payload[s] = "live" /\ until[s] <= now'
  <1>1. /\ now < MaxTime /\ now' = now + 1
        /\ payload' = [s \in Sessions |-> IF Ended(s) THEN "gone" ELSE payload[s]]
        /\ code' = [s \in Sessions |-> code[s] /\ ~Ended(s)]
        /\ UNCHANGED <<faults, status, owner, flow, webhook, expiresAt, report,
                       redeemed, req, notices, accepted, batch, deliveryVars, result>>
    BY DEF Tick
  <1>2. now' \in 0..MaxTime
    BY <1>t, <1>1, ServiceAssumption
  <1>3. \A s \in Sessions :
           \/ payload'[s] = payload[s] /\ code'[s] = code[s]
           \/ payload[s] = "live" /\ payload'[s] = "gone" /\ ~code'[s]
    BY <1>t, <1>1
  <1>4. /\ payload' \in [Sessions -> {"none", "live", "gone"}]
        /\ code' \in [Sessions -> BOOLEAN]
    BY <1>t, <1>1
  <1> HIDE DEF Ended
  <1>5. Rows!Inv'
    BY <1>t, <1>1, <1>2, <1>3, <1>4, Rows!Outside, ServiceAssumption
    DEF L!AllFaults, Rows!AllFaults, IsFiniteSet, Rows!IsFiniteSet
  <1>6. Delivery!Next
    BY <1>1
    DEF deliveryVars, Delivery!Next, Delivery!Clock, Delivery!store, Delivery!worker,
        Delivery!tally
  <1>7. QED
    BY <1>1, <1>3, <1>5, <1>6 DEF deliveryVars

LEMMA DeliveryTypeNext ==
  ASSUME Delivery!TypeOK, Delivery!Next PROVE Delivery!TypeOK'
  BY Delivery!TypeNext, ServiceAssumption
  DEF D!AllKinds, Delivery!AllKinds, D!AllFaults, Delivery!AllFaults

\* A step of a consumer spends of the failures, and time stands still.
LEMMA WorkIs ==
  ASSUME Delivery!TypeOK, NEW r \in Replicas, D!Work(r) \/ D!Crash(r)
  PROVE  /\ Delivery!Next
         /\ faults' \in 0..MaxFaults
         /\ UNCHANGED <<now, kind>>
         /\ \/ posts' = posts
            \/ \E s \in Sessions : /\ kind[s] = "ok"
                                   /\ posts' = [posts EXCEPT ![s] = @ + 1]
  <1>1. D!Next
    BY DEF D!Next
  <1>2. Delivery!Next
    BY <1>1, SameDelivery
  <1>3. faults' \in 0..MaxFaults
    BY <1>2, DeliveryTypeNext DEF Delivery!TypeOK
  <1>4. UNCHANGED <<now, kind>>
    BY DEF D!env, D!Work, D!StartCycle, D!RPop, D!RPopEmpty, D!RPopFails,
       D!GetPayload, D!GetPayloadFails, D!Requeue, D!MarkDelivering, D!Deliver,
       D!MarkDelivered, D!Terminal, D!ReadAttempts, D!ScheduleRefused, D!ScheduleSet,
       D!ScheduleSetFails, D!ScheduleZAdd, D!ScheduleZAddFails, D!DueRange,
       D!DueRangeFails, D!DueClaim, D!DueClaimFails, D!DueClaimed, D!ProcessDue,
       D!EndCycle, D!Crash
  <1>5. posts' = posts \/ D!Deliver(r)
    BY DEF D!tally, D!Work, D!StartCycle, D!RPop, D!RPopEmpty, D!RPopFails,
       D!GetPayload, D!GetPayloadFails, D!Requeue, D!MarkDelivering,
       D!MarkDelivered, D!Terminal, D!ReadAttempts, D!ScheduleRefused, D!ScheduleSet,
       D!ScheduleSetFails, D!ScheduleZAdd, D!ScheduleZAddFails, D!DueRange,
       D!DueRangeFails, D!DueClaim, D!DueClaimFails, D!DueClaimed, D!ProcessDue,
       D!EndCycle, D!Crash
  <1>6. \/ posts' = posts
        \/ \E s \in Sessions : /\ kind[s] = "ok"
                               /\ posts' = [posts EXCEPT ![s] = @ + 1]
    <2>1. posts \in [Sessions -> Nat]
      BY DEF Delivery!TypeOK
    <2>2. CASE /\ kind[cur[r]] = "ok"
               /\ posts' = [posts EXCEPT ![cur[r]] = @ + 1]
      <3>1. CASE cur[r] \in Sessions
        BY <2>2, <3>1
      <3>2. CASE cur[r] \notin Sessions
        BY <2>1, <2>2, <3>2
      <3>3. QED
        BY <3>1, <3>2
    <2>3. QED
      BY <1>5, <2>2 DEF D!Deliver
  <1>7. QED
    BY <1>2, <1>3, <1>4, <1>6

LEMMA DeliveryStepIs ==
  ASSUME Rows!Inv, Delivery!TypeOK, DeliveryStep
  PROVE  Rows!Inv' /\ Delivery!Next
  <1>1. PICK r \in Replicas : D!Work(r)
    BY DEF DeliveryStep
  <1>2. UNCHANGED <<rowVars, batch>>
    BY DEF DeliveryStep
  <1>3. /\ Delivery!Next /\ faults' \in 0..MaxFaults /\ now' = now
    BY <1>1, WorkIs
  <1>4. now' \in 0..MaxTime
    BY <1>3 DEF Rows!Inv, Rows!TypeOK
  <1>5. QED
    BY <1>2, <1>3, <1>4, RowsAside

LEMMA HandOffIs ==
  ASSUME Rows!Inv, NEW s \in Sessions, HandOff(s)
  PROVE  Rows!Inv' /\ Delivery!Next /\ Rows!HandOff(s)
  <1>1. Rows!HandOff(s) /\ D!Handoff(s)
    BY SameCore DEF HandOff
  <1>2. Rows!Next
    BY <1>1 DEF Rows!Next, Rows!Core
  <1>3. Rows!Inv'
    BY <1>2, Rows!InvNext, ServiceAssumption
    DEF L!AllFaults, Rows!AllFaults, IsFiniteSet, Rows!IsFiniteSet
  <1>4. Delivery!Next
    BY <1>1, SameDelivery DEF D!Next
  <1>5. QED
    BY <1>1, <1>3, <1>4

\* A process that ends takes a consumer and a sweeper with it, or a sweeper alone.
LEMMA ProcessEndsIs ==
  ASSUME Rows!Inv, Delivery!TypeOK, NEW r \in Replicas, ProcessEnds(r)
  PROVE  /\ Rows!Inv' /\ UNCHANGED <<now, status, req, notices, payload, kind, posts,
                                     result>>
         /\ Delivery!Next \/ UNCHANGED deliveryVars
  <1>1. CASE /\ D!Crash(r) /\ batch' = [batch EXCEPT ![r] = {}]
             /\ UNCHANGED <<rowVars, result>>
    <2>1. /\ Delivery!Next /\ faults' \in 0..MaxFaults /\ UNCHANGED <<now, kind>>
      BY <1>1, WorkIs
    <2>2. posts' = posts
      BY <1>1 DEF D!Crash, D!tally
    <2>3. now' \in 0..MaxTime
      BY <2>1 DEF Rows!Inv, Rows!TypeOK
    <2>4. QED
      BY <1>1, <2>1, <2>2, <2>3, RowsAside DEF rowVars
  <1>2. CASE Rows!SweeperCrash(r) /\ UNCHANGED <<deliveryVars, result>>
    <2>1. Rows!Next
      BY <1>2 DEF Rows!Next
    <2>2. Rows!Inv'
      BY <2>1, Rows!InvNext, ServiceAssumption
      DEF L!AllFaults, Rows!AllFaults, IsFiniteSet, Rows!IsFiniteSet
    <2>3. QED
      BY <1>2, <2>2
      DEF Rows!SweeperCrash, Rows!row, Rows!valkey, deliveryVars
  <1>3. QED
    BY <1>1, <1>2, SameSweepers DEF ProcessEnds

-----------------------------------------------------------------------------
(* What clients hear is so *)

\* The two parts agree on what was handed off.
Linked(s) ==
    /\ kind[s] = "none" <=> payload[s] = "none"
    /\ kind[s] # "none" => result[s] = status[s]
    /\ posts[s] > 0 => kind[s] # "none"

Heeded == \A q \in Requests : Rows!Reads(req[q])

\* Each end a client hears of is the one on the row.
Truthful(s) == \A end \in Heard(s) : end = status[s] /\ end \in L!Terminal

ServiceInv ==
    /\ Rows!Inv /\ Delivery!TypeOK /\ Heeded
    /\ \A s \in Sessions : Linked(s)
    /\ result \in [Sessions -> Rows!States \cup {None}]

ToldInv ==
    /\ told \in [Sessions -> SUBSET L!Terminal]
    /\ \A s \in Sessions : Heard(s) \subseteq told[s]

\* What the client of a session hears is the end on the row.
LEMMA HeardIsTrue ==
  ServiceInv => \A s \in Sessions : Truthful(s)
  <1> SUFFICES ASSUME ServiceInv, NEW s \in Sessions PROVE Truthful(s)
    OBVIOUS
  <1>1. /\ Linked(s) /\ (notices[s] > 0 => status[s] = "expired")
        /\ payload[s] # "none" => status[s] \in Rows!Outcomes
    BY DEF ServiceInv, Rows!Inv, Rows!RowOK
  <1>2. SUFFICES ASSUME NEW end \in Heard(s) PROVE end = status[s]
    BY DEF Truthful, Heard
  <1>3. end \in L!Terminal
    BY DEF Heard
  <1>4. ASSUME NEW q \in Requests, req[q].sid = s,
               \/ req[q].http = 200 /\ req[q].status = end
               \/ req[q].http = 204 /\ end = "cancelled"
        PROVE  end = status[s]
    BY <1>3, <1>4 DEF ServiceInv, Heeded, Rows!Reads, Rows!Terminal, L!Terminal
  <1>5. CASE posts[s] > 0 /\ result[s] = end
    BY <1>1, <1>5 DEF Linked
  <1>6. CASE notices[s] > 0 /\ end = "expired"
    BY <1>1, <1>6
  <1>7. QED
    BY <1>4, <1>5, <1>6 DEF Heard

\* A step that brings news to the client of t alone.
NewsFor(t) ==
    /\ UNCHANGED status
    /\ \A s \in Sessions \ {t} : Heard(s)' \subseteq Heard(s)

\* A step that moves sessions and brings no news.
Moving ==
    /\ \A s \in Sessions : Heard(s)' \subseteq Heard(s)
    /\ \/ \E s \in Sessions : /\ status[s] = "absent"
                              /\ status' = [status EXCEPT ![s] = "pending"]
       \/ \E s \in Sessions : /\ status[s] \in L!Open
                              /\ status' = [status EXCEPT ![s] = "wallet_engaged"]
       \/ \E ended \in SUBSET Sessions, end \in L!Terminal :
              /\ \A s \in ended : status[s] \in L!Open
              /\ status' = [s \in Sessions |-> IF s \in ended THEN end ELSE status[s]]

\* One session ends and nobody hears of it yet.
LEMMA OneEnds ==
  ASSUME status = [t \in Sessions |-> status[t]],
         \A t \in Sessions : Heard(t)' \subseteq Heard(t),
         NEW s \in Sessions, NEW end \in L!Terminal,
         status[s] \in L!Open, status' = [status EXCEPT ![s] = end]
  PROVE  Moving
  <1>1. PICK ended \in SUBSET Sessions : ended = {s}
    OBVIOUS
  <1>2. status' = [t \in Sessions |-> IF t \in ended THEN end ELSE status[t]]
    BY <1>1
  <1>3. \A t \in ended : status[t] \in L!Open
    BY <1>1
  <1>4. QED
    BY <1>2, <1>3 DEF Moving

LEMMA RequestNews ==
  ASSUME Rows!Inv, UNCHANGED <<posts, result>>, NEW q \in Requests,
         Rows!Poll(q) \/ Rows!CancelRequest(q) \/ Rows!Handle(q)
  PROVE  Moving \/ \E t : NewsFor(t)
  <1>1. /\ \A p \in Requests : p # q => req'[p] = req[p]
        /\ UNCHANGED notices
    <2>1. req' = [req EXCEPT ![q] = req'[q]]
      BY Rows!RequestStep, ServiceAssumption
      DEF L!AllFaults, Rows!AllFaults, IsFiniteSet, Rows!IsFiniteSet
    <2>2. req = [p \in Requests |-> req[p]]
      BY DEF Rows!Inv, Rows!TypeOK
    <2>3. UNCHANGED Rows!sweeper
      BY Rows!RequestEffect, ServiceAssumption
      DEF Rows!Inv, L!AllFaults, Rows!AllFaults, IsFiniteSet, Rows!IsFiniteSet
    <2>4. QED
      BY <2>1, <2>2, <2>3 DEF Rows!sweeper
  <1>2. \A s \in Sessions : s # req'[q].sid \/ req'[q].http \notin {200, 204}
                            => Heard(s)' \subseteq Heard(s)
    BY <1>1 DEF Heard
  <1>3. \/ UNCHANGED status
        \/ Rows!Writes(q) /\ req'[q].http \notin {200, 204}
    BY Rows!MoveUnanswered, ServiceAssumption
    DEF L!AllFaults, Rows!AllFaults, IsFiniteSet, Rows!IsFiniteSet
  <1>4. CASE UNCHANGED status
    BY <1>2, <1>4 DEF NewsFor
  <1>5. CASE Rows!Writes(q) /\ req'[q].http \notin {200, 204}
    <2>1. PICK s \in Sessions, end \in L!Terminal :
             status[s] \in L!Open /\ status' = [status EXCEPT ![s] = end]
      BY <1>5 DEF Rows!Writes, Rows!Terminal, L!Terminal, Rows!Open, L!Open
    <2>2. status = [t \in Sessions |-> status[t]]
      BY DEF Rows!Inv, Rows!TypeOK
    <2>3. \A t \in Sessions : Heard(t)' \subseteq Heard(t)
      BY <1>2, <1>5
    <2>4. QED
      BY <2>1, <2>2, <2>3, OneEnds
  <1>6. QED
    BY <1>3, <1>4, <1>5

LEMMA RowNews ==
  ASSUME Rows!Inv, RowStep PROVE Moving \/ \E t : NewsFor(t)
  <1>1. UNCHANGED <<posts, result>>
    BY RowStepIs DEF deliveryVars
  <1>t. /\ status = [s \in Sessions |-> status[s]]
        /\ notices = [s \in Sessions |-> notices[s]]
    BY DEF Rows!Inv, Rows!TypeOK
  <1>2. ASSUME UNCHANGED <<req, notices>>
        PROVE  \A s \in Sessions : Heard(s)' \subseteq Heard(s)
    BY <1>1, <1>2 DEF Heard
  <1>3. ASSUME NEW s \in Sessions, Rows!Create(s) PROVE Moving
    <2>1. UNCHANGED <<req, notices>>
      BY <1>3 DEF Rows!Create, Rows!sweeper
    <2>2. status[s] = "absent" /\ status' = [status EXCEPT ![s] = "pending"]
      BY <1>3 DEF Rows!Create
    <2>3. QED
      BY <1>2, <2>1, <2>2 DEF Moving
  <1>4. ASSUME NEW s \in Sessions, Rows!Engage(s) PROVE Moving
    <2>1. UNCHANGED <<req, notices>>
      BY <1>4 DEF Rows!Engage, Rows!sweeper
    <2>2. status[s] \in L!Open /\ status' = [status EXCEPT ![s] = "wallet_engaged"]
      BY <1>4 DEF Rows!Engage, L!Open
    <2>3. QED
      BY <1>2, <2>1, <2>2 DEF Moving
  <1>5. ASSUME NEW s \in Sessions, Rows!SaveReport(s) PROVE NewsFor(s)
    <2>1. UNCHANGED <<req, notices, status>>
      BY <1>5 DEF Rows!SaveReport, Rows!sweeper
    <2>2. QED
      BY <1>2, <2>1 DEF NewsFor
  <1>6. ASSUME NEW s \in Sessions, Rows!Complete(s) PROVE Moving
    <2>1. UNCHANGED <<req, notices>>
      BY <1>6 DEF Rows!Complete, Rows!sweeper
    <2>2. PICK end \in L!Terminal :
             status[s] \in L!Open /\ status' = [status EXCEPT ![s] = end]
      BY <1>6 DEF Rows!Complete, L!Open, L!Terminal
    <2>3. QED
      BY <1>t, <1>2, <2>1, <2>2, OneEnds
  <1>7. ASSUME NEW w \in Replicas, Rows!Sweep(w) PROVE Moving \/ \E t : NewsFor(t)
    <2>1. CASE Rows!Notify(w)
      <3>1. PICK s : /\ \A t \in Sessions \ {s} : notices'[t] = notices[t]
                     /\ UNCHANGED <<req, status>>
        BY <1>t, <2>1 DEF Rows!Notify
      <3>2. NewsFor(s)
        BY <1>1, <3>1 DEF NewsFor, Heard
      <3>3. QED
        BY <3>2
    <2>2. CASE Rows!ExpireDue(w) \/ Rows!ExpireDueFails(w)
      <3>1. UNCHANGED <<req, notices>>
        BY <2>2 DEF Rows!ExpireDue, Rows!ExpireDueFails, Rows!sweeper
      <3>2. \/ UNCHANGED status
            \/ \E overdue \in SUBSET Sessions : Rows!Expire(overdue)
        BY <1>7, Rows!SweepEffect, ServiceAssumption
        DEF Rows!Inv, L!AllFaults, Rows!AllFaults, IsFiniteSet, Rows!IsFiniteSet
      <3>3. CASE UNCHANGED status
        BY <1>2, <3>1, <3>3 DEF NewsFor
      <3>4. ASSUME NEW overdue \in SUBSET Sessions, Rows!Expire(overdue) PROVE Moving
        <4>1. /\ \A s \in overdue : status[s] \in L!Open
              /\ status' = [s \in Sessions |-> IF s \in overdue THEN "expired"
                                                                ELSE status[s]]
          BY <3>4 DEF Rows!Expire, Rows!IsDue, Rows!Open, L!Open
        <4>2. QED
          BY <1>2, <3>1, <4>1 DEF Moving, L!Terminal
      <3>5. QED
        BY <3>2, <3>3, <3>4
    <2>3. QED
      BY <1>7, <2>1, <2>2 DEF Rows!Sweep
  <1>8. QED
    BY <1>1, <1>3, <1>4, <1>5, <1>6, <1>7, RowStepIs, RequestNews

LEMMA StepNews ==
  ASSUME Rows!Inv, Delivery!TypeOK, Step,
         result \in [Sessions -> Rows!States \cup {None}]
  PROVE  Moving \/ \E t : NewsFor(t)
  <1>1. CASE Tick
    <2>1. UNCHANGED <<status, req, notices, posts, result>>
      BY <1>1, TickIs
    <2>2. QED
      BY <2>1 DEF NewsFor, Heard
  <1>2. CASE RowStep
    BY <1>2, RowNews
  <1>3. CASE DeliveryStep
    <2>1. PICK r \in Replicas : D!Work(r)
      BY <1>3 DEF DeliveryStep
    <2>2. UNCHANGED <<status, req, notices, result>>
      BY <1>3 DEF DeliveryStep, rowVars
    <2>3. posts \in [Sessions -> Nat]
      BY DEF Delivery!TypeOK
    <2>4. PICK s : \A t \in Sessions \ {s} : posts'[t] = posts[t]
      BY <2>1, <2>3, WorkIs
    <2>5. NewsFor(s)
      BY <2>2, <2>4 DEF NewsFor, Heard
    <2>6. QED
      BY <2>5
  <1>4. ASSUME NEW s \in Sessions, HandOff(s) PROVE NewsFor(s)
    <2>1. /\ UNCHANGED <<status, req, notices>>
          /\ result' = [result EXCEPT ![s] = status[s]]
      BY <1>4, HandOffIs DEF HandOff, Rows!HandOff, Rows!sweeper
    <2>2. posts' = posts
      BY <1>4 DEF HandOff, D!Handoff, D!tally
    <2>3. QED
      BY <2>1, <2>2 DEF NewsFor, Heard
  <1>5. ASSUME NEW r \in Replicas, ProcessEnds(r) PROVE \E t : NewsFor(t)
    <2>1. UNCHANGED <<status, req, notices, posts, result>>
      BY <1>5, ProcessEndsIs
    <2>2. QED
      BY <2>1 DEF NewsFor, Heard
  <1>6. QED
    BY <1>1, <1>2, <1>3, <1>4, <1>5 DEF Step

-----------------------------------------------------------------------------
(* The invariant is inductive *)

LEMMA ServiceInit == Init => ServiceInv /\ ToldInv
  <1> SUFFICES ASSUME Init PROVE ServiceInv /\ ToldInv
    OBVIOUS
  <1>1. Rows!Init /\ Delivery!Init
    BY SameCore, SameDelivery DEF Init
  <1>2. Rows!Inv
    BY <1>1, Rows!InvInit, ServiceAssumption
    DEF L!AllFaults, Rows!AllFaults, IsFiniteSet, Rows!IsFiniteSet
  <1>3. Delivery!TypeOK
    BY <1>1, Delivery!TypeInit, ServiceAssumption
    DEF D!AllKinds, Delivery!AllKinds, D!AllFaults, Delivery!AllFaults
  <1>4. Heeded
    BY <1>1 DEF Heeded, Rows!Init, Rows!Idle, Rows!Reads, Rows!Terminal
  <1>5. \A s \in Sessions : Linked(s) /\ Heard(s) = {}
    BY <1>1
    DEF Linked, Heard, Rows!Init, Rows!Idle, Delivery!Init
  <1>6. QED
    BY <1>2, <1>3, <1>4, <1>5 DEF ServiceInv, ToldInv, Init

LEMMA RowStepLinked ==
  ASSUME ServiceInv, RowStep, NEW s \in Sessions PROVE Linked(s)'
  <1>1. UNCHANGED <<kind, posts, result>> /\ Rows!Next
    BY RowStepIs DEF deliveryVars, Rows!Next, Rows!Core
  <1>2. payload' = payload
    <2>1. CASE \E x \in Sessions : \/ Rows!Create(x) \/ Rows!Engage(x)
                                   \/ Rows!SaveReport(x) \/ Rows!Complete(x)
      BY <2>1
      DEF Rows!Create, Rows!Engage, Rows!SaveReport, Rows!Complete, Rows!valkey
    <2>2. CASE \E q \in Requests : \/ Rows!Poll(q) \/ Rows!CancelRequest(q)
                                   \/ Rows!Handle(q)
      BY <2>2, Rows!RequestEffect, ServiceAssumption
      DEF ServiceInv, Rows!Inv, L!AllFaults, Rows!AllFaults, IsFiniteSet,
          Rows!IsFiniteSet
    <2>3. CASE \E w \in Replicas : Rows!Sweep(w)
      BY <2>3, Rows!SweepEffect, ServiceAssumption
      DEF ServiceInv, Rows!Inv, Rows!valkey, L!AllFaults, Rows!AllFaults,
          IsFiniteSet, Rows!IsFiniteSet
    <2>4. QED
      BY <2>1, <2>2, <2>3, RowStepIs
  <1>3. Rows!Grows(s)
    BY <1>1, Rows!GrowsNext, ServiceAssumption
    DEF ServiceInv, L!AllFaults, Rows!AllFaults, IsFiniteSet, Rows!IsFiniteSet
  <1>4. payload[s] # "none" => status'[s] = status[s]
    BY <1>3 DEF ServiceInv, Rows!Inv, Rows!RowOK, Rows!Outcomes, Rows!Grows,
       Rows!Terminal
  <1>5. QED
    BY <1>1, <1>2, <1>4 DEF ServiceInv, Linked

LEMMA HandOffLinked ==
  ASSUME ServiceInv, NEW x \in Sessions, HandOff(x)
  PROVE  /\ \A s \in Sessions : Linked(s)'
         /\ result' \in [Sessions -> Rows!States \cup {None}]
  <1>1. /\ status[x] \in {"verified", "failed"} /\ payload[x] = "none"
        /\ payload' = [payload EXCEPT ![x] = "live"]
        /\ status' = status
    BY HandOffIs DEF ServiceInv, Rows!HandOff
  <1>2. PICK k \in Kinds : kind' = [kind EXCEPT ![x] = k]
    BY DEF HandOff, D!Handoff
  <1>3. posts' = posts /\ result' = [result EXCEPT ![x] = status[x]]
    BY DEF HandOff, D!Handoff, D!tally
  <1>4. k # "none"
    BY ServiceAssumption DEF D!AllKinds
  <1>t. /\ payload \in [Sessions -> {"none", "live", "gone"}]
        /\ kind = [s \in Sessions |-> kind[s]] /\ posts \in [Sessions -> Nat]
        /\ result \in [Sessions -> Rows!States \cup {None}]
        /\ status \in [Sessions -> Rows!States]
    BY DEF ServiceInv, Rows!Inv, Rows!TypeOK, Rows!States, Delivery!TypeOK
  <1>5. ASSUME NEW s \in Sessions PROVE Linked(s)'
    <2>1. CASE s = x
      BY <1>1, <1>2, <1>3, <1>4, <1>t, <2>1 DEF Linked
    <2>2. CASE s # x
      BY <1>1, <1>2, <1>3, <1>t, <2>2 DEF Linked, ServiceInv
    <2>3. QED
      BY <2>1, <2>2
  <1>6. QED
    BY <1>3, <1>5, <1>t

\* What the consumers see of a step that is none of theirs.
LEMMA DeliveryAside ==
  ASSUME UNCHANGED deliveryVars, Rows!Inv', Delivery!TypeOK
  PROVE  Delivery!TypeOK'
  <1>1. now' \in 0..MaxTime /\ faults' \in 0..MaxFaults
    BY DEF Rows!Inv, Rows!TypeOK
  <1>2. QED
    BY <1>1 DEF deliveryVars, Delivery!TypeOK, Delivery!WorkerType

\* Every step is one of the rows or none of theirs, and likewise of the consumers.
LEMMA StepParts ==
  ASSUME ServiceInv, Step
  PROVE  /\ Rows!Inv'
         /\ Rows!Next \/ UNCHANGED <<req, status>>
         /\ Delivery!Next \/ UNCHANGED <<now, deliveryVars>>
         /\ \A s \in Sessions : Linked(s)'
         /\ result' \in [Sessions -> Rows!States \cup {None}]
  <1>i. Rows!Inv /\ Delivery!TypeOK /\ Heeded /\ (\A s \in Sessions : Linked(s))
        /\ result \in [Sessions -> Rows!States \cup {None}]
    BY DEF ServiceInv
  <1>1. CASE Tick
    <2>1. /\ Rows!Inv' /\ Delivery!Next
          /\ UNCHANGED <<status, req, kind, posts, result>>
          /\ \A s \in Sessions : payload'[s] = "none" <=> payload[s] = "none"
      BY <1>i, <1>1, TickIs
    <2>2. QED
      BY <1>i, <2>1 DEF Linked
  <1>2. CASE RowStep
    <2>1. Rows!Inv' /\ Rows!Next
      BY <1>i, <1>2, RowStepIs, RowStepMoves DEF Rows!Next, Rows!Core
    <2>2. UNCHANGED <<now, deliveryVars, result>>
      BY <1>2, RowStepIs
    <2>3. \A s \in Sessions : Linked(s)'
      BY <1>2, RowStepLinked
    <2>4. QED
      BY <1>i, <2>1, <2>2, <2>3
  <1>3. CASE DeliveryStep
    <2>1. Rows!Inv' /\ Delivery!Next
      BY <1>i, <1>3, DeliveryStepIs
    <2>2. PICK r \in Replicas : D!Work(r)
      BY <1>3 DEF DeliveryStep
    <2>3. /\ kind' = kind
          /\ \/ posts' = posts
             \/ \E s \in Sessions : /\ kind[s] = "ok"
                                    /\ posts' = [posts EXCEPT ![s] = @ + 1]
      BY <1>i, <2>2, WorkIs
    <2>4. UNCHANGED <<status, payload, req, result>>
      BY <1>3 DEF DeliveryStep, rowVars
    <2>5. ASSUME NEW s \in Sessions PROVE Linked(s)'
      <3>1. posts \in [Sessions -> Nat]
        BY <1>i DEF Delivery!TypeOK
      <3>2. posts'[s] = posts[s] \/ kind[s] = "ok"
        BY <2>3, <3>1
      <3>3. QED
        BY <1>i, <2>3, <2>4, <3>2 DEF Linked
    <2>6. QED
      BY <1>i, <2>1, <2>4, <2>5
  <1>4. CASE \E s \in Sessions : HandOff(s)
    <2>1. PICK s \in Sessions : HandOff(s)
      BY <1>4
    <2>2. Rows!Inv' /\ Delivery!Next /\ Rows!Next
      BY <1>i, <2>1, HandOffIs DEF Rows!Next, Rows!Core
    <2>3. QED
      BY <2>1, <2>2, HandOffLinked
  <1>5. CASE \E r \in Replicas : ProcessEnds(r)
    <2>1. /\ Rows!Inv' /\ UNCHANGED <<now, status, req, payload, kind, posts, result>>
          /\ Delivery!Next \/ UNCHANGED deliveryVars
      BY <1>i, <1>5, ProcessEndsIs
    <2>2. QED
      BY <1>i, <2>1 DEF Linked
  <1>6. QED
    BY <1>1, <1>2, <1>3, <1>4, <1>5 DEF Step

LEMMA ServiceNext == ServiceInv /\ [Next]_vars => ServiceInv'
  <1> SUFFICES ASSUME ServiceInv, [Next]_vars PROVE ServiceInv'
    OBVIOUS
  <1>i. Rows!Inv /\ Delivery!TypeOK /\ Heeded /\ (\A s \in Sessions : Linked(s))
        /\ result \in [Sessions -> Rows!States \cup {None}]
    BY DEF ServiceInv
  <1>1. CASE Step
    <2>1. Rows!Inv' /\ (\A s \in Sessions : Linked(s)')
          /\ result' \in [Sessions -> Rows!States \cup {None}]
      BY <1>1, StepParts
    <2>2. Delivery!TypeOK'
      BY <1>1, <1>i, <2>1, StepParts, DeliveryTypeNext, DeliveryAside
    <2>3. Heeded'
      <3>1. CASE Rows!Next
        <4>1. \A q \in Requests : Rows!Reads(req[q])'
          BY <1>i, <3>1, Rows!ReadsNext, ServiceAssumption
          DEF Heeded, L!AllFaults, Rows!AllFaults, IsFiniteSet, Rows!IsFiniteSet
        <4>2. QED
          BY <4>1 DEF Heeded
      <3>2. CASE UNCHANGED <<req, status>>
        BY <1>i, <3>2 DEF Heeded, Rows!Reads
      <3>3. QED
        BY <1>1, <3>1, <3>2, StepParts
    <2>4. QED
      BY <2>1, <2>2, <2>3 DEF ServiceInv
  <1>2. CASE UNCHANGED vars
    <2>1. UNCHANGED <<now, faults, rowVars, batch, deliveryVars, result>>
      BY <1>2 DEF vars
    <2>2. Rows!Inv'
      BY <1>i, <2>1, RowsAside DEF Rows!Inv, Rows!TypeOK
    <2>3. Delivery!TypeOK'
      BY <1>i, <2>1, <2>2, DeliveryAside
    <2>4. UNCHANGED <<req, status, payload, kind, posts, result>>
      BY <2>1 DEF rowVars, deliveryVars
    <2>5. Heeded' /\ \A s \in Sessions : Linked(s)'
      BY <1>i, <2>4 DEF Heeded, Rows!Reads, Linked
    <2>6. QED
      BY <1>i, <2>2, <2>3, <2>4, <2>5 DEF ServiceInv
  <1>3. QED
    BY <1>1, <1>2 DEF Next

-----------------------------------------------------------------------------
(* What the client of a session hears *)

\* Nothing that is told anew is news.
LEMMA ToldAgain ==
  ASSUME told \in [Sessions -> SUBSET L!Terminal],
         told' = [s \in Sessions |-> told[s] \cup Heard(s)'],
         \A s \in Sessions : Heard(s)' \subseteq told[s]
  PROVE  told' = told
  <1>1. \A s \in Sessions : told[s] \cup Heard(s)' = told[s]
    OBVIOUS
  <1>2. QED
    BY <1>1

\* After a step as well as before it.
LEMMA HeardIsTrueNext ==
  ServiceInv' => (\A s \in Sessions : Truthful(s))'
  BY HeardIsTrue, PTL

LEMMA ClientNext ==
  ASSUME ServiceInv, ToldInv, Next
  PROVE  ToldInv' /\ (View!Next \/ UNCHANGED View!vars)
  <1>t. /\ told \in [Sessions -> SUBSET L!Terminal]
        /\ \A s \in Sessions : Heard(s) \subseteq told[s]
        /\ Step /\ told' = [s \in Sessions |-> told[s] \cup Heard(s)']
    BY DEF ToldInv, Next
  <1>s. status = [s \in Sessions |-> status[s]]
    BY DEF ServiceInv, Rows!Inv, Rows!TypeOK
  <1>h. \A s \in Sessions : Heard(s)' \subseteq L!Terminal
    BY DEF Heard
  <1>1. ToldInv'
    BY <1>t, <1>h DEF ToldInv
  <1>2. \A s \in Sessions : \A end \in Heard(s)' : end = status'[s]
    <2>1. ServiceInv'
      BY ServiceNext
    <2>2. \A s \in Sessions : Truthful(s)'
      BY <2>1, HeardIsTrueNext
    <2>3. QED
      BY <2>2 DEF Truthful
  <1> DEFINE Fate == [s \in Sessions |-> IF status[s] \in L!Open THEN "open"
                                                                 ELSE status[s]]
  <1>f. View!vars = <<Fate, told>> /\ View!vars' = <<Fate', told'>>
    BY DEF View!vars
  <1>3. ASSUME NEW t, NewsFor(t) PROVE View!Next \/ UNCHANGED View!vars
    <2>1. Fate' = Fate
      BY <1>3 DEF NewsFor
    <2>2. \A s \in Sessions \ {t} : Heard(s)' \subseteq told[s]
      BY <1>3, <1>t DEF NewsFor
    <2>3. CASE \A s \in Sessions : Heard(s)' \subseteq told[s]
      BY <1>t, <1>f, <2>1, <2>3, ToldAgain
    <2>4. CASE t \in Sessions /\ ~(Heard(t)' \subseteq told[t])
      <3>1. PICK end \in Heard(t)' : end \notin told[t]
        BY <2>4
      <3>2. end = status[t] /\ end \in L!Terminal /\ Heard(t)' = {end}
        BY <1>2, <1>3, <1>h, <2>4, <3>1 DEF NewsFor
      <3>3. Fate[t] = end /\ end \in View!Ends
        BY <2>4, <3>2 DEF L!Open, L!Terminal, View!Ends
      <3>4. told' = [told EXCEPT ![t] = @ \cup {end}]
        <4>1. \A s \in Sessions \ {t} : told[s] \cup Heard(s)' = told[s]
          BY <2>2
        <4>2. QED
          BY <1>t, <2>4, <3>2, <4>1
      <3>5. View!Tell(t)
        BY <2>1, <3>3, <3>4 DEF View!Tell
      <3>6. QED
        BY <2>4, <3>5 DEF View!Next
    <2>5. QED
      BY <2>2, <2>3, <2>4
  <1>4. ASSUME Moving PROVE View!Next \/ UNCHANGED View!vars
    <2>1. told' = told
      BY <1>t, <1>4, ToldAgain DEF Moving
    <2>2. ASSUME NEW s \in Sessions, status[s] = "absent",
                 status' = [status EXCEPT ![s] = "pending"]
          PROVE  View!Create(s)
      <3>1. Fate[s] = "absent"
        BY <2>2 DEF L!Open
      <3>2. Fate' = [Fate EXCEPT ![s] = "open"]
        BY <1>s, <2>2 DEF L!Open
      <3>3. QED
        BY <2>1, <3>1, <3>2 DEF View!Create
    <2>3. ASSUME NEW s \in Sessions, status[s] \in L!Open,
                 status' = [status EXCEPT ![s] = "wallet_engaged"]
          PROVE  Fate' = Fate
      BY <1>s, <2>3 DEF L!Open
    <2>4. ASSUME NEW ended \in SUBSET Sessions, NEW end \in L!Terminal,
                 \A s \in ended : status[s] \in L!Open,
                 status' = [s \in Sessions |-> IF s \in ended THEN end ELSE status[s]]
          PROVE  View!End(ended)
      <3>1. \A s \in ended : Fate[s] = "open"
        BY <2>4
      <3>2. Fate' = [s \in Sessions |-> IF s \in ended THEN end ELSE Fate[s]]
        BY <2>4 DEF L!Open, L!Terminal
      <3>3. end \in View!Ends
        BY <2>4 DEF L!Terminal, View!Ends
      <3>4. QED
        BY <2>1, <3>1, <3>2, <3>3 DEF View!End
    <2>5. QED
      BY <1>4, <1>f, <2>1, <2>2, <2>3, <2>4 DEF Moving, View!Next
  <1>5. Moving \/ \E t : NewsFor(t)
    BY <1>t, StepNews DEF ServiceInv
  <1>6. QED
    BY <1>1, <1>3, <1>4, <1>5

\* However polls, cancels, sweepers, wallet and consumers of every replica race,
\* and whatever fails, the client of a session hears of one end of it, the one on
\* the row, and never before the session came to it.
THEOREM ImplementsClientView == Spec => ClientViewSpec
  <1>1. Init => ServiceInv /\ ToldInv /\ View!Init
    <2>1. Init => View!Init
      BY DEF Init, L!Init, View!Init, L!Open
    <2>2. QED
      BY <2>1, ServiceInit
  <1>2. ServiceInv /\ ToldInv /\ [Next]_vars =>
           ServiceInv' /\ ToldInv' /\ [View!Next]_(View!vars)
    <2> SUFFICES ASSUME ServiceInv, ToldInv, [Next]_vars
                 PROVE  ServiceInv' /\ ToldInv' /\ [View!Next]_(View!vars)
      OBVIOUS
    <2>1. ServiceInv'
      BY ServiceNext
    <2>2. CASE Next
      BY <2>1, <2>2, ClientNext
    <2>3. CASE UNCHANGED vars
      <3>1. UNCHANGED <<status, req, posts, result, notices, told>>
        BY <2>3 DEF vars, rowVars, deliveryVars
      <3>2. ToldInv' /\ UNCHANGED View!vars
        BY <3>1 DEF ToldInv, Heard, View!vars
      <3>3. QED
        BY <2>1, <3>2
    <2>4. QED
      BY <2>2, <2>3
  <1>3. QED
    BY <1>1, <1>2, PTL DEF Spec, ClientViewSpec, View!Spec
-----------------------------------------------------------------------------
(* What a client knew binds what it is answered *)

ToldTrue == \A s \in Sessions : \A end \in told[s] : end = status[s]

KnewInv ==
    /\ knew \in [Requests -> SUBSET L!Terminal]
    /\ \A q \in Requests : \A end \in knew[q] : Rows!Heeds(req[q], end)

LEMMA EndsStay ==
  ASSUME ServiceInv, Step, NEW s \in Sessions, status[s] \in L!Terminal
  PROVE  status'[s] = status[s]
  <1>1. CASE Rows!Next
    <2>1. Rows!Grows(s)
      BY <1>1, Rows!GrowsNext, ServiceAssumption
      DEF ServiceInv, L!AllFaults, Rows!AllFaults, IsFiniteSet, Rows!IsFiniteSet
    <2>2. QED
      BY <2>1 DEF Rows!Grows, Rows!Terminal, L!Terminal
  <1>2. QED
    BY <1>1, StepParts

\* A step of the service on the request in slot q, as Rows!HeedsNext has it.
LEMMA RequestHeeds ==
  ASSUME ServiceInv, Step, NEW q \in Requests
  PROVE  \/ Arrives(q) /\ req'[q].http = 0 /\ req'[q].step \in {"get", "cancel"}
            /\ req'[q].sid \in Sessions /\ UNCHANGED status
         \/ /\ ~Arrives(q)
            /\ \A end \in L!Terminal :
                  Rows!Heeds(req[q], end) => Rows!Heeds(req[q], end)'
  <1>1. CASE Rows!Next
    <2>1. \/ /\ req[q].step \in {"idle", "done"} /\ req'[q].step \in {"get", "cancel"}
             /\ req'[q].http = 0 /\ req'[q].sid \in Sessions
             /\ UNCHANGED status
          \/ /\ req'[q].step \in {"idle", "done"} \/ req[q].step \notin {"idle", "done"}
             /\ \A end \in Rows!Terminal :
                   Rows!Heeds(req[q], end) => Rows!Heeds(req[q], end)'
      BY <1>1, Rows!HeedsNext, ServiceAssumption
      DEF ServiceInv, L!AllFaults, Rows!AllFaults, IsFiniteSet, Rows!IsFiniteSet
    <2>2. QED
      BY <2>1 DEF Arrives, Rows!Terminal, L!Terminal
  <1>2. CASE UNCHANGED <<req, status>>
    BY <1>2 DEF Arrives, Rows!Heeds
  <1>3. QED
    BY <1>1, <1>2, StepParts

LEMMA KnewNext ==
  ASSUME ServiceInv, ToldInv, ToldTrue, KnewInv, Next
  PROVE  ToldTrue' /\ KnewInv'
  <1>n. /\ Step /\ told' = [s \in Sessions |-> told[s] \cup Heard(s)']
        /\ knew' = [q \in Requests |-> IF Arrives(q) THEN told[req'[q].sid]
                                                     ELSE knew[q]]
    BY DEF Next
  <1>t. /\ told \in [Sessions -> SUBSET L!Terminal]
        /\ knew \in [Requests -> SUBSET L!Terminal]
    BY DEF ToldInv, KnewInv
  <1>1. ToldTrue'
    <2>1. \A s \in Sessions : Truthful(s)'
      <3>1. ServiceInv'
        BY <1>n, ServiceNext
      <3>2. QED
        BY <3>1, HeardIsTrueNext
    <2>2. ASSUME NEW s \in Sessions, NEW end \in told'[s] PROVE end = status'[s]
      <3>1. CASE end \in told[s]
        BY <1>n, <1>t, <3>1, EndsStay DEF ToldTrue
      <3>2. CASE end \in Heard(s)'
        BY <2>1, <3>2 DEF Truthful
      <3>3. QED
        BY <1>n, <2>2, <3>1, <3>2
    <2>3. QED
      BY <2>2 DEF ToldTrue
  <1>2. ASSUME NEW q \in Requests
        PROVE  /\ knew'[q] \in SUBSET L!Terminal
               /\ \A end \in knew'[q] : Rows!Heeds(req[q], end)'
    <2>1. CASE /\ Arrives(q) /\ req'[q].http = 0 /\ req'[q].step \in {"get", "cancel"}
               /\ req'[q].sid \in Sessions /\ UNCHANGED status
      <3>1. knew'[q] = told[req'[q].sid]
        BY <1>n, <2>1
      <3>2. \A end \in knew'[q] : end = status'[req'[q].sid]
        BY <2>1, <3>1 DEF ToldTrue
      <3>3. QED
        BY <1>t, <2>1, <3>1, <3>2 DEF Rows!Heeds
    <2>2. CASE /\ ~Arrives(q)
               /\ \A end \in L!Terminal :
                     Rows!Heeds(req[q], end) => Rows!Heeds(req[q], end)'
      <3>1. knew'[q] = knew[q]
        BY <1>n, <2>2
      <3>2. QED
        BY <1>t, <2>2, <3>1 DEF KnewInv
    <2>3. QED
      BY <1>n, <2>1, <2>2, RequestHeeds
  <1>3. KnewInv'
    BY <1>n, <1>2 DEF KnewInv
  <1>4. QED
    BY <1>1, <1>3

\* Whatever way a client heard of its session's end, the sweeper's or a consumer's
\* webhook of any process included, a call it makes afterwards is answered so.
THEOREM AnswersFollowNews == Spec => []AnswersKeepUp
  <1> DEFINE Known == ServiceInv /\ ToldInv /\ ToldTrue /\ KnewInv
  <1>1. Init => Known
    <2>1. Init => ToldTrue /\ KnewInv
      BY DEF Init, ToldTrue, KnewInv
    <2>2. QED
      BY <2>1, ServiceInit
  <1>2. Known /\ [Next]_vars => Known'
    <2> SUFFICES ASSUME Known, [Next]_vars PROVE Known'
      OBVIOUS
    <2>1. ServiceInv'
      BY ServiceNext
    <2>2. CASE Next
      BY <2>1, <2>2, ClientNext, KnewNext
    <2>3. CASE UNCHANGED vars
      <3>1. UNCHANGED <<status, req, posts, result, notices, told, knew>>
        BY <2>3 DEF vars, rowVars, deliveryVars
      <3>2. ToldInv' /\ ToldTrue' /\ KnewInv'
        BY <3>1 DEF ToldInv, ToldTrue, KnewInv, Heard, Rows!Heeds
      <3>3. QED
        BY <2>1, <3>2
    <2>4. QED
      BY <2>2, <2>3
  <1>3. Known => AnswersKeepUp
    <2> SUFFICES ASSUME KnewInv, NEW q \in Requests
                 PROVE  /\ req[q].http = 200 => knew[q] \subseteq {req[q].status}
                        /\ req[q].http = 204 => knew[q] = {}
      BY DEF AnswersKeepUp
    <2>1. \A end \in knew[q] : /\ req[q].http = 200 => req[q].status = end
                               /\ req[q].http # 204
      BY DEF KnewInv, Rows!Heeds
    <2>2. QED
      BY <2>1
  <1>4. QED
    BY <1>1, <1>2, <1>3, PTL DEF Spec
=============================================================================
