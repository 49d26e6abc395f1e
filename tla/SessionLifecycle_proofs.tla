------------------------ MODULE SessionLifecycle_proofs ------------------------
(***************************************************************************)
(* Theorems about SessionLifecycle, for every number of sessions, clients, *)
(* concurrent requests and sweepers, every batch limit and every set of    *)
(* failures (a theorem that needs some of them excluded says which).       *)
(***************************************************************************)
EXTENDS SessionLifecycle, FiniteSetTheorems, TLAPS

-----------------------------------------------------------------------------
(* Requests as records *)

States == Open \cup Terminal \cup {"absent"}

RequestType ==
    [step : Steps, client : Clients \cup {None},
     sid : Sessions \cup {None}, code : Sessions \cup {None},
     status : States,
     redeemed : BOOLEAN, report : BOOLEAN, result : BOOLEAN,
     http : {0, 200, 204, 404, 409, 500}]

Rebuilt(r) ==
    [step |-> r.step, client |-> r.client, sid |-> r.sid, code |-> r.code,
     status |-> r.status, redeemed |-> r.redeemed, report |-> r.report,
     result |-> r.result, http |-> r.http]

FieldsOK(r) ==
    /\ r.step \in Steps
    /\ r.client \in Clients \cup {None} /\ r.sid \in Sessions \cup {None}
    /\ r.code \in Sessions \cup {None} /\ r.status \in States
    /\ r.redeemed \in BOOLEAN /\ r.report \in BOOLEAN /\ r.result \in BOOLEAN
    /\ r.http \in {0, 200, 204, 404, 409, 500}

\* A request, field by field: the form the provers handle updates in.
LEMMA Fields ==
  ASSUME NEW r PROVE r \in RequestType <=> r = Rebuilt(r) /\ FieldsOK(r)
  <1>1. ASSUME r \in RequestType PROVE r = Rebuilt(r) /\ FieldsOK(r)
    BY <1>1 DEF RequestType, Rebuilt, FieldsOK
  <1>2. ASSUME r = Rebuilt(r), FieldsOK(r) PROVE r \in RequestType
    <2>1. Rebuilt(r) \in RequestType
      BY <1>2 DEF RequestType, Rebuilt, FieldsOK
    <2>2. QED
      BY <1>2, <2>1
  <1>3. QED
    BY <1>1, <1>2

-----------------------------------------------------------------------------
(* The inductive invariant *)

Outcomes == {"verified", "failed"}

\* What a request has read is so, and stays so until it answers: it works on a
\* session of its client, an outcome it saw comes with the report, a redemption
\* it saw is on the row, and a code it took is off the index for good.
Knows(r) ==
    /\ r.step # "idle" => r.sid \in Sessions
    /\ r.step \in {"idle", "get", "cancel", "delete"} =>
          r.status = "absent" /\ ~r.redeemed
    /\ r.step \in {"report", "redeem", "mark", "release"} =>
          status[r.sid] # "absent" /\ owner[r.sid] = r.client
    /\ r.step = "redeem" => r.code \in Sessions /\ flow[r.sid] = "same_device"
    /\ r.step = "mark" => ~code[r.sid] /\ payload[r.sid] # "none"
    /\ r.status \in Outcomes =>
          /\ status[r.sid] = r.status /\ owner[r.sid] = r.client
          /\ r.step \in {"redeem", "mark", "release"} \/ r.http = 200 => r.report
    /\ r.redeemed => redeemed[r.sid]
    /\ r.http # 0 => r.step = "done"
    /\ r.result => /\ r.status = "verified"
                   /\ flow[r.sid] = "same_device" => r.redeemed

\* A row and the index entries that belong to it.
RowOK(s) ==
    /\ status[s] = "absent" => flow[s] = None
    /\ status[s] \in Outcomes => report[s]
    /\ payload[s] # "none" => status[s] \in Outcomes
    /\ payload[s] = "none" => accepted[s] = 0
    /\ code[s] => payload[s] = "live" /\ accepted[s] = 0
    /\ redeemed[s] => accepted[s] > 0
    /\ accepted[s] <= 1
    /\ notices[s] > 0 => notices[s] = 1 /\ status[s] = "expired"

\* At most one request holds a session's code, and nobody redeemed it before.
OneRedeemer ==
    /\ \A q \in Requests : req[q].step = "mark" => accepted[req[q].sid] = 0
    /\ \A p, q \in Requests :
          /\ req[p].step = "mark" /\ req[q].step = "mark"
          /\ req[p].sid = req[q].sid
          => p = q

\* A session is in the batch of one sweeper at most, and only before its notice.
BatchesOK ==
    /\ \A w \in Sweepers : \A s \in batch[w] :
          status[s] = "expired" /\ notices[s] = 0
    /\ \A v, w \in Sweepers : v # w => batch[v] \cap batch[w] = {}

Inv ==
    /\ TypeOK
    /\ \A q \in Requests : Knows(req[q])
    /\ \A s \in Sessions : RowOK(s)
    /\ OneRedeemer
    /\ BatchesOK

LEMMA InvInit == Init => Inv
  <1> SUFFICES ASSUME Init PROVE Inv
    OBVIOUS
  <1>1. Idle \in RequestType
    BY DEF Idle, RequestType, Steps, States
  <1>2. req \in [Requests -> RequestType]
    BY <1>1 DEF Init
  <1>3. \A w \in Sweepers : Cardinality(batch[w]) <= Limit
    BY LifecycleAssumption, FS_EmptySet DEF Init
  <1>4. TypeOK
    BY <1>2, <1>3, LifecycleAssumption DEF Init, TypeOK, RequestType, States
  <1>5. \A q \in Requests : Knows(req[q])
    BY DEF Init, Knows, Idle, Outcomes
  <1>6. \A s \in Sessions : RowOK(s)
    BY DEF Init, RowOK, Outcomes
  <1>7. OneRedeemer /\ BatchesOK
    BY DEF Init, OneRedeemer, BatchesOK, Idle
  <1>8. QED
    BY <1>4, <1>5, <1>6, <1>7 DEF Inv

-----------------------------------------------------------------------------
(* What a step of a request does to the shared state *)

\* Besides the request itself, a step of it writes a status that is still open,
\* takes a code off the index, or redeems the code it took: nothing else.
Writes(q) ==
    \E s \in Sessions, x \in Terminal :
        /\ status[s] \in Open
        /\ status' = [status EXCEPT ![s] = x] /\ x \in {"expired", "cancelled"}
        /\ UNCHANGED <<code, redeemed, accepted>>

Takes(q) ==
    /\ req[q].step = "redeem"
    /\ code' = [code EXCEPT ![req[q].code] = FALSE]
    /\ UNCHANGED <<status, redeemed, accepted>>

Marks(q) ==
    /\ req[q].step = "mark" /\ req'[q].step # "mark"
    /\ Redeem(req[q].sid)
    /\ UNCHANGED <<status, code>>

LEMMA WriteEffect ==
  ASSUME TypeOK, NEW q \in Requests, req[q].sid \in Sessions, Write(q),
         UNCHANGED <<code, redeemed, accepted>>
  PROVE  UNCHANGED <<status, code, redeemed, accepted>> \/ Writes(q)
  <1> DEFINE s == req[q].sid
  <1>t. status \in [Sessions -> Open \cup Terminal \cup {"absent"}]
    BY DEF TypeOK
  <1>1. PICK x : /\ status' = [status EXCEPT ![s] = x]
                 /\ \/ x \in {"expired", "cancelled"} /\ status[s] \in Open
                    \/ x = status[s]
    BY DEF Write, Status, IsDue
  <1>2. CASE x = status[s]
    <2>1. status' = status
      BY <1>1, <1>2, <1>t
    <2>2. QED
      BY <2>1
  <1>3. CASE x \in {"expired", "cancelled"} /\ status[s] \in Open
    BY <1>1, <1>3 DEF Writes, Terminal
  <1>4. QED
    BY <1>1, <1>2, <1>3

\* The same for any step of a request.
LEMMA RequestEffect ==
  ASSUME TypeOK, NEW q \in Requests, Knows(req[q]),
         Poll(q) \/ CancelRequest(q) \/ Handle(q)
  PROVE  /\ UNCHANGED <<now, row, report, payload, sweeper>>
         /\ faults' \in 0..MaxFaults
         /\ \/ UNCHANGED <<status, code, redeemed, accepted>>
            \/ Writes(q) \/ Takes(q) \/ Marks(q)
  <1>t. faults \in 0..MaxFaults /\ MaxFaults \in Nat /\ req[q] \in RequestType
        /\ req = [p \in Requests |-> req[p]]
    BY LifecycleAssumption DEF TypeOK, RequestType, States
  <1>f. \A f : Fault(f) => faults' \in 0..MaxFaults
    BY <1>t DEF Fault
  <1>u. UNCHANGED <<now, row, report, payload, sweeper>>
    BY DEF Poll, CancelRequest, Arrive, Handle, NotFound, GetForClient, GetReport,
       GetDel, GetDelFails, MarkCodeRedeemed, ProcedureFails, ReplyLost, Respond,
       FetchFails, Cancel, DeleteEngineSession, valkey, row, sweeper
  <1>v. faults' = faults \/ \E f : Fault(f)
    BY DEF Poll, CancelRequest, Arrive, Handle, NotFound, GetForClient, GetReport,
       GetDel, GetDelFails, MarkCodeRedeemed, ProcedureFails, ReplyLost, Respond,
       FetchFails, Cancel, DeleteEngineSession
  <1>1. UNCHANGED <<now, row, report, payload, sweeper>> /\ faults' \in 0..MaxFaults
    BY <1>t, <1>f, <1>u, <1>v
  <1>r. PICK r \in RequestType : r = req[q] /\ r = Rebuilt(r)
    BY <1>t, Fields
  <1>2. CASE Poll(q) \/ CancelRequest(q) \/ NotFound(q) \/ GetReport(q)
             \/ ProcedureFails(q) \/ Respond(q) \/ FetchFails(q)
             \/ DeleteEngineSession(q)
    <2>1. UNCHANGED <<status, valkey, redeemed, accepted>>
      BY <1>2 DEF Poll, CancelRequest, Arrive, NotFound, GetReport, ProcedureFails,
          Respond, FetchFails, DeleteEngineSession
    <2>2. QED
      BY <1>1, <2>1 DEF valkey
  <1>3. CASE GetDel(q) \/ GetDelFails(q)
    <2>1. /\ req[q].step = "redeem" /\ UNCHANGED <<status, redeemed, accepted>>
          /\ code' = code \/ code' = [code EXCEPT ![req[q].code] = FALSE]
      BY <1>3 DEF GetDel, GetDelFails
    <2>2. QED
      BY <1>1, <2>1 DEF Takes
  <1>4. CASE MarkCodeRedeemed(q)
    <2>1. req'[q].step = "release"
      BY <1>4, <1>t, <1>r DEF MarkCodeRedeemed, Rebuilt
    <2>2. /\ req[q].step = "mark" /\ Redeem(req[q].sid)
          /\ UNCHANGED <<status, valkey>>
      BY <1>4 DEF MarkCodeRedeemed
    <2>3. QED
      BY <1>1, <2>1, <2>2 DEF Marks, valkey
  <1>5. CASE ReplyLost(q) /\ req[q].step = "mark"
    <2>1. req'[q].step = "done"
      BY <1>5, <1>t, <1>r DEF ReplyLost, Answer, Rebuilt
    <2>2. Redeem(req[q].sid) /\ UNCHANGED <<status, valkey>>
      BY <1>5 DEF ReplyLost
    <2>3. QED
      BY <1>1, <1>5, <2>1, <2>2 DEF Marks, valkey
  <1>6. CASE GetForClient(q) \/ Cancel(q) \/ (ReplyLost(q) /\ req[q].step # "mark")
    <2>1. /\ Write(q) /\ UNCHANGED <<code, redeemed, accepted>>
          /\ req[q].step \in {"get", "cancel"}
      BY <1>6 DEF GetForClient, Cancel, ReplyLost, valkey
    <2>2. req[q].sid \in Sessions
      BY <2>1 DEF Knows
    <2>3. QED
      BY <1>1, <2>1, <2>2, WriteEffect
  <1>7. QED
    BY <1>1, <1>2, <1>3, <1>4, <1>5, <1>6 DEF Handle

-----------------------------------------------------------------------------
(* What never goes back *)

\* An existing row keeps its owner and flow, a finished one its status; reports,
\* redemptions and hand-offs stay, and a code that was taken never comes back.
Grows(s) ==
    /\ status[s] # "absent" =>
          status'[s] # "absent" /\ owner'[s] = owner[s] /\ flow'[s] = flow[s]
    /\ status[s] \in Terminal => status'[s] = status[s]
    /\ report[s] => report'[s]
    /\ redeemed[s] => redeemed'[s]
    /\ payload[s] # "none" => payload'[s] # "none" /\ (~code[s] => ~code'[s])

LEMMA GrowsRequest ==
  ASSUME TypeOK, NEW q \in Requests, Knows(req[q]), NEW s \in Sessions,
         Poll(q) \/ CancelRequest(q) \/ Handle(q)
  PROVE  Grows(s)
  <1>t. /\ status \in [Sessions -> Open \cup Terminal \cup {"absent"}]
        /\ code \in [Sessions -> BOOLEAN] /\ redeemed \in [Sessions -> BOOLEAN]
    BY DEF TypeOK
  <1>1. /\ UNCHANGED <<owner, flow, report, payload>>
        /\ \/ UNCHANGED <<status, code, redeemed, accepted>>
           \/ Writes(q) \/ Takes(q) \/ Marks(q)
    BY RequestEffect DEF row
  <1>2. CASE UNCHANGED <<status, code, redeemed, accepted>>
    BY <1>1, <1>2 DEF Grows
  <1>3. CASE Writes(q)
    BY <1>t, <1>1, <1>3 DEF Writes, Grows, Terminal, Open
  <1>4. CASE Takes(q)
    BY <1>t, <1>1, <1>4 DEF Takes, Grows
  <1>5. CASE Marks(q)
    BY <1>t, <1>1, <1>5 DEF Marks, Redeem, Grows
  <1>6. QED
    BY <1>1, <1>2, <1>3, <1>4, <1>5

LEMMA GrowsCore ==
  ASSUME TypeOK, NEW s \in Sessions, NEW t \in Sessions, RowOK(t), Core(t)
  PROVE  Grows(s)
  <1>t. /\ status \in [Sessions -> Open \cup Terminal \cup {"absent"}]
        /\ code \in [Sessions -> BOOLEAN] /\ report \in [Sessions -> BOOLEAN]
        /\ owner \in [Sessions -> Clients \cup {None}]
        /\ flow \in [Sessions -> Flows \cup {None}]
        /\ payload \in [Sessions -> {"none", "live", "gone"}]
    BY DEF TypeOK
  <1>1. CASE Create(t)
    BY <1>t, <1>1 DEF Create, Grows, valkey, Terminal
  <1>2. CASE Engage(t)
    BY <1>t, <1>2 DEF Engage, Grows, valkey, row, Terminal
  <1>3. CASE SaveReport(t)
    BY <1>t, <1>3 DEF SaveReport, Grows, valkey, row
  <1>4. CASE Complete(t)
    BY <1>t, <1>4 DEF Complete, Grows, valkey, row, Terminal
  <1>5. CASE HandOff(t)
    BY <1>t, <1>5 DEF HandOff, Grows, row
  <1>6. CASE PayloadExpires(t)
    BY <1>t, <1>6 DEF PayloadExpires, Grows, row
  <1>7. QED
    BY <1>1, <1>2, <1>3, <1>4, <1>5, <1>6 DEF Core

\* The sweeper writes nothing of a session but the status of due ones.
LEMMA SweepEffect ==
  ASSUME TypeOK, NEW w \in Sweepers, Sweep(w) \/ SweeperCrash(w)
  PROVE  /\ UNCHANGED <<now, row, report, redeemed, valkey, req, accepted>>
         /\ \/ UNCHANGED status
            \/ \E due \in SUBSET Sessions : Expire(due)
         /\ faults' \in 0..MaxFaults
  <1>t. faults \in 0..MaxFaults /\ MaxFaults \in Nat
    BY LifecycleAssumption DEF TypeOK
  <1>1. CASE ExpireDue(w)
    BY <1>1, <1>t DEF ExpireDue, Expire
  <1>2. CASE ExpireDueFails(w)
    <2>1. /\ UNCHANGED <<now, row, report, redeemed, valkey, req, accepted>>
          /\ faults' = faults + 1 /\ faults < MaxFaults
      BY <1>2 DEF ExpireDueFails, Fault
    <2>2. status' = status \/ \E due \in SUBSET Sessions : Expire(due)
      BY <1>2 DEF ExpireDueFails, Expire
    <2>3. QED
      BY <1>t, <2>1, <2>2
  <1>3. CASE Notify(w) \/ SweeperCrash(w)
    BY <1>3, <1>t DEF Notify, SweeperCrash, Fault
  <1>4. QED
    BY <1>1, <1>2, <1>3 DEF Sweep

LEMMA GrowsSweep ==
  ASSUME TypeOK, NEW s \in Sessions, NEW w \in Sweepers, Sweep(w) \/ SweeperCrash(w)
  PROVE  Grows(s)
  <1>t. status \in [Sessions -> Open \cup Terminal \cup {"absent"}]
    BY DEF TypeOK
  <1>1. UNCHANGED <<owner, flow, report, redeemed, code, payload>>
    BY SweepEffect DEF row, valkey
  <1>2. status'[s] = status[s] \/ (status[s] \in Open /\ status'[s] = "expired")
    BY <1>t, SweepEffect DEF Expire, IsDue
  <1>3. QED
    BY <1>1, <1>2 DEF Grows, Open, Terminal

LEMMA GrowsNext ==
  ASSUME Inv, [Next]_vars, NEW s \in Sessions PROVE Grows(s)
  <1>1. CASE Clock
    BY <1>1 DEF Clock, Grows, row, valkey
  <1>2. CASE \E t \in Sessions : Core(t)
    BY <1>2, GrowsCore DEF Inv
  <1>3. CASE \E q \in Requests : Poll(q) \/ CancelRequest(q) \/ Handle(q)
    BY <1>3, GrowsRequest DEF Inv
  <1>4. CASE \E w \in Sweepers : Sweep(w) \/ SweeperCrash(w)
    BY <1>4, GrowsSweep DEF Inv
  <1>5. CASE UNCHANGED vars
    BY <1>5 DEF vars, Grows, row, valkey
  <1>6. QED
    BY <1>1, <1>2, <1>3, <1>4, <1>5 DEF Next

\* So what a request knows stays so, whoever moves.
LEMMA KnowsKept ==
  ASSUME NEW r \in RequestType, Knows(r), \A s \in Sessions : Grows(s)
  PROVE  Knows(r)'
  <1>1. CASE r.step = "idle"
    BY <1>1 DEF Knows, Outcomes
  <1>2. CASE r.step # "idle"
    <2>1. r.sid \in Sessions /\ Grows(r.sid)
      BY <1>2 DEF Knows
    <2>2. QED
      BY <1>2, <2>1 DEF Knows, Grows, Outcomes, Terminal
  <1>3. QED
    BY <1>1, <1>2

LEMMA RequestsKept ==
  ASSUME req \in [Requests -> RequestType], \A q \in Requests : Knows(req[q]),
         \A s \in Sessions : Grows(s), req' = req
  PROVE  \A q \in Requests : Knows(req[q])'
  <1> SUFFICES ASSUME NEW q \in Requests PROVE Knows(req[q])'
    OBVIOUS
  <1>1. PICK r \in RequestType : r = req[q]
    OBVIOUS
  <1>2. Knows(r)'
    BY <1>1, KnowsKept
  <1>3. QED
    BY <1>1, <1>2 DEF Knows

-----------------------------------------------------------------------------
(* What a step of a request does to the request *)

LEMMA RequestStep ==
  ASSUME Inv, NEW q \in Requests, Poll(q) \/ CancelRequest(q) \/ Handle(q)
  PROVE  /\ req' = [req EXCEPT ![q] = req'[q]]
         /\ req'[q] \in RequestType
         /\ Knows(req[q])'
         /\ req'[q].step = "mark" =>
               /\ req[q].step = "redeem" /\ req'[q].sid = req[q].sid
               /\ req[q].code = req[q].sid /\ code[req[q].sid]
  <1>t. req \in [Requests -> RequestType]
    BY DEF Inv, TypeOK, RequestType, States
  <1>r. PICK r \in RequestType : r = req[q] /\ r = Rebuilt(r) /\ FieldsOK(r) /\ Knows(r)
    BY <1>t, Fields DEF Inv
  <1>x. PICK x : x = req'[q]
    OBVIOUS
  <1>g. \A s \in Sessions : Grows(s)
    BY GrowsRequest DEF Inv
  <1>k. Knows(r)'
    BY <1>r, <1>g, KnowsKept
  <1> DEFINE Goal == /\ req' = [req EXCEPT ![q] = x]
                     /\ x \in RequestType /\ Knows(x)'
                     /\ x.step = "mark" =>
                           /\ r.step = "redeem" /\ x.sid = r.sid
                           /\ r.code = r.sid /\ code[r.sid]
  <1> HIDE DEF Goal
  <1>1. ASSUME Poll(q) \/ CancelRequest(q) PROVE Goal
    <2>1. PICK step \in {"get", "cancel"}, c \in Clients, s \in Sessions,
               k \in Sessions \cup {None} :
             req' = [req EXCEPT ![q] = [Idle EXCEPT !.step = step, !.client = c,
                                                    !.sid = s, !.code = k]]
      BY <1>1 DEF Poll, CancelRequest, Arrive
    <2>2. x = [Idle EXCEPT !.step = step, !.client = c, !.sid = s, !.code = k]
      BY <2>1, <1>t, <1>x
    <2>3. req' = [req EXCEPT ![q] = x]
      BY <2>1, <2>2
    <2>4. /\ x.step \in {"get", "cancel"} /\ x.client \in Clients
          /\ x.sid \in Sessions /\ x.code \in Sessions \cup {None}
          /\ x.status = "absent" /\ ~x.redeemed /\ x.redeemed \in BOOLEAN
          /\ x.report \in BOOLEAN /\ x.result \in BOOLEAN /\ x.http = 0
      BY <2>1, <2>2 DEF Idle
    <2>5. x = Rebuilt(x)
      BY <2>2 DEF Idle, Rebuilt
    <2>6. FieldsOK(x) /\ x.step # "mark"
      BY <2>4 DEF FieldsOK, Steps, States
    <2>7. Knows(x)'
      BY <2>1, <2>2 DEF Idle, Knows, Outcomes
    <2>8. x \in RequestType
      BY <2>5, <2>6, Fields
    <2>9. QED
      BY <2>3, <2>6, <2>7, <2>8 DEF Goal
  \* Whatever ends the request keeps what it knows, but for a 200 or a result.
  <1>2. ASSUME NEW h \in {204, 404, 409, 500}, r.step # "idle",
               Answer(q, h)
        PROVE  Goal
    <2>1. x = [r EXCEPT !.step = "done", !.http = h] /\ req' = [req EXCEPT ![q] = x]
      BY <1>2, <1>t, <1>r, <1>x DEF Answer
    <2>2. x = Rebuilt(x)
      BY <1>r, <2>1 DEF Rebuilt
    <2>3. FieldsOK(x) /\ x.step # "mark"
      BY <1>2, <1>r, <2>1 DEF Rebuilt, FieldsOK, Steps
    <2>4. Knows(x)'
      BY <1>r, <1>k, <1>2, <2>1 DEF Rebuilt, Knows
    <2>5. QED
      BY <2>1, <2>2, <2>3, <2>4, Fields DEF Goal
  <1>3. ASSUME GetForClient(q) PROVE Goal
    <2>1. /\ x = [r EXCEPT !.step = "report", !.status = Status(r.sid),
                           !.redeemed = redeemed[r.sid]]
          /\ req' = [req EXCEPT ![q] = x]
          /\ r.step = "get" /\ status[r.sid] # "absent" /\ owner[r.sid] = r.client
          /\ Write(q) /\ redeemed' = redeemed
      BY <1>3, <1>t, <1>r, <1>x DEF GetForClient, Visible
    <2>2. /\ r.sid \in Sessions /\ redeemed[r.sid] \in BOOLEAN /\ Grows(r.sid)
          /\ status \in [Sessions -> States]
      BY <1>r, <1>g, <2>1 DEF Knows, Inv, TypeOK, States
    <2>3. Status(r.sid) \in States /\ status'[r.sid] = Status(r.sid)
      BY <1>r, <2>1, <2>2 DEF Write, Status, States, Open, Terminal
    <2>4. x = Rebuilt(x)
      BY <1>r, <2>1 DEF Rebuilt
    <2>5. FieldsOK(x)
      BY <1>r, <2>1, <2>2, <2>3 DEF Rebuilt, FieldsOK, Steps
    <2>6. Knows(x)'
      BY <1>r, <2>1, <2>2, <2>3 DEF Rebuilt, Knows, Grows
    <2>7. QED
      BY <2>1, <2>4, <2>5, <2>6, Fields DEF Goal
  <1>4. ASSUME GetReport(q) PROVE Goal
    <2>1. /\ x = [r EXCEPT !.step = IF Redeems(r) THEN "redeem" ELSE "release",
                           !.report = report[r.sid]]
          /\ req' = [req EXCEPT ![q] = x]
          /\ r.step = "report" /\ UNCHANGED <<status, flow>>
      BY <1>4, <1>t, <1>r, <1>x DEF GetReport, row
    <2>2. /\ r.sid \in Sessions /\ report[r.sid] \in BOOLEAN
          /\ r.status \in Outcomes => report[r.sid]
      BY <1>r, <2>1 DEF Knows, Inv, TypeOK, RowOK
    <2>3. x = Rebuilt(x)
      BY <1>r, <2>1 DEF Rebuilt
    <2>4. FieldsOK(x)
      BY <1>r, <2>1, <2>2 DEF Rebuilt, FieldsOK, Steps
    <2>5. Redeems(r) => r.code \in Sessions /\ flow'[r.sid] = "same_device"
      BY <1>r, <2>1 DEF Redeems, FieldsOK
    <2>6. Knows(x)'
      BY <1>r, <1>k, <2>1, <2>2, <2>5 DEF Rebuilt, Knows
    <2>7. QED
      BY <2>1, <2>3, <2>4, <2>6, Fields DEF Goal
  <1>5. ASSUME GetDel(q) PROVE Goal
    <2>1. PICK found \in BOOLEAN :
             /\ found <=> code[r.code] /\ r.code = r.sid
             /\ x = [r EXCEPT !.step = IF found THEN "mark" ELSE "release"]
             /\ req' = [req EXCEPT ![q] = x]
             /\ r.step = "redeem"
             /\ code' = [code EXCEPT ![r.code] = FALSE] /\ payload' = payload
      BY <1>5, <1>t, <1>r, <1>x DEF GetDel, Advance
    <2>2. r.sid \in Sessions /\ code \in [Sessions -> BOOLEAN]
      BY <1>r, <2>1 DEF Knows, Inv, TypeOK
    <2>3. found => ~code'[r.sid] /\ payload'[r.sid] # "none"
      BY <2>1, <2>2 DEF Inv, RowOK
    <2>4. x = Rebuilt(x)
      BY <1>r, <2>1 DEF Rebuilt
    <2>5. FieldsOK(x)
      BY <1>r, <2>1 DEF Rebuilt, FieldsOK, Steps
    <2>6. Knows(x)'
      BY <1>r, <1>k, <2>1, <2>3 DEF Rebuilt, Knows
    <2>7. QED
      BY <1>r, <2>1, <2>4, <2>5, <2>6, Fields DEF Goal, Rebuilt
  <1>6. ASSUME MarkCodeRedeemed(q) PROVE Goal
    <2>1. /\ x = [r EXCEPT !.step = "release", !.redeemed = TRUE]
          /\ req' = [req EXCEPT ![q] = x]
          /\ r.step = "mark" /\ Redeem(r.sid)
      BY <1>6, <1>t, <1>r, <1>x DEF MarkCodeRedeemed
    <2>2. redeemed'[r.sid]
      BY <1>r, <2>1 DEF Redeem, Knows, Inv, TypeOK
    <2>3. x = Rebuilt(x)
      BY <1>r, <2>1 DEF Rebuilt
    <2>4. FieldsOK(x)
      BY <1>r, <2>1 DEF Rebuilt, FieldsOK, Steps
    <2>5. Knows(x)'
      BY <1>r, <1>k, <2>1, <2>2 DEF Rebuilt, Knows
    <2>6. QED
      BY <2>1, <2>3, <2>4, <2>5, Fields DEF Goal
  <1>7. ASSUME Respond(q) PROVE Goal
    <2>a. PICK released :
             released = (Releasable(q) /\ payload[req[q].sid] = "live")
      OBVIOUS
    <2>b. /\ req' = [req EXCEPT ![q] = [@ EXCEPT !.step = "done", !.http = 200,
                                                !.result = released]]
          /\ r.step = "release" /\ flow' = flow
      BY <1>7, <1>r, <2>a DEF Respond, row
    <2>c. x = [r EXCEPT !.step = "done", !.http = 200, !.result = released]
      BY <1>t, <1>r, <1>x, <2>b
    <2>d. req' = [req EXCEPT ![q] = x]
      BY <1>r, <2>b, <2>c
    <2>1. /\ released \in BOOLEAN
          /\ released => r.status = "verified"
          /\ released /\ flow[r.sid] = "same_device" => r.redeemed
          /\ x = [r EXCEPT !.step = "done", !.http = 200, !.result = released]
          /\ req' = [req EXCEPT ![q] = x]
          /\ r.step = "release" /\ flow' = flow
      BY <1>r, <2>a, <2>b, <2>c, <2>d DEF Releasable
    <2>2. x = Rebuilt(x)
      BY <1>r, <2>1 DEF Rebuilt
    <2>3. FieldsOK(x)
      BY <1>r, <2>1 DEF Rebuilt, FieldsOK, Steps
    <2>4. Knows(x)'
      BY <1>r, <1>k, <2>1 DEF Rebuilt, Knows
    <2>5. QED
      BY <2>1, <2>2, <2>3, <2>4, Fields DEF Goal
  <1>8. ASSUME Cancel(q) PROVE Goal
    <2>1. CASE Answer(q, 409)
      <3>1. r.step # "idle"
        BY <1>8, <1>r DEF Cancel
      <3>2. QED
        BY <1>2, <2>1, <3>1
    <2>2. CASE Advance(q, "delete")
      <3>1. /\ x = [r EXCEPT !.step = "delete"]
            /\ req' = [req EXCEPT ![q] = x]
            /\ r.step = "cancel"
        BY <1>8, <2>2, <1>t, <1>r, <1>x DEF Cancel, Advance
      <3>2. x = Rebuilt(x)
        BY <1>r, <3>1 DEF Rebuilt
      <3>3. FieldsOK(x)
        BY <1>r, <3>1 DEF Rebuilt, FieldsOK, Steps
      <3>4. Knows(x)'
        BY <1>r, <1>k, <3>1 DEF Rebuilt, Knows
      <3>5. QED
        BY <3>1, <3>2, <3>3, <3>4, Fields DEF Goal
    <2>3. QED
      BY <1>8, <2>1, <2>2 DEF Cancel
  <1>9. ASSUME NotFound(q) \/ GetDelFails(q) \/ ProcedureFails(q) \/ ReplyLost(q)
                 \/ FetchFails(q) \/ DeleteEngineSession(q)
        PROVE  Goal
    <2>1. PICK h \in {204, 404, 409, 500} : Answer(q, h) /\ r.step # "idle"
      BY <1>9, <1>r DEF NotFound, GetDelFails, ProcedureFails, ReplyLost, FetchFails,
         DeleteEngineSession
    <2>2. QED
      BY <1>2, <2>1
  <1>10. Goal
    BY <1>1, <1>3, <1>4, <1>5, <1>6, <1>7, <1>8, <1>9 DEF Handle
  <1>11. Knows(req[q])'
    <2>1. Knows(x)' => Knows(req[q])'
      BY <1>x DEF Knows
    <2>2. QED
      BY <1>10, <2>1 DEF Goal
  <1>12. QED
    BY <1>10, <1>11, <1>r, <1>x DEF Goal

-----------------------------------------------------------------------------
(* The invariant is inductive *)

\* The types of the shared state, without the requests and the batches.
Typed ==
    /\ status \in [Sessions -> States]
    /\ owner \in [Sessions -> Clients \cup {None}]
    /\ flow \in [Sessions -> Flows \cup {None}]
    /\ webhook \in [Sessions -> BOOLEAN]
    /\ expiresAt \in [Sessions -> 0..MaxTime]
    /\ report \in [Sessions -> BOOLEAN]
    /\ redeemed \in [Sessions -> BOOLEAN]
    /\ code \in [Sessions -> BOOLEAN]
    /\ payload \in [Sessions -> {"none", "live", "gone"}]
    /\ notices \in [Sessions -> Nat]
    /\ accepted \in [Sessions -> Nat]

BatchType ==
    /\ batch \in [Sweepers -> SUBSET Sessions]
    /\ \A w \in Sweepers : Cardinality(batch[w]) <= Limit

LEMMA TypeParts ==
  TypeOK <=> /\ now \in 0..MaxTime /\ faults \in 0..MaxFaults
             /\ req \in [Requests -> RequestType] /\ Typed /\ BatchType
  BY DEF TypeOK, Typed, BatchType, RequestType, States

\* Only the sweepers write batch and notices.
LEMMA BatchesKept ==
  ASSUME BatchesOK, UNCHANGED sweeper,
         \A s \in Sessions : status[s] \in Terminal => status'[s] = status[s],
         BatchType
  PROVE  BatchesOK'
  <1>1. UNCHANGED <<batch, notices>>
    BY DEF sweeper
  <1>2. ASSUME NEW w \in Sweepers, NEW s \in batch[w]
        PROVE  status'[s] = "expired" /\ notices[s] = 0
    BY <1>2 DEF BatchesOK, BatchType, Terminal
  <1>3. QED
    BY <1>1, <1>2 DEF BatchesOK

LEMMA RequestRows ==
  ASSUME Inv, NEW q \in Requests, Poll(q) \/ CancelRequest(q) \/ Handle(q)
  PROVE  /\ Typed' /\ OneRedeemer'
         /\ \A s \in Sessions : RowOK(s)'
  <1>t. Typed
    BY TypeParts DEF Inv
  <1>1. /\ UNCHANGED <<owner, flow, webhook, expiresAt, report, payload, notices>>
        /\ \/ UNCHANGED <<status, code, redeemed, accepted>>
           \/ Writes(q) \/ Takes(q) \/ Marks(q)
    BY RequestEffect DEF Inv, row, sweeper
  <1>2. /\ req' = [req EXCEPT ![q] = req'[q]]
        /\ req'[q].step = "mark" =>
              /\ req[q].step = "redeem" /\ req'[q].sid = req[q].sid
              /\ req[q].code = req[q].sid /\ code[req[q].sid]
    BY RequestStep
  <1>3. \A p \in Requests : p # q => req'[p] = req[p]
    <2>1. req = [p \in Requests |-> req[p]]
      BY DEF Inv, TypeOK
    <2>2. QED
      BY <1>2, <2>1
  <1>4. req[q].step \in {"redeem", "mark"} => req[q].sid \in Sessions
    BY DEF Inv, Knows
  <1>5. req'[q].step = "mark" => accepted[req[q].sid] = 0
    BY <1>2, <1>4 DEF Inv, RowOK
  <1>6. ASSUME req'[q].step = "mark", NEW p \in Requests, p # q
        PROVE  ~(req[p].step = "mark" /\ req[p].sid = req[q].sid)
    BY <1>2, <1>6 DEF Inv, Knows
  <1>7. ASSUME ~Marks(q) PROVE OneRedeemer'
    <2>1. accepted' = accepted
      BY <1>1, <1>7 DEF Writes, Takes
    <2>2. QED
      BY <1>2, <1>3, <1>5, <1>6, <2>1 DEF Inv, OneRedeemer
  <1>8. ASSUME Marks(q) PROVE OneRedeemer'
    <2>1. req[q].step = "mark" /\ req'[q].step # "mark"
      BY <1>8 DEF Marks
    <2>2. \A p \in Requests : req'[p].step = "mark" =>
             p # q /\ req'[p] = req[p] /\ req[p].sid # req[q].sid /\ req[p].sid \in Sessions
      BY <1>3, <2>1 DEF Inv, OneRedeemer, Knows
    <2>3. \A s \in Sessions : s # req[q].sid => accepted'[s] = accepted[s]
      BY <1>8, <1>t DEF Marks, Redeem, Typed
    <2>4. QED
      BY <2>2, <2>3 DEF Inv, OneRedeemer
  <1>9. ASSUME ~Marks(q) PROVE Typed' /\ \A s \in Sessions : RowOK(s)'
    <2>1. CASE UNCHANGED <<status, code, redeemed, accepted>>
      BY <1>1, <1>t, <2>1 DEF Typed, Inv, RowOK
    <2>2. CASE Writes(q)
      <3>1. PICK t \in Sessions, x \in {"expired", "cancelled"} :
               /\ status[t] \in Open /\ status' = [status EXCEPT ![t] = x]
               /\ UNCHANGED <<code, redeemed, accepted>>
        BY <2>2 DEF Writes
      <3>2. Typed'
        BY <1>1, <1>t, <3>1 DEF Typed, States, Terminal
      <3>3. QED
        BY <1>1, <1>t, <3>1, <3>2 DEF Typed, Inv, RowOK, Open, Outcomes
    <2>3. CASE Takes(q)
      BY <1>1, <1>t, <2>3 DEF Takes, Typed, Inv, RowOK
    <2>4. QED
      BY <1>1, <1>9, <2>1, <2>2, <2>3
  <1>10. ASSUME Marks(q) PROVE Typed' /\ \A s \in Sessions : RowOK(s)'
    <2>1. PICK t \in Sessions :
             /\ accepted[t] = 0 /\ payload[t] # "none" /\ ~code[t]
             /\ redeemed' = [redeemed EXCEPT ![t] = TRUE]
             /\ accepted' = [accepted EXCEPT ![t] = @ + 1]
             /\ UNCHANGED <<status, code>>
      BY <1>4, <1>10 DEF Marks, Redeem, Inv, OneRedeemer, Knows
    <2>2. Typed'
      BY <1>1, <1>t, <2>1 DEF Typed
    <2>3. QED
      BY <1>1, <1>t, <2>1, <2>2 DEF Typed, Inv, RowOK
  <1>11. QED
    BY <1>7, <1>8, <1>9, <1>10

LEMMA RequestInv ==
  ASSUME Inv, NEW q \in Requests, Poll(q) \/ CancelRequest(q) \/ Handle(q)
  PROVE  Inv'
  <1>1. UNCHANGED <<now, sweeper>> /\ faults' \in 0..MaxFaults
    BY RequestEffect DEF Inv
  <1>2. Typed' /\ OneRedeemer' /\ \A s \in Sessions : RowOK(s)'
    BY RequestRows
  <1>3. req' = [req EXCEPT ![q] = req'[q]] /\ req'[q] \in RequestType /\ Knows(req[q])'
    BY RequestStep
  <1>t. req \in [Requests -> RequestType] /\ BatchType /\ now \in 0..MaxTime
    BY TypeParts DEF Inv
  <1>g. \A s \in Sessions : Grows(s)
    BY GrowsRequest DEF Inv
  <1>4. TypeOK'
    <2>1. req' \in [Requests -> RequestType]
      BY <1>3, <1>t
    <2>2. BatchType'
      BY <1>1, <1>t DEF BatchType, sweeper
    <2>3. QED
      BY <1>1, <1>2, <1>t, <2>1, <2>2
      DEF TypeOK, Typed, BatchType, RequestType, States
  <1>5. BatchesOK'
    BY <1>1, <1>t, <1>g, BatchesKept DEF Inv, Grows
  <1>6. ASSUME NEW p \in Requests PROVE Knows(req[p])'
    <2>1. CASE p = q
      BY <1>3, <2>1
    <2>2. CASE p # q
      <3>1. PICK r \in RequestType : r = req[p]
        BY <1>t
      <3>2. req'[p] = r
        BY <1>3, <1>t, <2>2, <3>1
      <3>3. Knows(r)'
        BY <1>g, <3>1, KnowsKept DEF Inv
      <3>4. QED
        BY <3>2, <3>3 DEF Knows
    <2>3. QED
      BY <2>1, <2>2
  <1>7. QED
    BY <1>2, <1>4, <1>5, <1>6 DEF Inv

LEMMA CoreInv ==
  ASSUME Inv, NEW t \in Sessions, Core(t)
  PROVE  Inv'
  <1>t. /\ now \in 0..MaxTime /\ faults \in 0..MaxFaults
        /\ req \in [Requests -> RequestType] /\ Typed /\ BatchType
    BY TypeParts DEF Inv
  <1>g. \A s \in Sessions : Grows(s)
    BY GrowsCore DEF Inv
  <1>1. UNCHANGED <<now, faults, req, redeemed, accepted, sweeper>>
    BY DEF Core, Create, Engage, SaveReport, Complete, HandOff, PayloadExpires
  <1>2. Typed' /\ \A s \in Sessions : RowOK(s)'
    <2>u. UNCHANGED <<redeemed, accepted, notices>>
      BY <1>1 DEF sweeper
    <2>r. RowOK(t)
      BY DEF Inv
    <2>1. CASE Create(t)
      <3>1. PICK c \in Clients, f \in Flows, h \in BOOLEAN :
               /\ status[t] = "absent" /\ now + TTL <= MaxTime
               /\ status' = [status EXCEPT ![t] = "pending"]
               /\ owner' = [owner EXCEPT ![t] = c]
               /\ flow' = [flow EXCEPT ![t] = f]
               /\ webhook' = [webhook EXCEPT ![t] = h]
               /\ expiresAt' = [expiresAt EXCEPT ![t] = now + TTL]
               /\ UNCHANGED <<report, code, payload>>
        BY <2>1, LifecycleAssumption DEF Create, valkey
      <3>2. now + TTL \in 0..MaxTime
        BY <3>1, <1>t, LifecycleAssumption
      <3>3. Typed'
        BY <1>t, <2>u, <3>1, <3>2 DEF Typed, States, Open
      <3>4. QED
        BY <1>t, <2>u, <2>r, <3>1, <3>3 DEF Typed, Inv, RowOK, Outcomes
    <2>2. CASE Engage(t) \/ Complete(t)
      <3>1. PICK x \in {"wallet_engaged"} \cup Outcomes :
               /\ status' = [status EXCEPT ![t] = x]
               /\ status[t] \in Open /\ (x \in Outcomes => report[t])
               /\ UNCHANGED <<owner, flow, webhook, expiresAt, report, code, payload>>
        BY <2>2 DEF Engage, Complete, Open, Outcomes, row, valkey
      <3>2. Typed'
        BY <1>t, <2>u, <3>1 DEF Typed, States, Open, Terminal, Outcomes
      <3>3. QED
        BY <1>t, <2>u, <2>r, <3>1, <3>2 DEF Typed, Inv, RowOK, Outcomes, Open
    <2>3. CASE SaveReport(t)
      <3>1. /\ report' = [report EXCEPT ![t] = TRUE]
            /\ UNCHANGED <<status, owner, flow, webhook, expiresAt, code, payload>>
        BY <2>3 DEF SaveReport, row, valkey
      <3>2. QED
        BY <1>t, <2>u, <3>1 DEF Typed, Inv, RowOK
    <2>4. CASE HandOff(t)
      <3>1. PICK b \in BOOLEAN :
               /\ status[t] \in Outcomes /\ payload[t] = "none"
               /\ payload' = [payload EXCEPT ![t] = "live"]
               /\ code' = [code EXCEPT ![t] = b]
               /\ UNCHANGED <<status, owner, flow, webhook, expiresAt, report>>
        BY <2>4 DEF HandOff, Outcomes, row
      <3>2. Typed'
        BY <1>t, <2>u, <3>1 DEF Typed
      <3>3. QED
        BY <1>t, <2>u, <2>r, <3>1, <3>2 DEF Typed, Inv, RowOK
    <2>5. CASE PayloadExpires(t)
      <3>1. /\ payload[t] = "live"
            /\ payload' = [payload EXCEPT ![t] = "gone"]
            /\ code' = [code EXCEPT ![t] = FALSE]
            /\ UNCHANGED <<status, owner, flow, webhook, expiresAt, report>>
        BY <2>5 DEF PayloadExpires, row
      <3>2. Typed'
        BY <1>t, <2>u, <3>1 DEF Typed
      <3>3. QED
        BY <1>t, <2>u, <2>r, <3>1, <3>2 DEF Typed, Inv, RowOK
    <2>6. QED
      BY <2>1, <2>2, <2>3, <2>4, <2>5 DEF Core
  <1>3. TypeOK'
    BY <1>t, <1>1, <1>2 DEF TypeOK, Typed, BatchType, RequestType, States, sweeper
  <1>4. BatchesOK'
    BY <1>1, <1>t, <1>g, BatchesKept DEF Inv, Grows
  <1>5. OneRedeemer'
    BY <1>1 DEF Inv, OneRedeemer
  <1>6. \A q \in Requests : Knows(req[q])'
    BY <1>1, <1>t, <1>g, RequestsKept DEF Inv
  <1>7. QED
    BY <1>2, <1>3, <1>4, <1>5, <1>6 DEF Inv

\* Never more than Limit rows in one statement.
LEMMA BatchBound ==
  ASSUME NEW due \in kSubset(BatchSize, {s \in Sessions : IsDue(s)})
  PROVE  due \subseteq {s \in Sessions : IsDue(s)} /\ Cardinality(due) <= Limit
  <1> DEFINE D == {s \in Sessions : IsDue(s)}
  <1>1. IsFiniteSet(D)
    BY LifecycleAssumption, FS_Subset
  <1>2. Cardinality(D) \in Nat /\ Limit \in Nat
    BY <1>1, FS_CardinalityType, LifecycleAssumption
  <1>3. ASSUME NEW n \in Nat PROVE Min({Limit, n}) <= Limit /\ Min({Limit, n}) \in Nat
    <2>1. \E x \in {Limit, n} : \A y \in {Limit, n} : x <= y
      BY <1>2
    <2>2. Min({Limit, n}) \in {Limit, n} /\ \A y \in {Limit, n} : Min({Limit, n}) <= y
      BY <2>1 DEF Min
    <2>3. QED
      BY <1>2, <2>2
  <1>4. BatchSize <= Limit
    BY <1>2, <1>3 DEF BatchSize
  <1>5. QED
    BY <1>4 DEF kSubset

LEMMA SweepInv ==
  ASSUME Inv, NEW w \in Sweepers, Sweep(w) \/ SweeperCrash(w)
  PROVE  Inv'
  <1>t. /\ now \in 0..MaxTime /\ faults \in 0..MaxFaults
        /\ req \in [Requests -> RequestType] /\ Typed /\ BatchType
    BY TypeParts DEF Inv
  <1>g. \A s \in Sessions : Grows(s)
    BY GrowsSweep DEF Inv
  <1>1. /\ UNCHANGED <<now, owner, flow, webhook, expiresAt, report, redeemed, code,
                       payload, req, accepted>>
        /\ faults' \in 0..MaxFaults
    BY SweepEffect DEF Inv, row, valkey
  <1>2. ASSUME NEW due \in SUBSET Sessions, Expire(due), UNCHANGED notices
        PROVE  Typed' /\ \A s \in Sessions : RowOK(s)'
    <2>1. \A s \in Sessions : status'[s] = status[s]
                              \/ (status[s] \in Open /\ status'[s] = "expired")
      BY <1>t, <1>2 DEF Expire, IsDue
    <2>2. Typed'
      BY <1>1, <1>2, <1>t DEF Expire, Typed, States, Terminal
    <2>3. QED
      BY <1>1, <1>2, <2>1, <2>2 DEF Inv, RowOK, Open, Outcomes
  <1>3. ASSUME UNCHANGED <<status, notices>>
        PROVE  Typed' /\ \A s \in Sessions : RowOK(s)'
    BY <1>1, <1>3, <1>t DEF Typed, Inv, RowOK
  <1> DEFINE Goal == /\ Typed' /\ \A s \in Sessions : RowOK(s)'
                     /\ BatchType' /\ BatchesOK'
  <1> HIDE DEF Goal
  <1>4. ASSUME ExpireDue(w) PROVE Goal
    <2>1. PICK due \in kSubset(BatchSize, {s \in Sessions : IsDue(s)}) :
             /\ batch[w] = {} /\ Expire(due) /\ batch' = [batch EXCEPT ![w] = due]
             /\ notices' = notices
      BY <1>4 DEF ExpireDue
    <2>2. /\ due \subseteq Sessions /\ Cardinality(due) <= Limit
          /\ \A s \in due : status[s] \in Open
      BY BatchBound DEF IsDue
    <2>3. BatchType'
      BY <1>t, <2>1, <2>2 DEF BatchType
    <2>4. BatchesOK'
      <3>1. \A v \in Sweepers : v # w => batch'[v] = batch[v] /\ due \cap batch[v] = {}
        BY <1>t, <2>1, <2>2 DEF BatchType, Inv, BatchesOK, Open
      <3>2. \A s \in due : status'[s] = "expired" /\ notices[s] = 0
        <4>1. \A s \in due : status'[s] = "expired"
          BY <2>1, <2>2 DEF Expire
        <4>2. \A s \in due : notices[s] = 0
          BY <1>t, <2>2 DEF Inv, RowOK, Typed, Open
        <4>3. QED
          BY <4>1, <4>2
      <3>3. \A s \in Sessions : status[s] = "expired" => status'[s] = "expired"
        BY <1>g DEF Grows, Terminal
      <3>4. batch'[w] = due
        BY <1>t, <2>1 DEF BatchType
      <3>5. QED
        BY <1>t, <2>1, <3>1, <3>2, <3>3, <3>4 DEF BatchType, Inv, BatchesOK
    <2>5. QED
      BY <1>2, <2>1, <2>2, <2>3, <2>4 DEF Goal
  <1>5. ASSUME ExpireDueFails(w) PROVE Goal
    <2>1. UNCHANGED <<batch, notices, sweeper>>
      BY <1>5 DEF ExpireDueFails, sweeper
    <2>2. status' = status \/ \E due \in SUBSET Sessions : Expire(due)
      BY SweepEffect DEF Inv
    <2>3. BatchType' /\ BatchesOK'
      BY <1>t, <1>g, <2>1, BatchesKept DEF BatchType, Inv, Grows
    <2>4. QED
      BY <1>2, <1>3, <2>1, <2>2, <2>3 DEF Goal
  <1>6. ASSUME Notify(w) PROVE Goal
    <2>1. PICK s \in batch[w] : \E n \in {notices[s], notices[s] + 1} :
             /\ batch' = [batch EXCEPT ![w] = @ \ {s}]
             /\ notices' = [notices EXCEPT ![s] = n]
             /\ status' = status
      BY <1>6 DEF Notify
    <2>n. PICK n \in {notices[s], notices[s] + 1} : notices' = [notices EXCEPT ![s] = n]
      BY <2>1
    <2>2. s \in Sessions /\ status[s] = "expired" /\ notices[s] = 0 /\ n \in {0, 1}
      BY <1>t, <2>1, <2>n DEF BatchType, Inv, BatchesOK
    <2>3. Typed'
      BY <1>1, <1>t, <2>1, <2>n, <2>2 DEF Typed
    <2>4. \A x \in Sessions : RowOK(x)'
      BY <1>1, <1>t, <2>1, <2>n, <2>2, <2>3 DEF Typed, Inv, RowOK
    <2>5. BatchType'
      <3>1. Cardinality(batch[w] \ {s}) <= Limit
        <4>1. IsFiniteSet(batch[w])
          BY <1>t, LifecycleAssumption, FS_Subset DEF BatchType
        <4>2. Cardinality(batch[w] \ {s}) = Cardinality(batch[w]) - 1
          BY <2>1, <2>n, <4>1, FS_RemoveElement
        <4>3. Cardinality(batch[w]) \in Nat /\ Cardinality(batch[w]) <= Limit
          BY <1>t, <4>1, FS_CardinalityType DEF BatchType
        <4>4. QED
          BY <4>2, <4>3, LifecycleAssumption
      <3>2. QED
        BY <1>t, <2>1, <2>n, <3>1 DEF BatchType
    <2>6. BatchesOK'
      <3>1. \A v \in Sweepers : batch'[v] \subseteq batch[v] /\ s \notin batch'[v]
        BY <1>t, <2>1, <2>n DEF BatchType, Inv, BatchesOK
      <3>2. \A v \in Sweepers : \A x \in batch'[v] : notices'[x] = notices[x]
        BY <1>t, <2>1, <2>n, <3>1 DEF BatchType, Typed
      <3>3. QED
        BY <2>1, <2>n, <3>1, <3>2 DEF Inv, BatchesOK
    <2>7. QED
      BY <2>3, <2>4, <2>5, <2>6 DEF Goal
  <1>7. ASSUME SweeperCrash(w) PROVE Goal
    <2>1. batch' = [batch EXCEPT ![w] = {}] /\ UNCHANGED <<status, notices>>
      BY <1>7 DEF SweeperCrash
    <2>2. BatchType'
      BY <1>t, <2>1, FS_EmptySet, LifecycleAssumption DEF BatchType
    <2>3. BatchesOK'
      BY <1>t, <2>1 DEF BatchType, Inv, BatchesOK
    <2>4. QED
      BY <1>3, <2>1, <2>2, <2>3 DEF Goal
  <1>8. Goal
    BY <1>4, <1>5, <1>6, <1>7 DEF Sweep
  <1>9. TypeOK'
    BY <1>t, <1>1, <1>8 DEF Goal, TypeOK, Typed, BatchType, RequestType, States
  <1>10. OneRedeemer'
    BY <1>1 DEF Inv, OneRedeemer
  <1>11. \A q \in Requests : Knows(req[q])'
    BY <1>1, <1>t, <1>g, RequestsKept DEF Inv
  <1>12. QED
    BY <1>8, <1>9, <1>10, <1>11 DEF Goal, Inv

LEMMA InvNext == Inv /\ [Next]_vars => Inv'
  <1> SUFFICES ASSUME Inv, [Next]_vars PROVE Inv'
    OBVIOUS
  <1>t. /\ now \in 0..MaxTime /\ faults \in 0..MaxFaults
        /\ req \in [Requests -> RequestType] /\ Typed /\ BatchType
    BY TypeParts DEF Inv
  <1>1. ASSUME now' \in 0..MaxTime,
               UNCHANGED <<status, row, report, redeemed, valkey, req, sweeper,
                           accepted, faults>>
        PROVE  Inv'
    <2>1. /\ UNCHANGED <<status, owner, flow, webhook, expiresAt, report, redeemed,
                         code, payload, req, batch, notices, accepted, faults>>
      BY <1>1 DEF row, valkey, sweeper
    <2>2. TypeOK'
      BY <1>1, <2>1 DEF Inv, TypeOK
    <2>3. QED
      BY <2>1, <2>2 DEF Inv, Knows, RowOK, OneRedeemer, BatchesOK
  <1>2. CASE Clock
    <2>1. now' \in 0..MaxTime
      BY <1>2, <1>t, LifecycleAssumption DEF Clock
    <2>2. QED
      BY <1>1, <1>2, <2>1 DEF Clock
  <1>3. CASE UNCHANGED vars
    BY <1>1, <1>3, <1>t DEF vars
  <1>4. QED
    BY <1>2, <1>3, RequestInv, CoreInv, SweepInv DEF Next

LEMMA InvAlways == Spec => []Inv
  BY InvInit, InvNext, PTL DEF Spec

-----------------------------------------------------------------------------
(* What the invariant says of a session *)

\* Every variable keeps its type; a sweeper never holds more than Limit sessions.
THEOREM TypeCorrect == Spec => []TypeOK
  <1>1. Inv => TypeOK
    BY DEF Inv
  <1>2. QED
    BY <1>1, InvAlways, PTL

\* A finished session keeps its status, whichever of verifier-core, polls,
\* cancels and sweepers reaches its row next.
THEOREM FinishedStays == Spec => TerminalIsForever
  <1>1. Inv /\ [Next]_vars =>
           [\A s \in Sessions : status[s] \in Terminal => status'[s] = status[s]]_vars
    BY GrowsNext DEF Grows
  <1>2. QED
    BY <1>1, InvAlways, PTL DEF Spec, TerminalIsForever

\* The report is read after the state, so an answer that says verified or failed
\* has it.
THEOREM OutcomesReported == Spec => []OutcomeHasReport
  <1>1. Inv => OutcomeHasReport
    BY DEF Inv, Knows, Outcomes, OutcomeHasReport
  <1>2. QED
    BY <1>1, InvAlways, PTL

\* Claim values leave for the owner of a verified session only and, in the
\* same-device flow, after its redemption only.
THEOREM ReleaseGated == Spec => []ReleaseNeedsRedemption
  <1> SUFFICES ASSUME Inv PROVE ReleaseNeedsRedemption
    BY InvAlways, PTL
  <1>1. ASSUME NEW q \in Requests, req[q].result
        PROVE  LET s == req[q].sid IN
               /\ status[s] = "verified" /\ owner[s] = req[q].client
               /\ flow[s] = "same_device" => redeemed[s] /\ ~code[s]
    <2>1. /\ req[q].status = "verified" /\ req[q].step # "idle"
          /\ flow[req[q].sid] = "same_device" => req[q].redeemed
      BY <1>1 DEF Inv, Knows
    <2>2. /\ req[q].sid \in Sessions
          /\ status[req[q].sid] = "verified" /\ owner[req[q].sid] = req[q].client
          /\ req[q].redeemed => redeemed[req[q].sid]
      BY <2>1 DEF Inv, Knows, Outcomes
    <2>3. redeemed[req[q].sid] => ~code[req[q].sid]
      BY <2>2 DEF Inv, RowOK
    <2>4. QED
      BY <2>1, <2>2, <2>3
  <1>2. QED
    BY <1>1 DEF ReleaseNeedsRedemption

\* Of any number of concurrent polls that present a code, at most one redeems it.
THEOREM CodesSingleUse == Spec => []CodeSingleUse
  <1>1. Inv => CodeSingleUse
    BY DEF Inv, RowOK, CodeSingleUse
  <1>2. QED
    BY <1>1, InvAlways, PTL

\* A session's client is told once of its expiry, and then never of a result.
THEOREM NoticesExclusive == Spec => []OneKindOfNotice
  <1>1. Inv => OneKindOfNotice
    BY DEF Inv, RowOK, Outcomes, OneKindOfNotice
  <1>2. QED
    BY <1>1, InvAlways, PTL

-----------------------------------------------------------------------------
(* A code is spent for its own session only *)

KeptInv == Inv /\ CodeKeptForItsSession

\* A request at the index or at the row works on a same-device session.
LEMMA CodeKeptRequest ==
  ASSUME KeptInv, Faults \cap {"call", "getdelAck"} = {}, NEW q \in Requests,
         Poll(q) \/ CancelRequest(q) \/ Handle(q),
         NEW s \in Sessions, flow'[s] = "same_device", payload'[s] = "live", ~code'[s],
         \A t \in Sessions \ {s} : flow'[t] # "same_device"
  PROVE  redeemed'[s] \/ \E p \in Requests : req'[p].step = "mark" /\ req'[p].sid = s
  <1>i. Inv
    BY DEF KeptInv
  <1>t. Typed /\ req \in [Requests -> RequestType]
    BY <1>i, TypeParts DEF Inv
  <1>1. /\ UNCHANGED <<flow, payload>>
        /\ \/ UNCHANGED <<status, code, redeemed, accepted>>
           \/ Writes(q) \/ Takes(q) \/ Marks(q)
    BY <1>i, RequestEffect DEF Inv, row
  <1>2. \A p \in Requests : p # q => req'[p] = req[p]
    BY <1>i, <1>t, RequestStep
  <1>3. CASE code[s]
    <2>1. Takes(q) /\ req[q].code = s
      BY <1>1, <1>3, <1>t DEF Typed, Writes, Takes, Marks
    <2>2. req[q].sid = s
      BY <1>1, <1>i, <2>1 DEF Takes, Inv, Knows
    <2>3. GetDel(q)
      <3>1. code' # code
        BY <1>3
      <3>2. GetDel(q) \/ GetDelFails(q)
        BY <3>1 DEF Poll, CancelRequest, Arrive, Handle, NotFound, GetForClient,
           GetReport, MarkCodeRedeemed, ProcedureFails, ReplyLost, Respond,
           FetchFails, Cancel, DeleteEngineSession, valkey
      <3>3. ~GetDelFails(q)
        BY <3>1 DEF GetDelFails, Fault
      <3>4. QED
        BY <3>2, <3>3
    <2>4. PICK r \in RequestType : r = req[q] /\ r = Rebuilt(r)
      BY <1>t, Fields
    <2>5. req' = [req EXCEPT ![q] = [r EXCEPT !.step = "mark"]]
      BY <1>3, <2>1, <2>2, <2>3, <2>4 DEF GetDel, Advance
    <2>6. req'[q].step = "mark" /\ req'[q].sid = s
      BY <1>t, <2>2, <2>4, <2>5 DEF Rebuilt
    <2>7. QED
      BY <2>6
  <1>4. CASE ~code[s] /\ redeemed[s]
    BY <1>1, <1>t, <1>4 DEF Typed, Writes, Takes, Marks, Redeem
  <1>5. CASE ~code[s] /\ ~redeemed[s]
    <2>1. PICK p \in Requests : req[p].step = "mark" /\ req[p].sid = s
      BY <1>1, <1>5 DEF KeptInv, CodeKeptForItsSession
    <2>2. CASE p # q
      BY <1>2, <2>1, <2>2
    <2>3. CASE p = q
      <3>1. Visible(q)
        BY <1>i, <2>1, <2>3 DEF Inv, Knows, Visible
      <3>2. ~NotFound(q) /\ ~ProcedureFails(q)
        BY <3>1 DEF NotFound, ProcedureFails, Fault
      <3>3. req[q].step \notin {"idle", "done", "get", "report", "redeem", "release",
                               "cancel", "delete"}
        BY <2>1, <2>3
      <3>4. MarkCodeRedeemed(q) \/ ReplyLost(q)
        BY <3>2, <3>3 DEF Poll, CancelRequest, Arrive, Handle, GetForClient, GetReport,
           GetDel, GetDelFails, Respond, FetchFails, Cancel, DeleteEngineSession
      <3>5. Redeem(s)
        BY <2>1, <2>3, <3>4 DEF MarkCodeRedeemed, ReplyLost
      <3>6. QED
        BY <1>t, <3>5 DEF Redeem, Typed
    <2>4. QED
      BY <2>2, <2>3
  <1>6. QED
    BY <1>3, <1>4, <1>5

LEMMA CodeKeptCore ==
  ASSUME KeptInv, NEW c \in Sessions, Core(c),
         NEW s \in Sessions, flow'[s] = "same_device", payload'[s] = "live", ~code'[s],
         \A t \in Sessions \ {s} : flow'[t] # "same_device"
  PROVE  redeemed'[s] \/ \E p \in Requests : req'[p].step = "mark" /\ req'[p].sid = s
  <1>i. Inv
    BY DEF KeptInv
  <1>t. Typed
    BY <1>i, TypeParts DEF Inv
  <1>1. UNCHANGED <<redeemed, req>>
    BY DEF Core, Create, Engage, SaveReport, Complete, HandOff, PayloadExpires
  <1>2. payload[s] = "live" /\ ~code[s]
    <2>1. CASE HandOff(c)
      BY <1>t, <2>1 DEF HandOff, row, Typed
    <2>2. CASE PayloadExpires(c)
      BY <1>t, <2>2 DEF PayloadExpires, Typed
    <2>3. CASE Create(c) \/ Engage(c) \/ SaveReport(c) \/ Complete(c)
      BY <2>3 DEF Create, Engage, SaveReport, Complete, valkey
    <2>4. QED
      BY <2>1, <2>2, <2>3 DEF Core
  <1>3. \A t \in Sessions : flow[t] = "same_device" => flow'[t] = "same_device"
    <2>1. ASSUME NEW t \in Sessions, flow[t] = "same_device" PROVE flow'[t] = flow[t]
      <3>1. status[t] # "absent"
        BY <1>i, <2>1, LifecycleAssumption DEF Inv, RowOK
      <3>2. QED
        BY <1>i, <3>1, GrowsCore DEF Inv, Grows
    <2>2. QED
      BY <2>1
  <1>4. flow[s] = "same_device"
    <2>1. status[s] # "absent"
      BY <1>i, <1>2 DEF Inv, RowOK, Outcomes
    <2>2. QED
      BY <1>i, <2>1, GrowsCore DEF Inv, Grows
  <1>5. \A t \in Sessions \ {s} : flow[t] # "same_device"
    BY <1>3
  <1>6. QED
    BY <1>1, <1>2, <1>4, <1>5 DEF KeptInv, CodeKeptForItsSession

LEMMA CodeKeptNext ==
  Faults \cap {"call", "getdelAck"} = {} /\ KeptInv /\ [Next]_vars => KeptInv'
  <1> SUFFICES ASSUME Faults \cap {"call", "getdelAck"} = {}, KeptInv, [Next]_vars
               PROVE  KeptInv'
    OBVIOUS
  <1>i. Inv
    BY DEF KeptInv
  <1>1. CodeKeptForItsSession'
    <2>1. ASSUME NEW s \in Sessions, flow'[s] = "same_device", payload'[s] = "live",
                 ~code'[s], \A t \in Sessions \ {s} : flow'[t] # "same_device"
          PROVE  redeemed'[s] \/ \E p \in Requests : req'[p].step = "mark"
                                                     /\ req'[p].sid = s
      <3>1. ASSUME UNCHANGED <<flow, payload, code, redeemed, req>>
            PROVE  redeemed'[s] \/ \E p \in Requests : req'[p].step = "mark"
                                                       /\ req'[p].sid = s
        BY <2>1, <3>1 DEF KeptInv, CodeKeptForItsSession
      <3>2. CASE Clock \/ UNCHANGED vars
        BY <3>1, <3>2 DEF Clock, vars, row, valkey
      <3>3. CASE \E w \in Sweepers : Sweep(w) \/ SweeperCrash(w)
        BY <1>i, <3>1, <3>3, SweepEffect DEF Inv, row, valkey
      <3>4. CASE \E q \in Requests : Poll(q) \/ CancelRequest(q) \/ Handle(q)
        BY <2>1, <3>4, CodeKeptRequest
      <3>5. CASE \E c \in Sessions : Core(c)
        BY <2>1, <3>5, CodeKeptCore
      <3>6. QED
        BY <3>2, <3>3, <3>4, <3>5 DEF Next
    <2>2. QED
      BY <2>1 DEF CodeKeptForItsSession
  <1>2. QED
    BY <1>i, <1>1, InvNext DEF KeptInv

\* When no reply of a GETDEL is lost and no procedure errs, the code of the only
\* same-device session is spent by a poll of that session alone, however many
\* polls of other sessions present it.
THEOREM CodesKept ==
  ASSUME Faults \cap {"call", "getdelAck"} = {}
  PROVE  Spec => []CodeKeptForItsSession
  <1>1. Init => CodeKeptForItsSession
    BY DEF Init, CodeKeptForItsSession
  <1>2. Init => KeptInv
    BY <1>1, InvInit DEF KeptInv
  <1>3. KeptInv /\ [Next]_vars => KeptInv'
    BY CodeKeptNext
  <1>4. KeptInv => CodeKeptForItsSession
    BY DEF KeptInv
  <1>5. QED
    BY <1>2, <1>3, <1>4, PTL DEF Spec

-----------------------------------------------------------------------------
(* What a request tells its client *)

\* The end a request read is the row's, and whoever is to be told "deleted"
\* cancelled the session.
Reads(r) ==
    /\ r.status \in Terminal => r.sid \in Sessions /\ status[r.sid] = r.status
    /\ r.step = "delete" \/ r.http = 204 =>
          r.sid \in Sessions /\ status[r.sid] = "cancelled"

LEMMA ReadsKept ==
  ASSUME NEW r \in RequestType, Reads(r), \A s \in Sessions : Grows(s)
  PROVE  Reads(r)'
  BY DEF Reads, Grows, Terminal

LEMMA ReadsRequest ==
  ASSUME Inv, NEW q \in Requests, Poll(q) \/ CancelRequest(q) \/ Handle(q),
         Reads(req[q])
  PROVE  Reads(req[q])'
  <1>t. req \in [Requests -> RequestType] /\ status \in [Sessions -> States]
    BY TypeParts DEF Inv, Typed
  <1>r. PICK r \in RequestType : r = req[q] /\ r = Rebuilt(r) /\ FieldsOK(r) /\ Knows(r)
                                 /\ Reads(r)
    BY <1>t, Fields DEF Inv
  <1>x. PICK x : x = req'[q]
    OBVIOUS
  <1>k. Reads(r)'
    BY <1>r, GrowsRequest, ReadsKept DEF Inv
  <1>1. ASSUME Poll(q) \/ CancelRequest(q) PROVE Reads(x)'
    <2>1. PICK step \in {"get", "cancel"}, c \in Clients, s \in Sessions,
               k \in Sessions \cup {None} :
             req' = [req EXCEPT ![q] = [Idle EXCEPT !.step = step, !.client = c,
                                                    !.sid = s, !.code = k]]
      BY <1>1 DEF Poll, CancelRequest, Arrive
    <2>2. x.step = step /\ x.status = "absent" /\ x.http = 0
      BY <2>1, <1>t, <1>x DEF Idle
    <2>3. QED
      BY <2>2 DEF Reads, Terminal
  <1>2. ASSUME NEW h \in {204, 404, 409, 500}, Answer(q, h), h = 204 => r.step = "delete"
        PROVE  Reads(x)'
    <2>1. x = [r EXCEPT !.step = "done", !.http = h]
      BY <1>2, <1>t, <1>r, <1>x DEF Answer
    <2>2. x.step = "done" /\ x.http = h /\ x.sid = r.sid /\ x.status = r.status
      BY <1>r, <2>1 DEF Rebuilt
    <2>3. QED
      BY <1>2, <1>k, <2>2 DEF Reads
  <1>3. ASSUME GetForClient(q) PROVE Reads(x)'
    <2>1. /\ x = [r EXCEPT !.step = "report", !.status = Status(r.sid),
                           !.redeemed = redeemed[r.sid]]
          /\ r.step = "get" /\ Write(q)
      BY <1>3, <1>t, <1>r, <1>x DEF GetForClient
    <2>2. r.sid \in Sessions /\ r.http = 0
      BY <1>r, <2>1 DEF Knows
    <2>3. status'[r.sid] = Status(r.sid)
      BY <1>r, <1>t, <2>1, <2>2 DEF Write
    <2>4. x.step = "report" /\ x.http = 0 /\ x.sid = r.sid /\ x.status = Status(r.sid)
      BY <1>r, <2>1, <2>2 DEF Rebuilt
    <2>5. QED
      BY <2>2, <2>3, <2>4 DEF Reads
  <1>4. ASSUME GetReport(q) \/ GetDel(q) \/ MarkCodeRedeemed(q) \/ Respond(q)
        PROVE  Reads(x)'
    <2>1. /\ x.step # "delete" /\ x.http \in {r.http, 200}
          /\ x.sid = r.sid /\ x.status = r.status
      <3>1. CASE GetReport(q)
        <4>1. PICK step \in {"redeem", "release"} :
                 x = [r EXCEPT !.step = step, !.report = report[r.sid]]
          BY <3>1, <1>t, <1>r, <1>x DEF GetReport
        <4>2. QED
          BY <4>1, <1>r DEF Rebuilt
      <3>2. CASE GetDel(q)
        <4>1. PICK step \in {"mark", "release"} : x = [r EXCEPT !.step = step]
          BY <3>2, <1>t, <1>r, <1>x DEF GetDel, Advance
        <4>2. QED
          BY <4>1, <1>r DEF Rebuilt
      <3>3. CASE MarkCodeRedeemed(q)
        <4>1. x = [r EXCEPT !.step = "release", !.redeemed = TRUE]
          BY <3>3, <1>t, <1>r, <1>x DEF MarkCodeRedeemed
        <4>2. QED
          BY <4>1, <1>r DEF Rebuilt
      <3>4. CASE Respond(q)
        <4>1. PICK released :
                 released = (Releasable(q) /\ payload[req[q].sid] = "live")
          OBVIOUS
        <4>2. x = [r EXCEPT !.step = "done", !.http = 200, !.result = released]
          BY <3>4, <4>1, <1>t, <1>r, <1>x DEF Respond
        <4>3. QED
          BY <4>2, <1>r DEF Rebuilt
      <3>5. QED
        BY <1>4, <3>1, <3>2, <3>3, <3>4
    <2>2. QED
      BY <1>k, <2>1 DEF Reads
  <1>5. ASSUME Cancel(q), Advance(q, "delete") PROVE Reads(x)'
    <2>1. x = [r EXCEPT !.step = "delete"] /\ r.step = "cancel" /\ Write(q)
      BY <1>5, <1>t, <1>r, <1>x DEF Cancel, Advance
    <2>2. Status(r.sid) \in Open
      <3>1. ASSUME Answer(q, 409) PROVE FALSE
        <4>1. x = [r EXCEPT !.step = "done", !.http = 409]
          BY <3>1, <1>t, <1>r, <1>x DEF Answer
        <4>2. x.step = "done"
          BY <4>1, <1>r DEF Rebuilt
        <4>3. x.step = "delete"
          BY <2>1, <1>r DEF Rebuilt
        <4>4. QED
          BY <4>2, <4>3
      <3>2. QED
        BY <1>5, <1>r, <3>1 DEF Cancel
    <2>3. r.sid \in Sessions /\ r.status = "absent"
      BY <1>r, <2>1 DEF Knows
    <2>4. status'[r.sid] = "cancelled"
      BY <1>r, <1>t, <2>1, <2>2, <2>3 DEF Write
    <2>5. x.sid = r.sid /\ x.status = "absent"
      BY <1>r, <2>1, <2>3 DEF Rebuilt
    <2>6. QED
      BY <2>3, <2>4, <2>5 DEF Reads, Terminal
  <1>6. ASSUME NotFound(q) \/ GetDelFails(q) \/ ProcedureFails(q) \/ ReplyLost(q)
                 \/ FetchFails(q) \/ DeleteEngineSession(q)
        PROVE  Reads(x)'
    <2>1. PICK h \in {204, 404, 409, 500} :
             Answer(q, h) /\ (h = 204 => r.step = "delete")
      BY <1>6, <1>r DEF NotFound, GetDelFails, ProcedureFails, ReplyLost, FetchFails,
         DeleteEngineSession
    <2>2. QED
      BY <1>2, <2>1
  <1>7. ASSUME Cancel(q), Answer(q, 409) PROVE Reads(x)'
    BY <1>2, <1>7
  <1>8. Reads(x)'
    BY <1>1, <1>3, <1>4, <1>5, <1>6, <1>7 DEF Handle, Cancel
  <1>9. QED
    BY <1>x, <1>8 DEF Reads

LEMMA ReadsNext ==
  ASSUME Inv, \A q \in Requests : Reads(req[q]), [Next]_vars
  PROVE  \A q \in Requests : Reads(req[q])'
  <1> SUFFICES ASSUME NEW q \in Requests PROVE Reads(req[q])'
    OBVIOUS
  <1>t. req \in [Requests -> RequestType]
    BY TypeParts DEF Inv
  <1>1. CASE Poll(q) \/ CancelRequest(q) \/ Handle(q)
    BY <1>1, ReadsRequest
  <1>2. CASE req'[q] = req[q]
    <2>1. PICK r \in RequestType : r = req[q]
      BY <1>t
    <2>2. Reads(r)'
      BY <2>1, GrowsNext, ReadsKept
    <2>3. QED
      BY <1>2, <2>1, <2>2 DEF Reads
  <1>3. CASE \E p \in Requests : p # q /\ (Poll(p) \/ CancelRequest(p) \/ Handle(p))
    <2>1. req'[q] = req[q]
      BY <1>3, <1>t, RequestStep
    <2>2. QED
      BY <1>2, <2>1
  <1>4. CASE \/ Clock \/ (\E s \in Sessions : Core(s))
             \/ \E w \in Sweepers : Sweep(w) \/ SweeperCrash(w)
             \/ UNCHANGED vars
    <2>1. req' = req
      BY <1>4 DEF Clock, Core, Create, Engage, SaveReport, Complete, HandOff,
         PayloadExpires, Sweep, ExpireDue, ExpireDueFails, Notify, SweeperCrash, vars
    <2>2. QED
      BY <1>2, <2>1
  <1>5. QED
    BY <1>1, <1>3, <1>4 DEF Next

\* A request that moves its session does not answer with it in the same step.
LEMMA MoveUnanswered ==
  ASSUME Inv, NEW q \in Requests, Poll(q) \/ CancelRequest(q) \/ Handle(q)
  PROVE  \/ UNCHANGED status
         \/ Writes(q) /\ req'[q].http \notin {200, 204}
  <1>t. req \in [Requests -> RequestType]
    BY TypeParts DEF Inv
  <1>r. PICK r \in RequestType : r = req[q] /\ r = Rebuilt(r) /\ Knows(r)
    BY <1>t, Fields DEF Inv
  <1>1. UNCHANGED status \/ Writes(q)
    BY RequestEffect DEF Inv, Takes, Marks
  <1>2. UNCHANGED status \/ GetForClient(q) \/ Cancel(q) \/ ReplyLost(q)
    BY DEF Poll, CancelRequest, Arrive, Handle, NotFound, GetReport, GetDel,
       GetDelFails, MarkCodeRedeemed, ProcedureFails, Respond, FetchFails,
       DeleteEngineSession
  <1>3. ASSUME NEW h \in {409, 500}, Answer(q, h) PROVE req'[q].http = h
    BY <1>3, <1>t, <1>r DEF Answer, Rebuilt
  <1>4. ASSUME GetForClient(q) PROVE req'[q].http = 0
    <2>1. r.http = 0
      BY <1>4, <1>r DEF GetForClient, Knows
    <2>2. req'[q] = [r EXCEPT !.step = "report", !.status = Status(r.sid),
                              !.redeemed = redeemed[r.sid]]
      BY <1>4, <1>t, <1>r DEF GetForClient
    <2>3. QED
      BY <1>r, <2>1, <2>2 DEF Rebuilt
  <1>5. ASSUME Cancel(q), Advance(q, "delete") PROVE req'[q].http = 0
    <2>1. r.http = 0
      BY <1>5, <1>r DEF Cancel, Knows
    <2>2. QED
      BY <1>5, <1>t, <1>r, <2>1 DEF Advance, Rebuilt
  <1>6. QED
    BY <1>1, <1>2, <1>3, <1>4, <1>5 DEF Cancel, ReplyLost

\* A request for a session that had come to this end before it: it reads that end
\* or nothing yet, and it does not cancel.
Heeds(r, end) ==
    /\ r.sid \in Sessions /\ status[r.sid] = end
    /\ r.step \in {"report", "redeem", "mark", "release"} \/ r.http = 200 =>
          r.status = end
    /\ r.step # "delete" /\ r.http # 204

LEMMA HeedsRequest ==
  ASSUME Inv, NEW q \in Requests, Handle(q), NEW end \in Terminal, Heeds(req[q], end)
  PROVE  Heeds(req[q], end)'
  <1>t. req \in [Requests -> RequestType] /\ status \in [Sessions -> States]
    BY TypeParts DEF Inv, Typed
  <1>r. PICK r \in RequestType : r = req[q] /\ r = Rebuilt(r) /\ FieldsOK(r) /\ Knows(r)
                                 /\ Heeds(r, end)
    BY <1>t, Fields DEF Inv
  <1>x. PICK x : x = req'[q]
    OBVIOUS
  <1>s. /\ r.sid \in Sessions /\ status[r.sid] = end /\ status'[r.sid] = end
        /\ Status(r.sid) = end
    BY <1>r, GrowsRequest DEF Inv, Heeds, Grows, Status, IsDue, Open, Terminal
  <1>1. ASSUME NEW h \in {204, 404, 409, 500}, Answer(q, h), h = 204 => r.step = "delete"
        PROVE  Heeds(x, end)'
    <2>1. x = [r EXCEPT !.step = "done", !.http = h]
      BY <1>1, <1>t, <1>r, <1>x DEF Answer
    <2>2. x.step = "done" /\ x.http = h /\ x.sid = r.sid /\ x.status = r.status
      BY <1>r, <2>1 DEF Rebuilt
    <2>3. QED
      BY <1>1, <1>r, <1>s, <2>2 DEF Heeds
  <1>2. ASSUME GetForClient(q) PROVE Heeds(x, end)'
    <2>1. x = [r EXCEPT !.step = "report", !.status = Status(r.sid),
                        !.redeemed = redeemed[r.sid]]
      BY <1>2, <1>t, <1>r, <1>x DEF GetForClient
    <2>2. x.step = "report" /\ x.http = r.http /\ x.sid = r.sid /\ x.status = end
      BY <1>r, <1>s, <2>1 DEF Rebuilt
    <2>3. QED
      BY <1>r, <1>s, <2>2 DEF Heeds
  <1>3. ASSUME NEW step \in {"redeem", "mark", "release", "done"},
               r.step \in {"report", "redeem", "mark", "release"},
               x.step = step, x.http \in {r.http, 200},
               x.sid = r.sid, x.status = r.status
        PROVE  Heeds(x, end)'
    BY <1>3, <1>r, <1>s DEF Heeds
  <1>4. ASSUME GetReport(q) PROVE Heeds(x, end)'
    <2>1. PICK step \in {"redeem", "release"} :
             x = [r EXCEPT !.step = step, !.report = report[r.sid]]
      BY <1>4, <1>t, <1>r, <1>x DEF GetReport
    <2>2. QED
      BY <1>3, <1>4, <1>r, <2>1 DEF Rebuilt, GetReport
  <1>5. ASSUME GetDel(q) PROVE Heeds(x, end)'
    <2>1. PICK step \in {"mark", "release"} : x = [r EXCEPT !.step = step]
      BY <1>5, <1>t, <1>r, <1>x DEF GetDel, Advance
    <2>2. QED
      BY <1>3, <1>5, <1>r, <2>1 DEF Rebuilt, GetDel
  <1>6. ASSUME MarkCodeRedeemed(q) PROVE Heeds(x, end)'
    <2>1. x = [r EXCEPT !.step = "release", !.redeemed = TRUE]
      BY <1>6, <1>t, <1>r, <1>x DEF MarkCodeRedeemed
    <2>2. QED
      BY <1>3, <1>6, <1>r, <2>1 DEF Rebuilt, MarkCodeRedeemed
  <1>7. ASSUME Respond(q) PROVE Heeds(x, end)'
    <2>1. PICK released : released = (Releasable(q) /\ payload[req[q].sid] = "live")
      OBVIOUS
    <2>2. x = [r EXCEPT !.step = "done", !.http = 200, !.result = released]
      BY <1>7, <2>1, <1>t, <1>r, <1>x DEF Respond
    <2>3. QED
      BY <1>3, <1>7, <1>r, <2>2 DEF Rebuilt, Respond
  <1>8. ASSUME Cancel(q) PROVE Heeds(x, end)'
    <2>1. Status(r.sid) \notin Open
      BY <1>s DEF Open, Terminal
    <2>2. Answer(q, 409)
      BY <1>8, <1>r, <2>1 DEF Cancel
    <2>3. QED
      BY <1>1, <2>2
  <1>9. ASSUME NotFound(q) \/ GetDelFails(q) \/ ProcedureFails(q) \/ ReplyLost(q)
                 \/ FetchFails(q) \/ DeleteEngineSession(q)
        PROVE  Heeds(x, end)'
    <2>1. PICK h \in {204, 404, 409, 500} :
             Answer(q, h) /\ (h = 204 => r.step = "delete")
      BY <1>9, <1>r DEF NotFound, GetDelFails, ProcedureFails, ReplyLost, FetchFails,
         DeleteEngineSession
    <2>2. QED
      BY <1>1, <2>1
  <1>10. Heeds(x, end)'
    BY <1>2, <1>4, <1>5, <1>6, <1>7, <1>8, <1>9 DEF Handle
  <1>11. QED
    BY <1>x, <1>10 DEF Heeds

\* In any step slot q takes a new request, or the one in it heeds what it heeded.
LEMMA HeedsNext ==
  ASSUME Inv, [Next]_vars, NEW q \in Requests
  PROVE  \/ /\ req[q].step \in {"idle", "done"} /\ req'[q].step \in {"get", "cancel"}
            /\ req'[q].http = 0 /\ req'[q].sid \in Sessions
            /\ UNCHANGED status
         \/ /\ req'[q].step \in {"idle", "done"} \/ req[q].step \notin {"idle", "done"}
            /\ \A end \in Terminal : Heeds(req[q], end) => Heeds(req[q], end)'
  <1>t. req \in [Requests -> RequestType]
    BY TypeParts DEF Inv
  <1>1. CASE Poll(q) \/ CancelRequest(q)
    <2>1. PICK step \in {"get", "cancel"}, c \in Clients, s \in Sessions,
               k \in Sessions \cup {None} :
             req' = [req EXCEPT ![q] = [Idle EXCEPT !.step = step, !.client = c,
                                                    !.sid = s, !.code = k]]
      BY <1>1 DEF Poll, CancelRequest, Arrive
    <2>2. req[q].step \in {"idle", "done"} /\ UNCHANGED status
      BY <1>1 DEF Poll, CancelRequest, Arrive
    <2>3. QED
      BY <1>t, <2>1, <2>2 DEF Idle
  <1>2. CASE Handle(q)
    <2>1. req[q].step \notin {"idle", "done"}
      BY <1>2 DEF Handle, NotFound, GetForClient, GetReport, GetDel, GetDelFails,
         MarkCodeRedeemed, ProcedureFails, ReplyLost, Respond, FetchFails, Cancel,
         DeleteEngineSession
    <2>2. QED
      BY <1>2, <2>1, HeedsRequest
  <1>3. CASE req'[q] = req[q]
    <2>1. \A s \in Sessions : Grows(s)
      BY GrowsNext
    <2>2. ASSUME NEW end \in Terminal, Heeds(req[q], end) PROVE Heeds(req[q], end)'
      BY <1>3, <2>1, <2>2 DEF Heeds, Grows
    <2>3. QED
      BY <1>3, <2>2
  <1>4. CASE \E p \in Requests : p # q /\ (Poll(p) \/ CancelRequest(p) \/ Handle(p))
    <2>1. req'[q] = req[q]
      BY <1>4, <1>t, RequestStep
    <2>2. QED
      BY <1>3, <2>1
  <1>5. CASE \/ Clock \/ (\E s \in Sessions : Core(s))
             \/ \E w \in Sweepers : Sweep(w) \/ SweeperCrash(w)
             \/ UNCHANGED vars
    <2>1. req' = req
      BY <1>5 DEF Clock, Core, Create, Engage, SaveReport, Complete, HandOff,
         PayloadExpires, Sweep, ExpireDue, ExpireDueFails, Notify, SweeperCrash, vars
    <2>2. QED
      BY <1>3, <2>1
  <1>6. QED
    BY <1>1, <1>2, <1>4, <1>5 DEF Next

-----------------------------------------------------------------------------
(* The component in company: what other processes may do to its state *)

\* Time passes, payloads and their codes end, a sweeper dies, and others spend
\* of the failures: the invariant holds on.
LEMMA Outside ==
  ASSUME Inv, now' \in 0..MaxTime, faults' \in 0..MaxFaults,
         UNCHANGED <<status, owner, flow, webhook, expiresAt, report, redeemed, req,
                     notices, accepted>>,
         batch' = batch \/ \E w \in Sweepers : batch' = [batch EXCEPT ![w] = {}],
         payload' \in [Sessions -> {"none", "live", "gone"}],
         code' \in [Sessions -> BOOLEAN],
         \A s \in Sessions :
            \/ payload'[s] = payload[s] /\ code'[s] = code[s]
            \/ payload[s] = "live" /\ payload'[s] = "gone" /\ ~code'[s]
  PROVE  Inv'
  <1>t. req \in [Requests -> RequestType] /\ Typed /\ BatchType
    BY TypeParts DEF Inv
  <1>g. \A s \in Sessions : Grows(s)
    BY DEF Grows
  <1>1. BatchType' /\ BatchesOK'
    <2>1. CASE batch' = batch
      BY <2>1, <1>t DEF BatchType, Inv, BatchesOK
    <2>2. ASSUME NEW w \in Sweepers, batch' = [batch EXCEPT ![w] = {}]
          PROVE  BatchType' /\ BatchesOK'
      <3>1. BatchType'
        BY <1>t, <2>2, FS_EmptySet, LifecycleAssumption DEF BatchType
      <3>2. \A v \in Sweepers : batch'[v] \subseteq batch[v]
        BY <1>t, <2>2 DEF BatchType
      <3>3. QED
        BY <3>1, <3>2 DEF Inv, BatchesOK
    <2>3. QED
      BY <2>1, <2>2
  <1>2. TypeOK'
    BY <1>t, <1>1 DEF TypeOK, Typed, BatchType, RequestType, States
  <1>3. \A s \in Sessions : RowOK(s)'
    BY <1>t DEF Inv, RowOK, Typed
  <1>4. OneRedeemer'
    BY DEF Inv, OneRedeemer
  <1>5. \A q \in Requests : Knows(req[q])'
    BY <1>t, <1>g, RequestsKept DEF Inv
  <1>6. QED
    BY <1>1, <1>2, <1>3, <1>4, <1>5 DEF Inv
=============================================================================
