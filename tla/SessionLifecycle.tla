-------------------------- MODULE SessionLifecycle --------------------------
(***************************************************************************)
(* A session's row and everyone who moves it: verifier-core (external, the *)
(* only writer of new sessions and outcomes), the poll and cancel handlers *)
(* of routes/sessions.go serving concurrent requests, and the expiry       *)
(* sweeper of internal/webhook on every replica.  One action is one        *)
(* procedure call, Valkey command or POST.  The procedures are those of    *)
(* internal/sessiondb, with the semantics its Fake mirrors.                *)
(*                                                                         *)
(* A response code is named by the session it belongs to: the index        *)
(* vc:respcode:{code} holds it while it has not been taken.                *)
(***************************************************************************)
EXTENDS Integers, FiniteSets, FiniteSetsExt

CONSTANTS
    Sessions, Clients,
    Requests,   \* slots for concurrent HTTP requests
    Sweepers,   \* replicas running the sweeper
    None,
    Flows,      \* flows a session may use, of {"same_device", "cross_device"}
    Webhooks,   \* whether a session has a webhook, of BOOLEAN
    TTL,        \* life of a session
    Limit,      \* sweeper batch limit
    MaxTime,    \* bound on the clock
    Faults,     \* which calls may fail
    MaxFaults   \* bound on the failures of one behaviour

AllFaults == {"call", "getdel", "getdelAck", "callAck", "fetch", "sweep",
              "sweepAck", "crash"}

ASSUME LifecycleAssumption ==
    /\ IsFiniteSet(Sessions)
    /\ None \notin Sessions \cup {"same_device", "cross_device"}
    /\ Flows \subseteq {"same_device", "cross_device"}
    /\ Webhooks \subseteq BOOLEAN
    /\ TTL \in Nat \ {0} /\ Limit \in Nat \ {0}
    /\ MaxTime \in Nat /\ MaxFaults \in Nat
    /\ Faults \subseteq AllFaults

Open     == {"pending", "wallet_engaged"}
Terminal == {"verified", "failed", "expired", "cancelled"}
Steps    == {"idle", "get", "report", "redeem", "mark", "release", "cancel",
             "delete", "done"}

VARIABLES
    now,
    status,    \* status[s]: the row's status, "absent" before it is created
    owner, flow, webhook, expiresAt,  \* the row's other columns
    report,    \* report[s]: a report is stored
    redeemed,  \* redeemed[s]: code_redeemed_at is set
    code,      \* code[s]: vc:respcode holds s's response code
    payload,   \* payload[s]: "none", then "live" until the TTL, then "gone"
    req,       \* req[q]: the request in slot q and its answer
    batch,     \* batch[w]: expired sessions sweeper w has still to notify
    notices,   \* notices[s]: "expired" webhooks POSTed for s
    accepted,  \* accepted[s]: requests that redeemed s's code
    faults

row     == <<owner, flow, webhook, expiresAt>>
valkey  == <<code, payload>>
sweeper == <<batch, notices>>
vars == <<now, status, row, report, redeemed, valkey, req, sweeper, accepted,
          faults>>

Idle == [step |-> "idle", client |-> None, sid |-> None, code |-> None,
         status |-> "absent", redeemed |-> FALSE, report |-> FALSE,
         result |-> FALSE, http |-> 0]

Init ==
    /\ now = 0
    /\ status = [s \in Sessions |-> "absent"]
    /\ owner = [s \in Sessions |-> None]
    /\ flow = [s \in Sessions |-> None]
    /\ webhook = [s \in Sessions |-> FALSE]
    /\ expiresAt = [s \in Sessions |-> 0]
    /\ report = [s \in Sessions |-> FALSE]
    /\ redeemed = [s \in Sessions |-> FALSE]
    /\ code = [s \in Sessions |-> FALSE]
    /\ payload = [s \in Sessions |-> "none"]
    /\ req = [q \in Requests |-> Idle]
    /\ batch = [w \in Sweepers |-> {}]
    /\ notices = [s \in Sessions |-> 0]
    /\ accepted = [s \in Sessions |-> 0]
    /\ faults = 0

Fault(f) == f \in Faults /\ faults < MaxFaults /\ faults' = faults + 1

Clock ==
    /\ now < MaxTime
    /\ now' = now + 1
    /\ UNCHANGED <<status, row, report, redeemed, valkey, req, sweeper, accepted,
                   faults>>

-----------------------------------------------------------------------------
(* eudi-verifier-core (external): creates the row, follows the wallet, saves *)
(* the report, and hands the result off once the row took the outcome        *)

Create(s) ==
    /\ status[s] = "absent"
    /\ now + TTL <= MaxTime
    /\ status' = [status EXCEPT ![s] = "pending"]
    /\ \E c \in Clients : owner' = [owner EXCEPT ![s] = c]
    /\ \E f \in Flows : flow' = [flow EXCEPT ![s] = f]
    /\ \E h \in Webhooks : webhook' = [webhook EXCEPT ![s] = h]
    /\ expiresAt' = [expiresAt EXCEPT ![s] = now + TTL]
    /\ UNCHANGED <<now, report, redeemed, valkey, req, sweeper, accepted, faults>>

Engage(s) ==
    /\ status[s] = "pending"
    /\ status' = [status EXCEPT ![s] = "wallet_engaged"]
    /\ UNCHANGED <<now, row, report, redeemed, valkey, req, sweeper, accepted,
                   faults>>

SaveReport(s) ==
    /\ status[s] = "wallet_engaged" /\ ~report[s]
    /\ report' = [report EXCEPT ![s] = TRUE]
    /\ UNCHANGED <<now, status, row, redeemed, valkey, req, sweeper, accepted,
                   faults>>

Complete(s) ==
    /\ status[s] = "wallet_engaged" /\ report[s]
    /\ \E o \in {"verified", "failed"} : status' = [status EXCEPT ![s] = o]
    /\ UNCHANGED <<now, row, report, redeemed, valkey, req, sweeper, accepted,
                   faults>>

HandOff(s) ==
    /\ status[s] \in {"verified", "failed"}
    /\ payload[s] = "none"
    /\ payload' = [payload EXCEPT ![s] = "live"]
    /\ code' = [code EXCEPT ![s] = (flow[s] = "same_device")]
    /\ UNCHANGED <<now, status, row, report, redeemed, req, sweeper, accepted,
                   faults>>

\* The payload's TTL elapses; the response code's has by then as well.
PayloadExpires(s) ==
    /\ payload[s] = "live"
    /\ payload' = [payload EXCEPT ![s] = "gone"]
    /\ code' = [code EXCEPT ![s] = FALSE]
    /\ UNCHANGED <<now, status, row, report, redeemed, req, sweeper, accepted,
                   faults>>

-----------------------------------------------------------------------------
(* Requests *)

\* Mutants: the status guard is missing; wallet_engaged is forgotten.
IsDueWhateverStatus(s) ==
    status[s] \notin {"absent", "expired"} /\ expiresAt[s] <= now
IsDuePendingOnly(s) == status[s] = "pending" /\ expiresAt[s] <= now

\* Past its expires_at and not finished.
IsDue(s) == status[s] \in Open /\ expiresAt[s] <= now

\* What the procedures see of s after their lazy expiry.
Status(s) == IF IsDue(s) THEN "expired" ELSE status[s]

\* What get_session_for_client and cancel_session write to the row.
Write(q) ==
    LET s == req[q].sid
        cancels == req[q].step = "cancel" /\ Status(s) \in Open
    IN status' = [status EXCEPT ![s] = IF cancels THEN "cancelled" ELSE Status(s)]

\* The row exists and is the calling client's.
Visible(q) == status[req[q].sid] # "absent" /\ owner[req[q].sid] = req[q].client

Arrive(q, step, codes) ==
    /\ req[q].step \in {"idle", "done"}
    /\ \E c \in Clients, s \in Sessions, k \in codes :
          req' = [req EXCEPT ![q] = [Idle EXCEPT !.step = step, !.client = c,
                                                 !.sid = s, !.code = k]]
    /\ UNCHANGED <<now, status, row, report, redeemed, valkey, sweeper, accepted,
                   faults>>

\* A poll may present any response code, or none.
Poll(q)          == Arrive(q, "get", Sessions \cup {None})
CancelRequest(q) == Arrive(q, "cancel", {None})

Answer(q, http) ==
    req' = [req EXCEPT ![q] = [@ EXCEPT !.step = "done", !.http = http]]

Advance(q, step) == req' = [req EXCEPT ![q] = [@ EXCEPT !.step = step]]

NotFound(q) ==
    /\ req[q].step \in {"get", "report", "mark", "cancel"}
    /\ ~Visible(q)
    /\ Answer(q, 404)
    /\ UNCHANGED <<now, status, row, report, redeemed, valkey, sweeper, accepted,
                   faults>>

\* Mutant: the lazy expiry is answered and not written.
GetForClientUnwritten(q) ==
    /\ req[q].step = "get"
    /\ Visible(q)
    /\ req' = [req EXCEPT ![q].step = "report", ![q].status = Status(req[q].sid),
                          ![q].redeemed = redeemed[req[q].sid]]
    /\ UNCHANGED <<now, status, row, report, redeemed, valkey, sweeper, accepted,
                   faults>>

\* getSession: GetForClient, with its lazy expiry
GetForClient(q) ==
    /\ req[q].step = "get"
    /\ Visible(q)
    /\ Write(q)
    /\ LET s == req[q].sid IN
          req' = [req EXCEPT ![q] = [@ EXCEPT !.step = "report",
                                              !.status = Status(s),
                                              !.redeemed = redeemed[s]]]
    /\ UNCHANGED <<now, row, report, redeemed, valkey, sweeper, accepted, faults>>

\* Mutant: the flow is not looked at.
RedeemsAnyFlow(r) == ~r.redeemed /\ r.code # None

\* The code of request r is to be redeemed: same-device only, and only once.
Redeems(r) == flow[r.sid] = "same_device" /\ ~r.redeemed /\ r.code # None

\* getSession: GetReportForClient, then whether a code is to be redeemed
GetReport(q) ==
    /\ req[q].step = "report"
    /\ Visible(q)
    /\ LET r == req[q]
           next == IF Redeems(r) THEN "redeem" ELSE "release"
       IN req' = [req EXCEPT ![q] = [@ EXCEPT !.step = next,
                                              !.report = report[r.sid]]]
    /\ UNCHANGED <<now, status, row, report, redeemed, valkey, sweeper, accepted,
                   faults>>

\* Mutant: GET in place of GETDEL.
GetKept(q) ==
    /\ req[q].step = "redeem"
    /\ LET r == req[q]
       IN Advance(q, IF code[r.code] /\ r.code = r.sid THEN "mark" ELSE "release")
    /\ UNCHANGED <<now, status, row, report, redeemed, valkey, sweeper, accepted,
                   faults>>

\* getSession: GETDEL of the code's index entry.  An entry of another session
\* is gone as well, and answered like a missing one.
GetDel(q) ==
    /\ req[q].step = "redeem"
    /\ LET r == req[q] IN
          /\ code' = [code EXCEPT ![r.code] = FALSE]
          /\ Advance(q, IF code[r.code] /\ r.code = r.sid THEN "mark" ELSE "release")
    /\ UNCHANGED <<now, status, row, report, redeemed, payload, sweeper, accepted,
                   faults>>

GetDelFails(q) ==
    /\ req[q].step = "redeem"
    /\ \/ Fault("getdel") /\ UNCHANGED code
       \/ Fault("getdelAck") /\ code' = [code EXCEPT ![req[q].code] = FALSE]
    /\ Answer(q, 500)
    /\ UNCHANGED <<now, status, row, report, redeemed, payload, sweeper, accepted>>

Redeem(s) ==
    /\ redeemed' = [redeemed EXCEPT ![s] = TRUE]
    /\ accepted' = [accepted EXCEPT ![s] = @ + 1]

\* getSession: MarkCodeRedeemed
MarkCodeRedeemed(q) ==
    /\ req[q].step = "mark"
    /\ Visible(q)
    /\ Redeem(req[q].sid)
    /\ req' = [req EXCEPT ![q] = [@ EXCEPT !.step = "release", !.redeemed = TRUE]]
    /\ UNCHANGED <<now, status, row, report, valkey, sweeper, faults>>

\* A procedure call of the handlers errs.
ProcedureFails(q) ==
    /\ req[q].step \in {"get", "report", "mark", "cancel"}
    /\ Fault("call")
    /\ Answer(q, 500)
    /\ UNCHANGED <<now, status, row, report, redeemed, valkey, sweeper, accepted>>

\* It did all it does and its reply is lost.
ReplyLost(q) ==
    /\ req[q].step \in {"get", "mark", "cancel"}
    /\ Visible(q)
    /\ Fault("callAck")
    /\ IF req[q].step = "mark"
          THEN Redeem(req[q].sid) /\ UNCHANGED status
          ELSE Write(q) /\ UNCHANGED <<redeemed, accepted>>
    /\ Answer(q, 500)
    /\ UNCHANGED <<now, row, report, valkey, sweeper>>

\* Mutant: the same-device gate is missing.
ReleasableUngated(q) == req[q].status = "verified"

\* The result is released for this request, as far as it knows.
Releasable(q) ==
    /\ req[q].status = "verified"
    /\ flow[req[q].sid] = "same_device" => req[q].redeemed

\* Mutant: the answer takes the row's current state, read after the report.
RespondRefreshed(q) ==
    /\ req[q].step = "release"
    /\ req' = [req EXCEPT ![q].step = "done", ![q].http = 200,
                          ![q].status = status[req[q].sid]]
    /\ UNCHANGED <<now, status, row, report, redeemed, valkey, sweeper, accepted,
                   faults>>

\* getSession: results.Fetch when the result is released, and the answer
Respond(q) ==
    /\ req[q].step = "release"
    /\ LET released == Releasable(q) /\ payload[req[q].sid] = "live"
       IN req' = [req EXCEPT ![q] = [@ EXCEPT !.step = "done", !.http = 200,
                                              !.result = released]]
    /\ UNCHANGED <<now, status, row, report, redeemed, valkey, sweeper, accepted,
                   faults>>

\* Reading, decrypting or decoding the payload fails: never an empty success.
FetchFails(q) ==
    /\ req[q].step = "release"
    /\ Releasable(q)
    /\ Fault("fetch")
    /\ Answer(q, 500)
    /\ UNCHANGED <<now, status, row, report, redeemed, valkey, sweeper, accepted>>

\* cancelSession: Cancel, lazily expiring first
Cancel(q) ==
    /\ req[q].step = "cancel"
    /\ Visible(q)
    /\ Write(q)
    /\ IF Status(req[q].sid) \in Open THEN Advance(q, "delete") ELSE Answer(q, 409)
    /\ UNCHANGED <<now, row, report, redeemed, valkey, sweeper, accepted, faults>>

\* cancelSession: the best-effort delete; its failure is logged and answered
\* like its success.
DeleteEngineSession(q) ==
    /\ req[q].step = "delete"
    /\ Answer(q, 204)
    /\ UNCHANGED <<now, status, row, report, redeemed, valkey, sweeper, accepted,
                   faults>>

-----------------------------------------------------------------------------
(* Sweeper.runOnce *)

\* Up to Limit of the due rows, all flipped in one statement.
Expire(due) ==
    /\ due \subseteq {s \in Sessions : IsDue(s)}
    /\ status' = [s \in Sessions |-> IF s \in due THEN "expired" ELSE status[s]]

\* Mutant: the limit is ignored.
BatchUnlimited == Cardinality({s \in Sessions : IsDue(s)})

BatchSize == Min({Limit, Cardinality({s \in Sessions : IsDue(s)})})

ExpireDue(w) ==
    /\ batch[w] = {}
    /\ \E due \in kSubset(BatchSize, {s \in Sessions : IsDue(s)}) :
          /\ Expire(due)
          /\ batch' = [batch EXCEPT ![w] = due]
    /\ UNCHANGED <<now, row, report, redeemed, valkey, req, notices, accepted,
                   faults>>

\* The call errs, before or after the rows were flipped: the cycle ends.
ExpireDueFails(w) ==
    /\ batch[w] = {}
    /\ \/ Fault("sweep") /\ UNCHANGED status
       \/ /\ Fault("sweepAck")
          /\ \E due \in kSubset(BatchSize, {s \in Sessions : IsDue(s)}) : Expire(due)
    /\ UNCHANGED <<now, row, report, redeemed, valkey, req, sweeper, accepted>>

\* Sweeper.notify: one POST whatever comes of it, none without a webhook
Notify(w) ==
    /\ \E s \in batch[w] :
          /\ batch' = [batch EXCEPT ![w] = @ \ {s}]
          /\ notices' = [notices EXCEPT ![s] = IF webhook[s] THEN @ + 1 ELSE @]
    /\ UNCHANGED <<now, status, row, report, redeemed, valkey, req, accepted, faults>>

SweeperCrash(w) ==
    /\ batch[w] # {}
    /\ Fault("crash")
    /\ batch' = [batch EXCEPT ![w] = {}]
    /\ UNCHANGED <<now, status, row, report, redeemed, valkey, req, notices,
                   accepted>>

-----------------------------------------------------------------------------
Handle(q) ==
    \/ NotFound(q) \/ GetForClient(q) \/ GetReport(q) \/ GetDel(q) \/ GetDelFails(q)
    \/ MarkCodeRedeemed(q) \/ ProcedureFails(q) \/ ReplyLost(q) \/ Respond(q)
    \/ FetchFails(q) \/ Cancel(q) \/ DeleteEngineSession(q)

Core(s) ==
    \/ Create(s) \/ Engage(s) \/ SaveReport(s) \/ Complete(s) \/ HandOff(s)
    \/ PayloadExpires(s)

Sweep(w) == ExpireDue(w) \/ ExpireDueFails(w) \/ Notify(w)

Next ==
    \/ Clock
    \/ \E s \in Sessions : Core(s)
    \/ \E q \in Requests : Poll(q) \/ CancelRequest(q) \/ Handle(q)
    \/ \E w \in Sweepers : Sweep(w) \/ SweeperCrash(w)

Spec == Init /\ [][Next]_vars

\* The sweeper's ticker keeps firing, every call returns, and time passes.
\* Nothing is assumed of wallets or clients.
FairSpec ==
    /\ Spec
    /\ WF_vars(Clock)
    /\ \A q \in Requests : WF_vars(Handle(q))
    /\ \A w \in Sweepers : WF_vars(Sweep(w))
-----------------------------------------------------------------------------
(* What a session promises *)

TypeOK ==
    /\ now \in 0..MaxTime
    /\ status \in [Sessions -> Open \cup Terminal \cup {"absent"}]
    /\ owner \in [Sessions -> Clients \cup {None}]
    /\ flow \in [Sessions -> Flows \cup {None}]
    /\ webhook \in [Sessions -> BOOLEAN]
    /\ expiresAt \in [Sessions -> 0..MaxTime]
    /\ report \in [Sessions -> BOOLEAN]
    /\ redeemed \in [Sessions -> BOOLEAN]
    /\ code \in [Sessions -> BOOLEAN]
    /\ payload \in [Sessions -> {"none", "live", "gone"}]
    /\ req \in [Requests ->
                  [step : Steps, client : Clients \cup {None},
                   sid : Sessions \cup {None}, code : Sessions \cup {None},
                   status : Open \cup Terminal \cup {"absent"},
                   redeemed : BOOLEAN, report : BOOLEAN, result : BOOLEAN,
                   http : {0, 200, 204, 404, 409, 500}]]
    /\ batch \in [Sweepers -> SUBSET Sessions]
    /\ \A w \in Sweepers : Cardinality(batch[w]) <= Limit
    /\ notices \in [Sessions -> Nat]
    /\ accepted \in [Sessions -> Nat]
    /\ faults \in 0..MaxFaults

\* terminalSessionStates: "the states after which a session never changes
\* again", with polls, cancels, sweepers and verifier-core racing on the row.
TerminalIsForever ==
    [][\A s \in Sessions : status[s] \in Terminal => status'[s] = status[s]]_vars

\* getSession reads the state before the report, so an answer that says
\* verified or failed carries its report, however the outcome lands between
\* the two procedure calls.
OutcomeHasReport ==
    \A q \in Requests :
        req[q].http = 200 /\ req[q].status \in {"verified", "failed"}
            => req[q].report

\* Claim values leave only for the owner of a verified session and, in the
\* same-device flow, only once its code was taken off the index and the
\* redemption is on the row.
ReleaseNeedsRedemption ==
    \A q \in Requests :
        req[q].result =>
            LET s == req[q].sid IN
            /\ status[s] = "verified" /\ owner[s] = req[q].client
            /\ flow[s] = "same_device" => redeemed[s] /\ ~code[s]

\* A response code is single-use: of any number of concurrent polls that
\* present it, at most one redeems it.
CodeSingleUse == \A s \in Sessions : accepted[s] <= 1

\* "responseCode is ignored for other flows ... so it can't accidentally
\* consume a code meant for a different same_device session": the code of the
\* only same-device session is never spent without that session's redemption.
CodeKeptForItsSession ==
    \A s \in Sessions :
        /\ flow[s] = "same_device" /\ payload[s] = "live" /\ ~code[s]
        /\ \A t \in Sessions \ {s} : flow[t] # "same_device"
        => redeemed[s] \/ \E q \in Requests : req[q].step = "mark" /\ req[q].sid = s

\* A session's client is told of its expiry or of its result, never of both,
\* and of its expiry at most once, however many sweepers run.
OneKindOfNotice ==
    \A s \in Sessions :
        notices[s] > 0 => /\ notices[s] = 1
                          /\ status[s] = "expired"
                          /\ payload[s] = "none"

\* A session no one finishes or polls does not stay open: the sweepers reach
\* it even when more sessions are due than one batch takes.
DueSessionsExpire ==
    \A s \in Sessions :
        status[s] \in Open /\ expiresAt[s] <= now ~> status[s] \in Terminal

\* The sweeper "delivers a signed {state:"expired"} WebhookPayload for each
\* newly-expired session".
ExpiredIsNotified ==
    \A s \in Sessions : status[s] = "expired" /\ webhook[s] ~> notices[s] > 0
=============================================================================
