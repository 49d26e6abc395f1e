---------------------------- MODULE ResultViews ----------------------------
(***************************************************************************)
(* The two ways a client gets a finished session: the body of a poll (the  *)
(* row, the report of PostgreSQL and the payload, read by getSession and   *)
(* results.Fetch) and the result webhook (the payload alone, mapped by     *)
(* buildPayload).  Both map reports with MapReport; each maps credentials  *)
(* with a copy of its own and decides for itself when claims leave.        *)
(*                                                                         *)
(* A row is [flow, redeemed, status, report]; a payload, decrypted and     *)
(* decoded, is [outcome, credentials, report]; a report is [checks,        *)
(* failCode], checks a sequence of [check, outcome].                       *)
(***************************************************************************)
EXTENDS Sequences, Naturals

CONSTANTS
    None,       \* nothing: no payload, no report, no failure, no result
    Malformed,  \* a document or ciphertext that does not decode
    NoFailCode, \* the empty fail_code
    Error       \* the call fails

ASSUME ViewAssumption == None # Malformed /\ Error \notin {None, Malformed}

MapOutcome(outcome) == IF outcome = "skipped" THEN "skipped_by_policy" ELSE outcome

\* MapReport: the report and the failure, or an error.
MapReport(raw) ==
    CASE raw = None      -> [report |-> None, failure |-> None]
      [] raw = Malformed -> Error
      [] OTHER ->
            [report |-> [i \in 1..Len(raw.checks) |->
                [raw.checks[i] EXCEPT !.outcome = MapOutcome(@)]],
             failure |-> IF raw.failCode = NoFailCode THEN None ELSE raw.failCode]
-----------------------------------------------------------------------------
(* The poll *)

MapCredential(c) ==
    [queryId |-> c.queryCredentialId, format |-> c.format,
     doctypeOrVct |-> c.doctypeOrVct, claims |-> c.claims]

\* mapResult: a result, although it may hold no credential.
MapResult(res) ==
    [credentials |-> [i \in 1..Len(res.credentials) |-> MapCredential(res.credentials[i])]]

NothingFetched == [result |-> None, report |-> None, failure |-> None]

\* Fetch: a payload that is gone is no error; one that does not decode is, as is
\* a report in it that does not.
Fetch(payload) ==
    CASE payload = None      -> NothingFetched
      [] payload = Malformed -> Error
      [] OTHER ->
            LET mapped == MapReport(payload.report) IN
            IF mapped = Error THEN Error
            ELSE [result |-> MapResult(payload), report |-> mapped.report,
                  failure |-> mapped.failure]

\* Mutant: the result of a same-device session is not held back.
ReleasedUngated(row) == row.status = "verified"

\* The claims leave: row.redeemed is what the redemption of this or an earlier
\* poll made of it.
Released(row) == row.status = "verified" /\ (row.flow = "same_device" => row.redeemed)

\* The body of a poll that read this row; what Fetch says of the report and the
\* failure is dropped.
Poll(row, payload) ==
    LET mapped  == MapReport(row.report)
        fetched == IF Released(row) THEN Fetch(payload) ELSE NothingFetched
    IN IF Error \in {mapped, fetched} THEN Error
       ELSE [state |-> row.status, report |-> mapped.report,
             failure |-> mapped.failure, result |-> fetched.result]
-----------------------------------------------------------------------------
(* The webhook *)

\* Mutant: the copy misses a field of the other.
WebhookCredentialNoType(c) ==
    [queryId |-> c.queryCredentialId, format |-> c.format,
     doctypeOrVct |-> c.format, claims |-> c.claims]

WebhookCredential(c) ==
    [queryId |-> c.queryCredentialId, format |-> c.format,
     doctypeOrVct |-> c.doctypeOrVct, claims |-> c.claims]

MapResultCredentials(res) ==
    [credentials |->
        [i \in 1..Len(res.credentials) |-> WebhookCredential(res.credentials[i])]]

\* buildPayload, of a payload the consumer found.
Webhook(payload) ==
    IF payload = Malformed THEN Error
    ELSE LET mapped == MapReport(payload.report) IN
         IF mapped = Error THEN Error
         ELSE [state |-> payload.outcome, report |-> mapped.report,
               failure |-> mapped.failure,
               result |-> IF payload.outcome = "verified"
                          THEN MapResultCredentials(payload) ELSE None]
-----------------------------------------------------------------------------
Unreadable(payload) == payload = Malformed \/ payload.report = Malformed

\* For a row and a payload written for one outcome: the webhook and a poll that
\* releases the claims carry the same state, report, failure and claims; a poll
\* that holds them back, and one that finds the payload gone, carry the same but
\* for the claims.  A payload that does not decode is an error to the webhook
\* and to every poll that would release it, never an empty result.
SameView(row, payload) ==
    LET webhook == Webhook(payload)
        poll    == Poll(row, payload)
    IN
    /\ webhook = Error <=> Unreadable(payload)
    /\ Unreadable(payload) /\ Released(row) => poll = Error
    /\ ~Unreadable(payload) =>
          /\ webhook.result # None <=> row.status = "verified"
          /\ poll = IF row.flow = "same_device" /\ ~row.redeemed
                    THEN [webhook EXCEPT !.result = None] ELSE webhook
          /\ Poll(row, None) = [webhook EXCEPT !.result = None]
=============================================================================
