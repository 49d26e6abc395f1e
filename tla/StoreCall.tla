----------------------------- MODULE StoreCall -----------------------------
(***************************************************************************)
(* One call of a stored procedure, as registrydb and sessiondb make it     *)
(* (the two have the same call, parseEnvelope and resultError), and what   *)
(* the methods of the stores make of its reply.  A reply is                *)
(*   - a row that holds an envelope,                                       *)
(*   - a raised exception P0001 whose message is an envelope, or           *)
(*   - any other failure of the query ("lost").                            *)
(* The data of an envelope is absent, does not decode as what the method   *)
(* asked for, or is a value.                                               *)
(***************************************************************************)
CONSTANTS
    Codes,        \* result codes, e.g. "registry:not_found"
    NoCode,       \* the empty code
    Values,       \* what the data of an envelope may decode to
    Absent,       \* no data
    Undecodable,  \* data of another shape, or whose base64 is invalid
    Empty         \* the zero value: of null, or of an object without the field

\* A code starts with the name of its store: none reads "none".
ASSUME StoreAssumption ==
    /\ NoCode \notin Codes /\ "none" \notin Codes
    /\ Absent \notin Values /\ Undecodable \notin Values /\ Empty \in Values
    /\ Absent # Undecodable

Envelopes == [result : {"success", "error", "unknown", "malformed"},
              code : Codes \cup {NoCode},
              data : Values \cup {Absent, Undecodable}]

Replies == [via : {"row", "raised", "lost"}, envelope : Envelopes]

\* What a call or a method returns: an error that is "none", "infra" (answered
\* 500) or a result code, and a value.
Returned(err, value) == [err |-> err, value |-> value]
Infra == Returned("infra", Absent)

\* resultError: an empty code is not an error.
ResultError(c) == IF c = NoCode THEN "none" ELSE c

\* parseEnvelope, and with it both exits of call.
ParseEnvelope(e) ==
    CASE e.result = "success" -> Returned("none", e.data)
      [] e.result = "error"   -> Returned(ResultError(e.code), Absent)
      [] OTHER                -> Infra

\* Mutant: the code of a raised exception is not looked at.
CallRaisedUnread(reply) ==
    CASE reply.via = "lost"   -> Infra
      [] reply.via = "raised" -> Returned("none", Absent)
      [] OTHER                -> ParseEnvelope(reply.envelope)

\* A raised envelope never yields data, whatever it says.
Call(reply) ==
    CASE reply.via = "lost"   -> Infra
      [] reply.via = "raised" ->
            Returned(ParseEnvelope(reply.envelope).err, Absent)
      [] OTHER                -> ParseEnvelope(reply.envelope)

-----------------------------------------------------------------------------
(* The methods: reads and inserts decode the data, writes ignore it *)

\* Every read of one row or a list, and the creations, which read the new id.
Read(reply) ==
    LET c == Call(reply)
    IN IF c.err = "none" /\ c.value \notin Values THEN Infra ELSE c

\* GetWRPRCForIntendedUse: no certificate is a nil one, never an error.
ReadWRPRC(reply) ==
    LET r == Read(reply)
    IN IF r = Returned("none", Empty) THEN Returned("none", Absent) ELSE r

\* DeleteTemplate, RevokeAPIKey, SetIntendedUses, Cancel, MarkCodeRedeemed and
\* SetWebhookState: an error with an empty code is a success to them.
Write(reply) == Returned(Call(reply).err, Absent)
-----------------------------------------------------------------------------
\* The caller of a store never takes a refusal for a success: a code that came
\* back in a row or was raised reaches it unchanged, an answer that says neither
\* is a failure, and a read succeeds with the procedure's own data only.
FaithfulTo(reply) ==
    LET e == reply.envelope
        refused == reply.via # "lost" /\ e.result = "error" /\ e.code # NoCode
        broken == reply.via = "lost" \/ e.result \in {"unknown", "malformed"}
        errors == {Read(reply).err, ReadWRPRC(reply).err, Write(reply).err}
    IN /\ refused => errors = {e.code}
       /\ broken => errors = {"infra"}
       /\ Read(reply).err = "none" =>
             reply.via = "row" /\ e.result = "success" /\ Read(reply).value = e.data
=============================================================================
