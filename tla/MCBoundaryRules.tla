-------------------------- MODULE MCBoundaryRules --------------------------
(***************************************************************************)
(* The rules without state the service applies where data comes in or goes *)
(* out, each called with every input of a bounded set: presented API keys, *)
(* configured key prefixes, replies of stored procedures, queries against  *)
(* registered scopes, and finished sessions.                               *)
(***************************************************************************)
EXTENDS ApiKeyFormat, KeyPrefix, StoreCall, ScopeCheck, ResultViews, FiniteSets

CONSTANTS
    Characters,  \* of presented keys
    Printable,   \* of configured prefixes, besides Colon and Blank
    MaxLength,   \* bound on the length of both
    Names,       \* keys in claim paths
    Types,       \* credential types
    UseIds,      \* ids of intended uses
    CheckNames, FailCodes,                    \* of reports
    QueryIds, Formats, Doctypes, ClaimValues  \* of the credentials of a result

\* keyScheme, shortened
Scheme == <<"v">>

VARIABLE call  \* the rule in use and its input

NoCall == [rule |-> "none"]

Init == call = NoCall

Strings(chars) == UNION {[1..n -> chars] : n \in 0..MaxLength}

PresentKey ==
    /\ call = NoCall
    /\ \E s \in Strings(Characters) : call' = [rule |-> "Parse", key |-> s]

PrefixCharacters == Printable \cup {Colon, Blank}

ConfigurePrefix ==
    /\ call = NoCall
    /\ \E p \in Strings(PrefixCharacters) :
          call' = [rule |-> "New", prefix |-> p]

CallProcedure ==
    /\ call = NoCall
    /\ \E r \in Replies : call' = [rule |-> "Call", reply |-> r]

\* One claim of a path of one element to ask for, or two; the registered paths
\* hold every kind of element.
Claims == [type : Types, path : {<<e>> : e \in {Key(n) : n \in Names}
                                     \cup {Index(0), Index(1), Wildcard}}]
JsonPaths == {<<e>> : e \in {JsonKey(n) : n \in Names}
                  \cup {JsonNumber(h) : h \in -1..2} \cup {JsonNull, JsonOther}}
Registered(n) ==
    [types : {{t} : t \in Types}, all : BOOLEAN,
     claims : UNION {kSubset(k, JsonPaths) : k \in 0..n}]

CheckScope ==
    /\ call = NoCall
    /\ \E a, b \in Claims, c \in Registered(2), d \in Registered(1), i \in UseIds :
          call' = [rule |-> "Scope", query |-> {a, b}, id |-> i,
                   uses |-> <<[id |-> "u1", credentials |-> {c}],
                              [id |-> "u2", credentials |-> {d}]>>]

Outcomes == {"passed", "failed", "skipped"}

Reports ==
    {None, Malformed} \cup
    [checks : {<<>>} \cup {<<c>> : c \in [check : CheckNames, outcome : Outcomes]},
     failCode : FailCodes \cup {NoFailCode}]

Credentials == [queryCredentialId : QueryIds, format : Formats,
                doctypeOrVct : Doctypes, claims : ClaimValues]

\* Only a same-device session has a code to redeem.
Rows == {r \in [flow : {"same_device", "cross_device", "dcapi"}, redeemed : BOOLEAN,
                status : {"verified", "failed"}, report : Reports] :
            r.redeemed => r.flow = "same_device"}

\* What verifier-core wrote for the row, with up to two credentials, or what does
\* not decrypt.
PayloadsOf(row) ==
    {Malformed} \cup
    [outcome : {row.status}, report : {row.report},
     credentials : {<<>>} \cup UNION {[1..n -> Credentials] : n \in 1..2}]

\* The same with any number of checks and credentials, and what is made of it;
\* none of it is one of the markers for its absence.
RawReports == [checks : Seq([check : CheckNames, outcome : Outcomes]),
               failCode : FailCodes \cup {NoFailCode}]
RawPayloads == [outcome : {"verified", "failed"}, credentials : Seq(Credentials),
                report : {None, Malformed} \cup RawReports]
MappedChecks == [check : CheckNames, outcome : Outcomes \cup {"skipped_by_policy"}]
MappedReports == [report : {None} \cup Seq(MappedChecks), failure : {None} \cup FailCodes]
Results == [credentials : Seq([queryId : QueryIds, format : Formats,
                               doctypeOrVct : Doctypes, claims : ClaimValues])]
Fetched == [result : {None} \cup Results, report : {None} \cup Seq(MappedChecks),
            failure : {None} \cup FailCodes]
Bodies == [state : {"verified", "failed"}, report : {None} \cup Seq(MappedChecks),
           failure : {None} \cup FailCodes, result : {None} \cup Results]

ASSUME MarkersAssumption ==
    \A m \in {None, Malformed, Error} :
        m \notin RawReports \cup RawPayloads \cup MappedReports \cup Results
                     \cup Fetched \cup Bodies

FinishSession ==
    /\ call = NoCall
    /\ \E r \in Rows : \E p \in PayloadsOf(r) :
          call' = [rule |-> "View", row |-> r, payload |-> p]

Return == call # NoCall /\ call' = NoCall

Next ==
    \/ PresentKey \/ ConfigurePrefix \/ CallProcedure \/ CheckScope \/ FinishSession
    \/ Return

Spec == Init /\ [][Next]_call
-----------------------------------------------------------------------------
(* The rules, for the input of the call *)

\* apikeys.Parse accepts exactly the keys Mint displays, separators inside the
\* secret included, and gives back their parts.
ParseInvertsMint == call.rule = "Parse" => Inverts(call.key)

\* keyspace.New gives a prefix one form whatever space is around it and however
\* many colons follow it, so that processes configured so share their keys; a
\* space before the colon makes another prefix.
PrefixNormal == call.rule = "New" => Normal(call.prefix)

\* The stores never turn a refusal or a failure of a procedure into a success.
NoErrorLost == call.rule = "Call" => FaithfulTo(call.reply)

\* scope.CheckWithinScope accepts what the named intended use registers, path by
\* path as the registry writes them, and nothing else.
ScopeMatchesRegistry ==
    call.rule = "Scope" => ScopeExact(call.query, call.uses, call.id)

\* A poll and the webhook of one session carry the same state, report, failure
\* and claims, although each maps the credentials with a copy of its own and
\* gates the claims by itself; what a same-device poll without a redemption and
\* one after the payload's TTL leave out is the claims alone, and a payload that
\* does not decode is an error to both and an empty result to neither.
PollAndWebhookAgree == call.rule = "View" => SameView(call.row, call.payload)
=============================================================================
