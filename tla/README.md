# A TLA+ model of eudi-api-management

TLA+ modules, TLC configurations and TLAPS proofs for the service in `src/`: the
client-facing API in front of `eudi-verifier-core`, with its webhook delivery.
Run `tlc -config <run>.cfg <module>` for a run of the tables below and
`tlapm <module>_proofs.tla` for the proofs of a module.

## 1. The system

### Components, their state and their operations

| Component | Source | State | Operations |
|---|---|---|---|
| Webhook consumer | `internal/webhook/consumer.go` | none of its own; the ids in hand are in memory | `runOnce` (drain the queue, then the due retries), `processOne`, `terminal` |
| Retrier | `internal/webhook/retry.go` | `mgmt:webhook:retry` (ZSET), `mgmt:webhook:attempts:{id}` | `Schedule`, `Due`, `attempts` |
| Deliverer, signer | `consumer.go`, `signer.go` | none | decrypt, map, sign, POST |
| Expiry sweeper | `internal/webhook/sweeper.go` | none | `runOnce`, `notify` |
| Poll and cancel routes | `routes/sessions.go` | none | `getSession`, `cancelSession` |
| Session creation | `routes/sessions.go`, `internal/scope`, `internal/vcclient` | none | `createSession` |
| Template routes | `routes/templates.go` | none | create, list, get, delete |
| Session store | `internal/sessiondb` | session row, reports | `GetForClient`, `Cancel`, `GetReportForClient`, `MarkCodeRedeemed`, `SetWebhookState`, `ExpireDue` |
| Registry store | `internal/registrydb` | clients, intended uses, templates, API keys | the procedures of `repo.go` |
| API-key middleware | `routes/authmw.go` | none | `apiKeyAuth` |
| Verifier | `internal/apikeys` | success cache (map and eviction order) | `Verify`, `cacheLookup`, `cacheStore`; `Parse`, `Mint` |
| Result reader | `internal/results` | none | `Fetch`, `MapReport` |
| Key prefix | `internal/keyspace` | the normalized prefix | `New`, `Key` |
| Rate limits, router, health, config, metrics, redaction | `routes/`, root, `internal/obs` | none in this repository | wiring |

Every replica runs all of it.  The replicas share nothing but PostgreSQL (through
stored procedures) and Valkey, and `eudi-verifier-core` shares both with them.

### How they interact

- `createSession` reads the registry four to six times, then makes one call to
  `eudi-verifier-core`, which creates the session row.
- `eudi-verifier-core` moves the row through `pending` and `wallet_engaged` to
  `verified` or `failed`, writes the report, the handoff payload and (same
  device) a response code with a TTL, and LPUSHes the id on `vc:handoff:queue`.
- Every replica's consumer RPOPs ids, POSTs the result to the client and, on
  failure, puts the id in the retry ZSET.  Any replica may claim it from there.
- Polls read the row, the report, the code index and the payload, in this order,
  each by a call of its own.  Polls, cancels and sweepers may all expire a row.
- Onboarding and the registration service rewrite the registry at any time.

### What is hard about it

- No lock protects a session's delivery.  That it is made by one replica at a
  time, and settled once, rests on RPOP and on the result of ZREM.
- An id that was popped or claimed is in the memory of one process, so each of
  the exits of `processOne` and `Due` has to account for it.
- The consumer makes up to seven remote calls per session.  Each may fail, may
  take effect without the caller learning it, or be the last before a crash.
- A poll, a creation and an authentication each read several things by separate
  calls while other processes change them.
- Any process may end in the middle of a poll, a sweep and a delivery at once, and
  what it leaves half done is taken up by others or by nobody.
- Time: retries have to fit in the payload's TTL, delays double in 64 bits,
  sessions expire under whoever looks at them.

### What makes each component correct

- Delivery: an id is in one place; it is not dropped; it has one outcome, for a
  documented reason; the number of sends is bounded; every owed delivery is
  settled in the end.
- Session: terminal states are final; a released result was redeemed; a code is
  used once and only for its session; a cancel that was answered holds; the
  client is told of the expiry or of the result.
- Creation: what a session asks for was registered, unrevoked, for its client
  during the request; a template is what it was created as; the answer says
  whether a session exists.
- Both together: a client hears of one end of its session, from whichever of poll,
  cancel, result webhook and expiry webhook, and no later answer falls behind it.
- Authentication: revocation is immediate; the cache holds proven successes
  only; its eviction order never parts from its contents; every failure derives.
- The rules at the boundary: a displayed key parses to its parts and nothing else
  parses; a scope admits what the registry wrote; no refusal of a procedure
  reads as a success; poll and webhook carry the same result.

`PROJECT.json` lists the hazards behind these, each at its line.

## 2. The modules

| Module | Models | Lines up with |
|---|---|---|
| `WebhookContract` | the promise to each session: owed, then one outcome, after a bounded number of sends | the comments of `consumer.go` and `retry.go` |
| `WebhookDelivery` | consumer, retrier, deliverer of all replicas | one action per Valkey, PostgreSQL or webhook call |
| `SessionLifecycle` | the row, polls, cancels, sweepers; verifier-core as environment | one action per procedure, command or POST |
| `ApiKeyAuth` | the middleware, the verifier and its cache | one action per registry call, locked cache section or derive |
| `Service` | one service: `SessionLifecycle` and `WebhookDelivery` over one clock, and processes that end as a whole | `app.go`, and verifier-core's handoff |
| `ClientView` | the promise to a client: one end of its session | what polls, cancels and webhooks say |
| `SessionCreation` | `createSession`, template creation and deletion, the writers of the registry | one action per registry or engine call and the checks after it |
| `ApiKeyFormat` | the display form of keys and `Parse` | operators |
| `KeyPrefix` | `keyspace.New` | operators |
| `StoreCall` | `call`, `parseEnvelope`, `resultError`, and what the stores' methods make of a reply | operators |
| `ScopeCheck` | `CheckWithinScope` and the conversion of JSON claim paths | operators |
| `ResultViews` | `Fetch`, `MapReport`, the poll's body and its gate, and the webhook's own mapping | operators |
| `WebhookDelivery_proofs` | theorems about `WebhookDelivery`: types, ownership | |
| `WebhookRetry_proofs` | and the counter, the sends, the TTL and the delay | extends the one before |
| `WebhookOutcome_proofs` | and the outcomes, the refinement of `WebhookContract`, accepted results | extends the one before |
| `SessionLifecycle_proofs`, `ApiKeyAuth_proofs`, `SessionCreation_proofs` | theorems about the module of the name | |
| `Service_proofs` | theorems about `Service`, from those of its two parts | instantiates the proof modules of both |
| `BoundaryRules_proofs` | theorems about the five operator modules and `MCBoundaryRules` | |
| `MCBoundaryRules` | calls every rule of the five operator modules with every input of a bounded set | |
| other `MC*` | symmetry sets and constant values for TLC | |

### WebhookDelivery

`pc[r]` is the call replica `r` makes next: the loops of `runOnce` are `drain`,
`range`, `claim` and `work`, `processOne` runs from `get` to `zadd`.  `cur[r]` is
the id `processOne` was called with, `due[r]` and `claimed[r]` are the two slices
of `Due`, `attempt[r]` and `nextAt[r]` are locals of `processOne` and `Schedule`.
`queue`, `retry`, `score` and `attempts` are the Valkey keys, `wstate` the
column; `delivered` and `failed` are the metric by session, `posts` counts the
calls of `Deliverer.send`.  `posts`, `delivered` and `failed` never guard a step.

Each call may fail in the ways `Faults` lists; names ending in `Ack` are calls
that took effect but whose reply was lost.  Every failing call spends one of
`MaxFaults`.  `Crash` is the end of the process at any point of a cycle.

Decisions worth knowing:

- A payload is one of four kinds, by how far it gets: `malformed` envelope,
  `pollOnly` (no webhook), `undecryptable` (also: result JSON that does not
  parse), `ok`.  The errors of `consumer.go:124` and `:128` are no exits of `Deliver`: they
  are about a report that this call itself decoded and marshalled again.
- `Deliver` either ends a permanent failure, succeeds, or fails transiently.
  Signing and request building are inside `send`, so a `posts` step includes them.
- `Goto`, `Process`, `Return` and `Reset` move the program counter and the locals;
  `Goto` stands for no line of its own.
- The order in which `Due` returns ids is left open.
- The clamp reads one clock for the retry time and for the counter's TTL.
- A poll-only id whose payload is gone cannot be told from any other and is
  counted failed; the contract says so.
- `Delay` is computed in `Width` bits, with the wrap-around of Go's `int64`.

### SessionLifecycle

`status`, `owner`, `flow`, `webhook`, `expiresAt`, `redeemed` are the row; `report`,
`code` and `payload` stand for the report table, the code index and the handoff
payload.  A request in slot `q` is a record with what it has read so far.
Requests come and go in slots, so two slots are two concurrent requests, of any
client, for any session, and one may follow another.

What is assumed of verifier-core, from how `src/` uses it: it creates rows, saves
the report before it moves the row to an outcome, hands off once and after that,
and never moves a row that is not open.  Codes are named by their session; a poll
may present any of them.  `Notify` includes the report read of `Sweeper.notify`,
which changes no state and never keeps the POST from being made.

The error exits are their own steps: `ProcedureFails` when a call did not happen,
`ReplyLost` when it did and the request does not know.  Both answer 500, and what
the procedure or the `GETDEL` did to the row or the code stays.  The sweeper has the
same two (`"sweep"`, `"sweepAck"`) and may end with rows flipped and not notified.

### Service and ClientView

`Service` instantiates both modules and adds no operation of its own.  They share
`now`, `faults` and three couplings: `HandOff` is verifier-core's one handoff, seen by
both; a payload and its response code end for both when their TTL does; and
consumer and sweeper of a replica are goroutines of one process.  `ProcessEnds`
is a crash or a stop: `Stop` closes a channel and does not wait (`consumer.go:270`,
`sweeper.go:66`), so either goroutine ends at any of its calls.  When the process of
`r` ends its consumer's cycle is over and its batch of notices is lost; when its
consumer is between cycles only the batch is.  Requests are not bound to
replicas: a request whose process ends is one that makes no further step.

`told` and `result` are ghosts.  `told[s]` collects each terminal state the client of
`s` was given: by a poll (200), the answer to a cancel (204), a POST of the result
or a POST of the expiry.  A POST counts as read whatever its answer.  `ClientView`
says that the state given is the one end the session came to, and never before.
A row that is cancelled holds in particular: no later poll or webhook tells of
another end.

`knew[q]` is a third ghost: what the client had been told when the request in `q`
came.  `AnswersKeepUp` says that the answer is bound by it.  `ClientView` allows a
poll to say nothing of an end its client knows of; this property does not: after an
expiry notice, a result webhook or another call's answer, a poll no longer finds the
session open, and a cancel is refused.

### The rules at the boundary

Five modules of operators, each with its reference definition.  The operator
is the code; the reference says what it is for, from the other side:

- `ApiKeyFormat`: `Parse` against the set of displayed keys (`Inverts`).
- `KeyPrefix`: `New` against a normal form: one closing colon, idempotent, blind to
  space around the prefix and to a colon put directly after it (`Normal`).  It is not
  blind to a space before that colon, which `New` keeps: `a :` and `a` are two prefixes,
  `a :` and `a:`, and `Normal` says so.
- `StoreCall`: the layers of `call` and of the methods against what the procedure
  said (`FaithfulTo`).
- `ScopeCheck`: conversion and comparison of typed paths against the registry's
  own JSON, compared as written (`ScopeExact`).  A number counts halves, so that
  `1.5` is an input.
- `ResultViews`: `Poll` of a row and a payload against `Webhook` of the payload
  (`SameView`).  The two loops over the credentials (`MapCredential`,
  `WebhookCredential`) are translated each from its own lines, field by field, and each
  view has its own gate.  The row comes with `redeemed`, which `SessionLifecycle` has the
  actions of.  An unredeemed same-device poll and a poll after the payload's TTL differ
  from the webhook in the claims alone.  `Malformed` stands for an envelope, a
  ciphertext or a result that does not decode.  `IssuerCountry` and `CredentialRef` are
  left empty by both, and a check's code and reference are copied by the one `MapReport`
  both call, so the model has no such fields.

### ApiKeyAuth

`cached`, `entry` and `order` are the verifier's cache.  `CacheLookup` and
`CacheStore` are the two sections under the mutex; `Derive`, between them, is
where other requests get in.  The entry's life counts from the clock read before
the derive (`at`).  The secret behind `DummyPHC` is nobody's, so a derive against
it fails.  `revokedBefore` is a ghost: the key was revoked when the request came.

### SessionCreation

A query and a scope are sets of claims; the empty query stands for one that does
not parse or validate.  A URL is its origin.  `SetIntendedUses` replaces a
client's registrations as the procedure does, `UpdateClient` its row.  `offers`
is a ghost: what the client had in force at any moment of the request.
`minted` and `session` are what the engine made of the request.  Which webhook URL
the session gets is not told apart, only whether an override is allowed.

## 3. The runs

Passing:

| Run | Module | Question | Bounds |
|---|---|---|---|
| `webhook_delivery` | `MCWebhookDelivery` | ownership, single outcome, bounded sends and the refinement of `WebhookContract`, whatever two calls fail, lose their reply or are a process's last | 2 replicas, 2 sessions, all 4 kinds, 1 retry, TTL 3 of 5 ticks, 2 failures |
| `webhook_liveness` | `MCWebhookDelivery` | no id is dropped and every owed delivery is settled; what a client accepted is not sent again; the delay never wraps; retries stay in the TTL | 2 replicas, 1 session, all kinds, 5-bit durations, 20 attempts, half-second ticks, 2 failures that lose no id |
| `session_requests` | `MCSessionLifecycle` | polls, cancels, outcome and sweepers racing on one row, lost calls and lost replies | 2 requests, 2 clients, 2 sweepers, 2 failures |
| `session_sweep` | `MCSessionLifecycle` | due sessions expire under fairness; a code presented to another session | 2 sessions of either flow, batch of 1, 1 request, 1 sweeper |
| `apikey_auth` | `MCApiKeyAuth` | all invariants of the boundary | 3 keys (one corrupt), 2 concurrent requests, 1 cache entry, 1 tick |
| `creation_scope` | `MCSessionCreation` | who may ask for what, templates under concurrent requests | 2 clients, 2 requests, 1 use, 2 scopes, 1 template, 2 registry changes |
| `creation_flows` | `MCSessionCreation` | flows, origins, the choice of the intended use, lost answers | 3 flows, 2 origins (one not a web origin), 2 uses, 2 registry changes |
| `service` | `MCService` | the composition implements `ClientView`, and answers keep up with what the client was told, with processes that end | 2 replicas, 1 session of the cross-device flow with a webhook, 1 request, 1 retry, payload TTL 2 of 3 ticks, any 2 of 6 delivery failures or ends |
| `boundary_rules` | `MCBoundaryRules` | every rule against its reference | below |

Why the bounds are enough.  Two replicas are the smallest number that can race on
a claim, and a third would do what the second does.  Two sessions are what a
partly claimed batch needs.  One retry reaches the bound, the clamp and
the counter read of a second replica.  Two failures let one strike what another
left behind.  A duration of five bits wraps at the fourth doubling, which the
attempts of `webhook_liveness` would reach if the clamp did not stop them.
Requests race in pairs.  A batch of one leaves the second due session for
the next cycle.  A cache of one entry evicts, refreshes and inserts
again with two keys.  The service needs both replicas for what a dead one
leaves behind, and one session, since nothing is shared between sessions but the
queue, which `webhook_delivery` covers with two; its poll-only payloads and its
failures of every kind are in the other runs too.  Two registry changes are the
least that register a scope and then replace or revoke it, or register one for each client.

`boundary_rules`: presented keys up to 6 characters, of which the valid ones have
exactly 6 (scheme, prefix, secret of 1, 1 and 2), over both separators and
characters of every class; prefixes up to 6 characters of a colon, a blank and a
letter; every reply of 2 codes, 2 values; queries of up to two claims of one path
element of every kind, against two intended uses of a credential each and an id of
either or of none; rows of every flow, redeemed or not, with a report of a check of every
outcome, and payloads of up to two credentials in two formats and two types, or none that
decodes.  A path
is converted element by element and compared whole, so one element suffices.

Symmetry is used where the sets are interchangeable and no liveness is checked.
No cfg turns the deadlock check off: in every model some step (a new request, the
next cycle) is always possible.

Runs that end in a violation, each a disagreement between the code and what a
comment or the repository's README says:

| Run | Property | What happens |
|---|---|---|
| `due_claim_error` | `NoSilentDrop` | ZREM errs in the middle of `Due`; the ids claimed before it are lost (`retry.go:128`) |
| `attempts_read_error` | `PostsBounded` | the counter cannot be read, counts as 0 and is written back as 1 (`consumer.go:380`) |
| `expired_unnotified` | `ExpiredIsNotified` | a row expired by a poll is not due any more when the sweeper comes (`sweeper.go:73`) |

What the consumer's properties do not survive is as telling.  `NoSilentDrop` holds
under failures that are retried or settled only: a crash, a lost RPOP reply, a
failed claim or a failed re-enqueue loses the id.  One session is enough for it in
`webhook_liveness`: the only step that loses an id because of another is the
failing claim of `due_claim_error`.  `SettledOnce` and the refinement fail when a
ZADD takes effect and its reply is lost: the session is counted failed and
delivered later.  `NotSentAgain` is what is left of single delivery then: it holds under
every failure, and `webhook_liveness` checks it with failing writes of `Schedule` and lost
ZADD replies.  It too ends with the process: a replica that dies between the 2xx and
the metric leaves an id nobody holds, so nothing is sent twice, but nothing is counted.
`StateMatchesOutcome` fails when `SetWebhookState` does, which is only logged, and a
dead process leaves `delivering` on the row; its last conjunct is about runs of
the code in which nothing failed.
`FailureJustified` fails when a write of `Schedule` does, see below.  The runs leave
exactly these failures out, and their `Faults` say so: `webhook_delivery` and `service`
let an id be lost; the one shows that nothing worse comes of it for the delivery, the other
that the client is told nothing wrong.

Smaller divergences met while modelling, which no run is spent on:

- `consumer.go:310` says a re-enqueued id waits "for a later cycle"; the drain
  loop pops it again in the same one (`consumer.go:329`).
- The README's polling diagram says an open state has "no report yet"; state and
  report are two reads (`sessions.go:326`, `:342`), so it may have one.
- The README's diagram of the auth boundary gives one uniform 401; a valid key
  of a client that is not active is answered 403 (`authmw.go:110`), as the
  comment of `apiKeyAuth` says.
- `templates.go:21` says a stored template "can never outrun what the client is
  registered for"; registrations may be replaced after it was stored, and also between the
  handler's scope check and the insert, which reads the use again but not its scope.
  `TemplatesStartInForce` therefore speaks of a scope the use had during the request.
  Session creation checks again, which `AuthorizedDuringRequest` is about.
- `consumer.go:383` takes every error of `Schedule` for a terminal failure, a failed
  write of the counter or of the ZSET included, and not only `ErrExhausted` and
  `ErrExpired`; the README (`:234`) has retries until one of these two.
- An `error` envelope without a code is no error (`db.go:33`, as its comment says), so
  `DeleteTemplate` and the other writes then report success.  `NoErrorLost` speaks of codes
  that are there.
- `keyspace.go:18` trims space before colons and not again after: a prefix configured as
  `a :` becomes `a :`, not the `a:` that `a` and `a:` become.  Its comment's "trims whitespace
  and any trailing ':'" may be read either way; `PrefixNormal` states what it does.
- The Fake answers `not_found` for the WRPRC of a use that is gone (`fake.go:128`, "mirrors
  the procedure's two distinct absent cases"), while `repo.go:175` says "the procedure always
  returns success".  `GetWRPRC` allows both, and no property depends on which it is.
- A claim path index `1.5` is cut to `1` when it was decoded as `float64` and refused as
  `json.Number` (`scope.go:133`, `:138`).  `ScopeMatchesRegistry` excludes fractions, and its
  numbers are within the range of an `int`.
- A stored report that is JSON `null` maps to an empty report, not to none.
- An empty 2xx answer of the engine to a creation is taken for a session with an
  empty id (`client.go:163`); only one that does not decode is refused.
- A key whose stored hash does not decode is refused without a derive (`apikeys.go:316`);
  `FailuresAlwaysDerive` leaves such keys out.
- A PHC string with any of `m`, `t` and `p` decodes, zero included, although the
  comment of `decodePHC` rejects an unknown parameter set outright.

### Fairness

`WebhookDelivery!FairSpec`: weak fairness of the clock and of each replica's work.
The goroutine of `Consumer.Start` runs a cycle on every tick until it is stopped,
and every call in it returns (the POST has a timeout, the clients of Valkey and
PostgreSQL have theirs).  Crashes are not in that run.  `SessionLifecycle!FairSpec`
assumes the same of the sweeper's loop and of handlers that have begun.  Nothing
is assumed of clients, wallets or verifier-core.

## 4. The proofs

Every invariant and every action property of the passing runs is proved, for all
values of the constants: any number of replicas, sessions, requests, keys, templates
and failures, any TTL, limit, width and string length.  What a run needs in
addition to a theorem is liveness alone.

### The theorems

| Module | Theorem | Property | Failures left out |
|---|---|---|---|
| `WebhookDelivery_proofs` | `TypeCorrect` | `TypeOK` | none |
| | `OwnershipHolds` | `ExclusiveOwnership` | `zaddAck` |
| | `OneOutcome` | `SettledOnce` | `zaddAck` |
| `WebhookRetry_proofs` | `RetriesInTime` | `RetryInsideTTL` | none |
| | `SendsBounded` | `PostsBounded` | `zaddAck`, `attempts` |
| | `CounterExact` | `AttemptCounterExact` | `zaddAck`, `attempts` |
| | `NoWrap` | `BackoffNeverWraps` | none; `DurationsFit` |
| `WebhookOutcome_proofs` | `FailuresJustified` | `FailureJustified` | `zaddAck`, `attempts`, `set`, `zadd`; `DurationsFit` |
| | `NothingDropped` | `NoSilentDrop` | `crash`, `lpush`, `rpopAck`, `zrem`, `zremAck` |
| | `RowsMatch` | `StateMatchesOutcome` | `zaddAck`, `state` |
| | `ImplementsContract` | `ContractSpec` | `zaddAck`, `attempts` |
| | `AcceptedOnce` | `NotSentAgain` | none |
| `SessionLifecycle_proofs` | `TypeCorrect`, `FinishedStays`, `OutcomesReported`, `ReleaseGated`, `CodesSingleUse`, `NoticesExclusive` | `TypeOK`, `TerminalIsForever`, `OutcomeHasReport`, `ReleaseNeedsRedemption`, `CodeSingleUse`, `OneKindOfNotice` | none |
| | `CodesKept` | `CodeKeptForItsSession` | `call`, `getdelAck` |
| `ApiKeyAuth_proofs` | `TypeCorrect`, `EvictionOrderHolds`, `OnlySuccessesCached`, `RevocationHolds`, `ProofRequired`, `FailuresCostADerive` | `TypeOK`, `OrderMatchesCache`, `CacheHoldsSuccesses`, `RevocationIsImmediate`, `AuthenticatedHasProof`, `FailuresAlwaysDerive` | none |
| `SessionCreation_proofs` | `TypeCorrect`, `SessionsAuthorized`, `TemplatesPinned`, `EngineSatisfied`, `AnswersTell`, `TemplatesInForce` | `TypeOK`, `AuthorizedDuringRequest`, `SessionFromOwnTemplate`, `EngineNeverRefuses`, `AnswerTellsOutcome`, `TemplatesStartInForce` | none |
| `Service_proofs` | `ImplementsClientView` | `ClientViewSpec` | none |
| | `AnswersFollowNews` | `AnswersKeepUp` | none |
| `BoundaryRules_proofs` | `ParserInverts`, `PrefixesNormal`, `RefusalsReachTheCaller`, `ScopeIsTheRegistered`, `OneViewOfAResult` | `ParseInvertsMint`, `PrefixNormal`, `NoErrorLost`, `ScopeMatchesRegistry`, `PollAndWebhookAgree` | |
| | `ScopeIsExact`, `ViewsAgree` | the last two for inputs of any size | |

### The assumptions

A failure left out is a hypothesis on `Faults` (or `DeliveryFaults`) of the
theorem, and each is needed:

- `zaddAck`: with a lost ZADD reply a session is counted failed and is delivered
  later, so that ownership and everything built on it are false.
- `attempts`: a counter that cannot be read counts as 0 (`consumer.go:380`), which
  run `attempts_read_error` shows.
- `set`, `zadd`: a failed write of `Schedule` is settled as a failure of the
  delivery, which is not among the documented reasons.
- the failures of `NothingDropped`: the id is in memory only; `due_claim_error`.
- `state`: a write of the row's webhook state is tried once, and its error only logged.
- `call`, `getdelAck` of the lifecycle: a code is deleted before the redemption is
  recorded, so an error in between spends it.

The configurations of the runs leave out the same ones, as section 3 says.

The constants are assumed as the modules declare them:

- `ConfigAssumption`, `LifecycleAssumption`, `AuthAssumption`, `CreationAssumption`,
  `ServiceAssumption`: positive TTLs, limits and attempts, as the code's configuration
  defaults them; known names of kinds, flows and faults; `None` and the other markers are no
  member of the set they mark the absence of.  Sessions are finitely many where a
  batch of them is counted.
- `PowerAssumption` of `WebhookDelivery`: the powers of two up to the width of a
  `Duration` double.  It is evident, but the provers have no theory of exponents.
- `DurationsFit`: the retry base, and twice the result TTL, fit a `Duration`.  At 64
  bits of nanoseconds, this allows a TTL of 146 years.
- `FormatAssumption`, `PrefixAssumption`, `StoreAssumption`, `ViewAssumption`,
  `MarkersAssumption`: the separator is no Crockford character and not in the
  scheme; a colon is no blank; an absent value, an undecodable one and an error
  are told apart from data.

TLC evaluates all but `DurationsFit` in the runs of their modules;
`DurationsFit` holds of the 5-bit durations of `webhook_liveness`, the run of
`BackoffNeverWraps`.

### The delivery

`TypeOK` is inductive.  It includes that an id is in hand exactly when the replica
is inside `processOne`; without it the types of `Head(queue)` and of the arrays
indexed by `cur[r]` could not be kept.

Neither `ExclusiveOwnership` nor `SettledOnce` is inductive.  An id in one place
may be counted there a second time if it had been settled before, and a handoff
could bring an id that is somewhere already.  The invariant is `OwnInv`: the
queue has no duplicates, and for each session `Owned(s)`, that is

- it is in at most one place (`Alone`);
- if it has not been handed off it is nowhere and not settled;
- if it is settled it is nowhere;
- it has at most one outcome.

Its preservation is proved along four shapes of steps rather than action by action:
steps that only release ids (`HandsShrink`, `OwnShrinks`), that move one id to a
place it was not in (`OwnMoves`), that settle the id in hand (`OwnSettles`), and
the handoff.  `OwnNext` assigns each action its shape.

`WebhookRetry_proofs` adds, each layer on those before it:

- `HandInv`, what is known of an id by where it is: at `zadd` the retry time lies
  inside the TTL and the counter is written, past `post` there was a send, before the
  handoff there is nothing.  It needs no ownership and holds under all failures.
- `CountInv`, the counter against the sends.  They are equal (`Even`) wherever a session
  waits, and one apart between a send and the write that records it (`Unrecorded`).
  There the counter a replica read is still the counter, because the id
  is its own: this is where `OwnInv` comes in.
- `BackInv`: whatever counter was written or is held, the delay it gives fits
  (`Fits`).  A larger one is only ever written after the delay before it had passed the
  clamp, so that doubling it stays below twice the TTL.

`WebhookOutcome_proofs` adds `FailInv` (a session failed or about to fail has a
reason, and reasons last, since time only grows), `NoSilentDrop` with `HandInv`
as its own invariant, `RowInv` (the row against the outcome), and the refinement:
`ContractNext` maps the handoff to `Finish`, a send to `Post`, the two ways to settle to
`Deliver` and `Fail`, and all else to a stutter.  The bound on sends in the
contract is `CountInv`'s.

`AcceptedOnce` cannot use `OwnInv`, which a lost ZADD reply breaks: the id is then in the
retry set and in the hand of a replica at once.  `SoleInv` is weaker and survives it, since
that replica is at `fail` and will not send: at most one place may lead to a send
(`Sole`, `MaySend`), and none once the session was delivered.  The steps are those that take nothing
up (`SoleShrinks`), that take an id up (`SoleTakes`), and that put it down or count it
(`SolePuts`).

### The session

`SessionLifecycle_proofs`: the invariant is types and four parts.

- `Knows(r)`: what a request has read is still so.  It can be, because `Grows` never
  goes back: terminal states, reports, redemptions and handoffs stay,
  and a code that was taken does not return.  That is what makes a poll's five reads
  add up to one answer.
- `RowOK(s)`: outcomes have a report, payloads an outcome, a code is live only
  while nobody redeemed it, a notice is of an expired session and the only one.
- `OneRedeemer`: between GETDEL and `MarkCodeRedeemed` at most one request holds a code.
- `BatchesOK`: a due session is in one sweeper's batch, expired and not notified.

`CodeKeptForItsSession` is inductive next to it: only a poll of a same-device session
takes a code (`Knows`), so that the code of the only one is taken for it, and what follows
in that poll is `MarkCodeRedeemed`.

### The composition

`Service_proofs` does not repeat these proofs.  It instantiates the two proof modules,
shows that the actions are the same (`SameCore` to `SameDelivery`), and that every step
of the service is a step of each part or something the part's invariant does not
mind (`StepParts`): time that ends payloads, a sweeper or a consumer that dies with
its process, failures spent by the other (`Rows!Outside`, `DeliveryAside`).

For `ClientView` neither part is enough.  `ServiceInv` adds `Linked`, that the result
handed to the consumers is the state the row ended in, and `Heeded`, that the end
a request read is the row's.  It follows (`HeardIsTrue`) that all a client can hear is the
end on the row.  Each step then either brings news to one client and moves no
session (`NewsFor`, a `Tell` of `ClientView`) or moves sessions and brings no news
(`Moving`, a `Create` or an `End`): a poll or cancel that moves its row never answers in
the same step (`MoveUnanswered`).  `ImplementsClientView` holds under all failures.

So does `AnswersFollowNews`.  All a client was told is the end on the row for good
(`ToldTrue`).  A request that arrives after it finds it there: whatever it has read of the
row is that end, and it does not get to cancel (`Heeds`, kept by every step of the lifecycle:
`HeedsNext`).  `KnewInv` is `Heeds` of all the client knew when its request came.

### Authentication, creation, the rules

`ApiKeyAuth_proofs`: `OrderMatchesCache` is inductive with `TypeOK`, and the work is in
the sequence lemmas of the eviction.  The others rest on `AuthInv`: the cache
holds successes of keys that exist, and every request is `Honest`, what it established so far
holds.  A key once revoked stays revoked, which is all that revocation needs,
since the middleware looks at the registry on every request.

`SessionCreation_proofs`: `Knows(q, r)` follows a request.  While it is handled, `offers[q]`
includes its client's registrations in force; past the authorisation its query was granted
(`Granted`), and so it is of a template request at the insert; past `GetTemplate` its use and
query are the template's (`Pinned`), deleted or not, because a template never changes.

`BoundaryRules_proofs`: facts about least and greatest positions, then about parts of
sequences, then one lemma for each rule: `ParseInverts`, `PrefixIsNormal`, `StoresFaithful`,
`ScopeIsExact`, `ViewsAgree`, for inputs of any size.  `CallsOK` says what the
specification calls a rule with, so that each lemma applies.

### Only model-checked

- `EventuallySettled` and `DueSessionsExpire`: liveness under fairness, which is
  out of the prover's reach.
- The three runs that end in a violation: each needs one counterexample and no proof.

## 5. What is not modelled

- Cryptography (signing, AES-GCM, Argon2), JSON and PHC decoding, URL parsing:
  each is its outcomes.  The signer is a way `Deliver` may fail.
- List and get of templates only read, and `CreateClient` as an action: a client
  is there from the start.
- The rate limiter: this repository configures azugo's, whose counters are there.
- Start-up, configuration, routing, health probes, API types, redaction, metrics
  other than the delivery counters: no state that anything else depends on.
- PostgreSQL procedures are atomic, with the semantics `sessiondb.Fake` and
  `registrydb.Fake` mirror; the procedures themselves are not in this repository.
- `ProcessEnds` covers `Stop` during a cycle; `Stop` before `Start`, which closes a channel
  not yet made, is an order `app.go` never uses.

## 6. Plan

Order, most important first; all but item 8 are done.

1. `WebhookDelivery`, `WebhookContract`: delivery across replicas, its refinement.
2. The proofs of ownership and single outcome, as the pattern for the others.
3. `SessionLifecycle`: the row and everyone who moves it.
4. `ApiKeyAuth`: middleware and cache.
5. `SessionCreation`: authorisation against a changing registry.
6. `Service`, `ClientView`: one session from its row to its webhook, and what its
   client hears of it.
7. The rules at the boundary against reference definitions.
8. `originAllowed` and `isWebOrigin` on URLs instead of origins; template listing.
9. Proofs of every invariant, action property and refinement of the passing runs
   (section 4), by component in the order above.

Left: item 8, and a theorem on each half of `ProcessEnds` alone, that is on what
a dead process leaves to the others.
