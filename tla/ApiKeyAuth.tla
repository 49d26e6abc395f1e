----------------------------- MODULE ApiKeyAuth -----------------------------
(***************************************************************************)
(* The API-key middleware of routes/authmw.go in front of every /api/v1    *)
(* route, and the Verifier of internal/apikeys it calls: concurrent        *)
(* requests in one process share the success cache, the registry changes   *)
(* under them, and a slow argon2id derive separates the cache lookup from  *)
(* the cache store.                                                        *)
(*                                                                         *)
(* A presented key is the registry key its prefix names, "unknown" or      *)
(* "malformed", with a secret.  A derive succeeds for the secret "right"   *)
(* of a real key; the fixed secret behind DummyPHC is never presented.     *)
(***************************************************************************)
EXTENDS Integers, Sequences, FiniteSets

CONSTANTS
    Keys, Clients, Requests,
    Dummy,     \* DummyKeyID
    Corrupt,   \* keys whose stored hash decodePHC rejects
    CacheTTL, CacheCap,
    MaxTime    \* bound on the clock

ASSUME AuthAssumption ==
    /\ Dummy \notin Keys
    /\ Corrupt \subseteq Keys
    /\ CacheTTL \in Nat /\ CacheCap \in Nat \ {0}
    /\ MaxTime \in Nat
    /\ {"unknown", "malformed"} \cap Keys = {}

Slots == Keys \cup {Dummy}
Named == Keys \cup {"unknown", "malformed"}

VARIABLES
    now,
    keyState,  \* keyState[k]: "absent", "live" or "revoked"
    owner,     \* owner[k]: the client the key was created for
    active,    \* active[c]: the client's status is "active"
    cached,    \* slots with a cache entry
    entry,     \* entry[i]: secret and expiresAt of the entry in slot i
    order,     \* slots in insertion order, oldest first
    req        \* req[q]: the request in slot q, what it read and its answer

registry == <<keyState, owner, active>>
cache    == <<cached, entry, order>>
vars     == <<now, registry, cache, req>>

NoEntry == [secret |-> "none", expiresAt |-> 0]

Idle == [step |-> "idle", key |-> "malformed", secret |-> "wrong",
         known |-> FALSE, revoked |-> FALSE, active |-> FALSE, at |-> 0,
         ok |-> FALSE, derived |-> FALSE, http |-> 0, revokedBefore |-> FALSE]

Init ==
    /\ now = 0
    /\ keyState = [k \in Keys |-> "absent"]
    /\ owner \in [Keys -> Clients]
    /\ active = [c \in Clients |-> TRUE]
    /\ cached = {}
    /\ entry = [i \in Slots |-> NoEntry]
    /\ order = <<>>
    /\ req = [q \in Requests |-> Idle]

Clock ==
    /\ now < MaxTime
    /\ now' = now + 1
    /\ UNCHANGED <<registry, cache, req>>

-----------------------------------------------------------------------------
(* The registry *)

CreateAPIKey(k) ==
    /\ keyState[k] = "absent"
    /\ keyState' = [keyState EXCEPT ![k] = "live"]
    /\ UNCHANGED <<now, owner, active, cache, req>>

RevokeAPIKey(k) ==
    /\ keyState[k] # "absent"
    /\ keyState' = [keyState EXCEPT ![k] = "revoked"]
    /\ UNCHANGED <<now, owner, active, cache, req>>

SetClientStatus(c) ==
    /\ active' = [active EXCEPT ![c] = ~@]
    /\ UNCHANGED <<now, keyState, owner, cache, req>>

-----------------------------------------------------------------------------
(* apiKeyAuth *)

\* A request arrives; revokedBefore remembers whether its key was revoked.
Present(q) ==
    /\ req[q].step \in {"idle", "done"}
    /\ \E k \in Named, x \in {"right", "wrong"} :
          /\ x = "right" => k \in Keys
          /\ req' = [req EXCEPT ![q] =
                       [Idle EXCEPT !.key = k, !.secret = x,
                                    !.step = IF k = "malformed" THEN "verify" ELSE "lookup",
                                    !.revokedBefore =
                                        k \in Keys /\ keyState[k] = "revoked"]]
    /\ UNCHANGED <<now, registry, cache>>

\* Mutant: an unknown prefix is refused without calling Verify.
LookupRefuses(q) ==
    /\ req[q].step = "lookup"
    /\ LET k == req[q].key
           known == k \in Keys /\ keyState[k] # "absent"
       IN req' = [req EXCEPT ![q].step = IF known THEN "verify" ELSE "decide",
                             ![q].known = known,
                             ![q].active = known /\ active[owner[k]]]
    /\ UNCHANGED <<now, registry, cache>>

\* GetClientByKeyPrefix; a prefix no row has leaves the dummy pair in place.
Lookup(q) ==
    /\ req[q].step = "lookup"
    /\ LET k == req[q].key
           known == k \in Keys /\ keyState[k] # "absent"
       IN req' = [req EXCEPT ![q].step = "verify",
                             ![q].known = known,
                             ![q].revoked = known /\ keyState[k] = "revoked",
                             ![q].active = known /\ active[owner[k]]]
    /\ UNCHANGED <<now, registry, cache>>

\* The registry may fail at any call.
LookupFails(q) ==
    /\ req[q].step = "lookup"
    /\ req' = [req EXCEPT ![q].step = "done", ![q].http = 500]
    /\ UNCHANGED <<now, registry, cache>>

\* The cache slot Verify is called with.
Slot(q) == IF req[q].known THEN req[q].key ELSE Dummy

\* Mutant: the entry's secret is not compared.
HitAnySecret(q) == Slot(q) \in cached /\ now <= entry[Slot(q)].expiresAt

\* A live cached success for the presented secret.
Hit(q) ==
    LET i == Slot(q) IN
    i \in cached /\ now <= entry[i].expiresAt /\ entry[i].secret = req[q].secret

\* Verify: the clock and cacheLookup
CacheLookup(q) ==
    /\ req[q].step = "verify"
    /\ \/ Hit(q) /\ req' = [req EXCEPT ![q].step = "decide", ![q].ok = TRUE]
       \/ ~Hit(q) /\ req' = [req EXCEPT ![q].step = "derive", ![q].at = now]
    /\ UNCHANGED <<now, registry, cache>>

\* Mutant: failures are cached as well.
DeriveStoresAll(q) ==
    /\ req[q].step = "derive"
    /\ req' = [req EXCEPT ![q].ok = req[q].known /\ req[q].secret = "right",
                          ![q].derived = TRUE, ![q].step = "store"]
    /\ UNCHANGED <<now, registry, cache>>

\* Verify: decodePHC and the derive
Derive(q) ==
    /\ req[q].step = "derive"
    /\ LET decodes == Slot(q) \notin Corrupt
           ok == req[q].known /\ decodes /\ req[q].secret = "right"
       IN req' = [req EXCEPT ![q].ok = ok, ![q].derived = decodes,
                             ![q].step = IF ok THEN "store" ELSE "decide"]
    /\ UNCHANGED <<now, registry, cache>>

\* Mutant: one entry too many fits.
FullOneMore == Len(order) > CacheCap

\* Another slot needs the place of the oldest.
Full == Len(order) >= CacheCap

\* cacheStore with the time Verify read before it derived
CacheStore(q) ==
    /\ req[q].step = "store"
    /\ LET i == Slot(q)
           isNew == i \notin cached
           evicted == IF isNew /\ Full THEN {Head(order)} ELSE {}
       IN /\ cached' = (cached \ evicted) \cup {i}
          /\ entry' = [j \in Slots |->
                         IF j = i THEN [secret |-> req[q].secret,
                                        expiresAt |-> req[q].at + CacheTTL]
                         ELSE IF j \in evicted THEN NoEntry ELSE entry[j]]
          /\ order' = IF isNew
                      THEN Append(IF Full THEN Tail(order) ELSE order, i)
                      ELSE order
    /\ req' = [req EXCEPT ![q].step = "decide"]
    /\ UNCHANGED <<now, registry>>

\* Mutants: the revoked check is missing; an unknown prefix shows as 404.
VerdictUnrevoked(r) ==
    IF ~r.ok \/ ~r.known THEN 401 ELSE IF r.active THEN 200 ELSE 403
VerdictNotFound(r) ==
    IF ~r.known THEN 404 ELSE IF ~r.ok \/ r.revoked THEN 401
    ELSE IF r.active THEN 200 ELSE 403

\* What the checks after Verify answer.
Verdict(r) ==
    CASE ~r.ok \/ ~r.known \/ r.revoked -> 401
      [] r.ok /\ r.known /\ ~r.revoked /\ ~r.active -> 403
      [] OTHER -> 200

Decide(q) ==
    /\ req[q].step = "decide"
    /\ req' = [req EXCEPT ![q].step = "done", ![q].http = Verdict(req[q])]
    /\ UNCHANGED <<now, registry, cache>>

-----------------------------------------------------------------------------
Handle(q) ==
    \/ Lookup(q) \/ LookupFails(q) \/ CacheLookup(q) \/ Derive(q)
    \/ CacheStore(q) \/ Decide(q)

Next ==
    \/ Clock
    \/ \E k \in Keys : CreateAPIKey(k) \/ RevokeAPIKey(k)
    \/ \E c \in Clients : SetClientStatus(c)
    \/ \E q \in Requests : Present(q) \/ Handle(q)

Spec == Init /\ [][Next]_vars

-----------------------------------------------------------------------------
(* What the boundary promises *)

TypeOK ==
    /\ now \in 0..MaxTime
    /\ keyState \in [Keys -> {"absent", "live", "revoked"}]
    /\ owner \in [Keys -> Clients]
    /\ active \in [Clients -> BOOLEAN]
    /\ cached \subseteq Slots
    /\ entry \in [Slots -> [secret : {"none", "right", "wrong"},
                            expiresAt : 0..(MaxTime + CacheTTL)]]
    /\ order \in Seq(Slots)
    /\ req \in [Requests ->
                 [step : {"idle", "lookup", "verify", "derive", "store",
                          "decide", "done"},
                  key : Named, secret : {"right", "wrong"},
                  known : BOOLEAN, revoked : BOOLEAN, active : BOOLEAN,
                  at : 0..MaxTime, ok : BOOLEAN, derived : BOOLEAN,
                  http : {0, 200, 401, 403, 500}, revokedBefore : BOOLEAN]]

\* The eviction order lists exactly the cached slots, each once, and never
\* more than cacheCap of them, although lookups and stores of concurrent
\* verifies take the mutex separately: every entry can be evicted, and none is
\* evicted twice.
OrderMatchesCache ==
    /\ {order[i] : i \in 1..Len(order)} = cached
    /\ \A i, j \in 1..Len(order) : order[i] = order[j] => i = j
    /\ Len(order) <= CacheCap

\* "ONLY successful verdicts are ever cached": every entry is the right secret
\* of a key the registry has, never one of the dummy slot.
CacheHoldsSuccesses ==
    \A i \in cached : /\ i \in Keys \ Corrupt
                      /\ keyState[i] # "absent"
                      /\ entry[i].secret = "right"

\* Revocation is immediate for every request that arrives after it: a verdict
\* cached while the key was live does not authenticate it again.
RevocationIsImmediate ==
    \A q \in Requests : req[q].http = 200 => ~req[q].revokedBefore

\* A request gets through only with the right secret of a key and an active
\* client, whether its verdict was derived or cached.
AuthenticatedHasProof ==
    \A q \in Requests :
        req[q].http = 200 => /\ req[q].key \in Keys \ Corrupt
                             /\ req[q].secret = "right"
                             /\ keyState[req[q].key] # "absent"
                             /\ req[q].active

\* "EVERY failing verify - wrong secret on a known prefix, unknown prefix,
\* malformed key - always runs the full argon2id derive": no such 401 is
\* answered from the cache.
FailuresAlwaysDerive ==
    \A q \in Requests :
        req[q].http = 401 /\ ~req[q].ok /\ Slot(q) \notin Corrupt => req[q].derived
=============================================================================
