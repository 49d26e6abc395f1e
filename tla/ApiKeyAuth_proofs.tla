-------------------------- MODULE ApiKeyAuth_proofs --------------------------
(***************************************************************************)
(* Theorems about ApiKeyAuth, for every set of keys, clients and           *)
(* concurrent requests, and every capacity and lifetime of the cache.      *)
(***************************************************************************)
EXTENDS ApiKeyAuth, TLAPS

-----------------------------------------------------------------------------
(* Requests as records *)

RequestType ==
    [step : {"idle", "lookup", "verify", "derive", "store", "decide", "done"},
     key : Named, secret : {"right", "wrong"},
     known : BOOLEAN, revoked : BOOLEAN, active : BOOLEAN,
     at : 0..MaxTime, ok : BOOLEAN, derived : BOOLEAN,
     http : {0, 200, 401, 403, 500}, revokedBefore : BOOLEAN]

Rebuilt(r) ==
    [step |-> r.step, key |-> r.key, secret |-> r.secret,
     known |-> r.known, revoked |-> r.revoked, active |-> r.active,
     at |-> r.at, ok |-> r.ok, derived |-> r.derived,
     http |-> r.http, revokedBefore |-> r.revokedBefore]

FieldsOK(r) ==
    /\ r.step \in {"idle", "lookup", "verify", "derive", "store", "decide", "done"}
    /\ r.key \in Named /\ r.secret \in {"right", "wrong"}
    /\ r.known \in BOOLEAN /\ r.revoked \in BOOLEAN /\ r.active \in BOOLEAN
    /\ r.at \in 0..MaxTime /\ r.ok \in BOOLEAN /\ r.derived \in BOOLEAN
    /\ r.http \in {0, 200, 401, 403, 500} /\ r.revokedBefore \in BOOLEAN

\* A request, field by field: the form the provers handle updates in.
LEMMA Fields ==
  ASSUME NEW r PROVE r \in RequestType <=> r = Rebuilt(r) /\ FieldsOK(r)
  <1>1. ASSUME r \in RequestType PROVE r = Rebuilt(r) /\ FieldsOK(r)
    BY <1>1 DEF RequestType, Rebuilt, FieldsOK
  <1>2. ASSUME r = Rebuilt(r), FieldsOK(r) PROVE r \in RequestType
    <2>1. Rebuilt(r) \in RequestType
      BY <1>2 DEF RequestType, Rebuilt, FieldsOK
    <2>2. QED
      BY <1>2, <2>1
  <1>3. QED
    BY <1>1, <1>2

-----------------------------------------------------------------------------
(* The inductive invariant *)

SlotOf(r) == IF r.known THEN r.key ELSE Dummy

\* What a request has established so far is so, and stays so: a lookup found a
\* key of the registry, a success had the right secret of one, an answer comes
\* last, and a key revoked before the request arrived was found revoked.
Honest(r) ==
    /\ r.secret = "right" => r.key \in Keys
    /\ r.known => r.key \in Keys /\ keyState[r.key] # "absent"
    /\ r.ok => r.known /\ r.key \notin Corrupt /\ r.secret = "right"
    /\ r.step = "lookup" => ~r.ok
    /\ r.step = "store" => r.ok
    /\ r.step = "decide" \/ r.http = 401 => r.ok \/ r.derived \/ SlotOf(r) \in Corrupt
    /\ r.revokedBefore => r.key \in Keys /\ keyState[r.key] = "revoked"
    /\ r.revokedBefore /\ r.known => r.revoked
    /\ r.http # 0 => r.step = "done"
    /\ r.http = 200 => r.ok /\ ~r.revoked /\ r.active

AuthInv == CacheHoldsSuccesses /\ \A q \in Requests : Honest(req[q])

LEMMA AuthInit == Init => AuthInv
  BY AuthAssumption DEF Init, AuthInv, CacheHoldsSuccesses, Honest, Idle

LEMMA TypeInit == Init => TypeOK
  BY AuthAssumption DEF Init, TypeOK, Idle, NoEntry, Named, Slots

\* A step of a request changes that request only, and leaves it well formed.
LEMMA RequestStep ==
  ASSUME TypeOK, AuthInv, NEW q \in Requests, Present(q) \/ Handle(q)
  PROVE  /\ req' = [req EXCEPT ![q] = req'[q]]
         /\ req'[q] \in RequestType
         /\ Honest(req'[q])
         /\ UNCHANGED <<now, registry>>
  <1>t. req \in [Requests -> RequestType] /\ now \in 0..MaxTime
    BY DEF TypeOK, RequestType
  <1>r. PICK r \in RequestType : r = req[q] /\ r = Rebuilt(r) /\ FieldsOK(r) /\ Honest(r)
    BY <1>t, Fields DEF AuthInv
  <1>s. PICK s : s = req'[q]
    OBVIOUS
  <1>1. CASE Present(q)
    <2>1. /\ req' = [req EXCEPT ![q] = req'[q]] /\ UNCHANGED <<now, registry>>
      BY <1>1, <1>t DEF Present
    <2>2. PICK k \in Named, x \in {"right", "wrong"}, p \in {"verify", "lookup"},
               b \in BOOLEAN :
             /\ x = "right" => k \in Keys
             /\ b => k \in Keys /\ keyState[k] = "revoked"
             /\ s = [Idle EXCEPT !.key = k, !.secret = x, !.step = p,
                                 !.revokedBefore = b]
      BY <1>1, <1>t, <1>s DEF Present
    <2>3. s = Rebuilt(s)
      BY <2>2 DEF Rebuilt, Idle
    <2>4. FieldsOK(s)
      BY <1>t, <2>2, AuthAssumption DEF FieldsOK, Idle
    <2>5. Honest(s)
      BY <2>2, AuthAssumption DEF Honest, Idle, SlotOf
    <2>6. QED
      BY <1>s, <2>1, <2>3, <2>4, <2>5, Fields
  <1>2. CASE Lookup(q)
    <2>1. /\ req' = [req EXCEPT ![q] = req'[q]] /\ UNCHANGED <<now, registry>>
          /\ r.step = "lookup"
      BY <1>2, <1>t, <1>r DEF Lookup
    <2>2. PICK a \in BOOLEAN, b \in BOOLEAN, c \in BOOLEAN :
             /\ a => r.key \in Keys /\ keyState[r.key] # "absent"
             /\ a /\ keyState[r.key] = "revoked" => b
             /\ s = [r EXCEPT !.step = "verify", !.known = a, !.revoked = b, !.active = c]
      BY <1>2, <1>t, <1>r, <1>s DEF Lookup
    <2>3. s = Rebuilt(s)
      BY <1>r, <2>2 DEF Rebuilt
    <2>4. FieldsOK(s)
      BY <1>r, <1>t, <2>2 DEF Rebuilt, FieldsOK, TypeOK
    <2>5. Honest(s)
      BY <1>r, <2>1, <2>2, <2>4, AuthAssumption DEF Rebuilt, FieldsOK, Honest, SlotOf
    <2>6. QED
      BY <1>s, <2>1, <2>3, <2>4, <2>5, Fields
  <1>3. CASE LookupFails(q)
    <2>a. /\ req' = [req EXCEPT ![q].step = "done", ![q].http = 500]
          /\ r.step = "lookup" /\ UNCHANGED <<now, registry>>
      BY <1>3, <1>r DEF LookupFails
    <2>1. /\ req' = [req EXCEPT ![q] = req'[q]] /\ UNCHANGED <<now, registry>>
          /\ r.step = "lookup"
      BY <2>a, <1>t, ZenonT(30)
    <2>2. s = [r EXCEPT !.step = "done", !.http = 500]
      BY <2>a, <1>t, <1>r, <1>s
    <2>3. s = Rebuilt(s)
      BY <1>r, <2>2 DEF Rebuilt
    <2>4. FieldsOK(s)
      BY <1>r, <1>t, <2>2 DEF Rebuilt, FieldsOK, TypeOK
    <2>5. Honest(s)
      BY <1>r, <2>1, <2>2, <2>4, AuthAssumption DEF Rebuilt, FieldsOK, Honest, SlotOf
    <2>6. QED
      BY <1>s, <2>1, <2>3, <2>4, <2>5, Fields
  <1>4. CASE CacheLookup(q)
    <2>1. /\ req' = [req EXCEPT ![q] = req'[q]] /\ UNCHANGED <<now, registry>>
          /\ r.step = "verify"
      BY <1>4, <1>t, <1>r DEF CacheLookup
    <2>2. CASE Hit(q)
      <3>1. s = [r EXCEPT !.step = "decide", !.ok = TRUE]
        BY <1>4, <2>2, <1>t, <1>r, <1>s DEF CacheLookup
      <3>2. r.known /\ r.key \in Keys \ Corrupt /\ r.secret = "right"
        BY <2>2, <1>r, AuthAssumption DEF Hit, Slot, AuthInv, CacheHoldsSuccesses
      <3>3. s = Rebuilt(s)
        BY <1>r, <3>1 DEF Rebuilt
      <3>4. FieldsOK(s)
        BY <1>r, <3>1 DEF Rebuilt, FieldsOK
      <3>5. Honest(s)
        BY <1>r, <2>1, <3>1, <3>2 DEF Rebuilt, Honest, SlotOf
      <3>6. QED
        BY <1>s, <2>1, <3>3, <3>4, <3>5, Fields
    <2>3. CASE ~Hit(q)
      <3>1. s = [r EXCEPT !.step = "derive", !.at = now]
        BY <1>4, <2>3, <1>t, <1>r, <1>s DEF CacheLookup
      <3>2. s = Rebuilt(s)
        BY <1>r, <3>1 DEF Rebuilt
      <3>3. FieldsOK(s)
        BY <1>r, <1>t, <3>1 DEF Rebuilt, FieldsOK
      <3>4. Honest(s)
        BY <1>r, <2>1, <3>1 DEF Rebuilt, Honest, SlotOf
      <3>5. QED
        BY <1>s, <2>1, <3>2, <3>3, <3>4, Fields
    <2>4. QED
      BY <2>2, <2>3
  <1>5. CASE Derive(q)
    <2>1. /\ req' = [req EXCEPT ![q] = req'[q]] /\ UNCHANGED <<now, registry>>
          /\ r.step = "derive"
      BY <1>5, <1>t, <1>r DEF Derive
    <2>2. PICK d \in BOOLEAN, o \in BOOLEAN, p \in {"store", "decide"} :
             /\ d \/ SlotOf(r) \in Corrupt
             /\ o => r.known /\ SlotOf(r) \notin Corrupt /\ r.secret = "right"
             /\ p = "store" => o
             /\ s = [r EXCEPT !.ok = o, !.derived = d, !.step = p]
      BY <1>5, <1>t, <1>r, <1>s DEF Derive, Slot, SlotOf
    <2>3. s = Rebuilt(s)
      BY <1>r, <2>2 DEF Rebuilt
    <2>4. FieldsOK(s)
      BY <1>r, <2>2 DEF Rebuilt, FieldsOK
    <2>5. Honest(s)
      BY <1>r, <2>1, <2>2 DEF Rebuilt, FieldsOK, Honest, SlotOf
    <2>6. QED
      BY <1>s, <2>1, <2>3, <2>4, <2>5, Fields
  <1>6. CASE CacheStore(q)
    <2>1. /\ req' = [req EXCEPT ![q] = req'[q]] /\ UNCHANGED <<now, registry>>
          /\ r.step = "store"
      BY <1>6, <1>t, <1>r DEF CacheStore
    <2>2. s = [r EXCEPT !.step = "decide"]
      BY <1>6, <1>t, <1>r, <1>s DEF CacheStore
    <2>3. s = Rebuilt(s)
      BY <1>r, <2>2 DEF Rebuilt
    <2>4. FieldsOK(s)
      BY <1>r, <1>t, <2>2 DEF Rebuilt, FieldsOK, TypeOK
    <2>5. Honest(s)
      BY <1>r, <2>1, <2>2, <2>4, AuthAssumption DEF Rebuilt, FieldsOK, Honest, SlotOf
    <2>6. QED
      BY <1>s, <2>1, <2>3, <2>4, <2>5, Fields
  <1>7. CASE Decide(q)
    <2>1. /\ req' = [req EXCEPT ![q] = req'[q]] /\ UNCHANGED <<now, registry>>
          /\ r.step = "decide"
      BY <1>7, <1>t, <1>r DEF Decide
    <2>2. s = [r EXCEPT !.step = "done", !.http = Verdict(r)]
      BY <1>7, <1>t, <1>r, <1>s DEF Decide
    <2>3. s = Rebuilt(s)
      BY <1>r, <2>2 DEF Rebuilt, Verdict
    <2>4. FieldsOK(s)
      BY <1>r, <1>t, <2>2 DEF Rebuilt, FieldsOK, Verdict, TypeOK
    <2>5. Honest(s)
      BY <1>r, <2>1, <2>2, <2>4, AuthAssumption DEF Rebuilt, FieldsOK, Honest, SlotOf, Verdict
    <2>6. QED
      BY <1>s, <2>1, <2>3, <2>4, <2>5, Fields
  <1>8. QED
    BY <1>1, <1>2, <1>3, <1>4, <1>5, <1>6, <1>7 DEF Handle

-----------------------------------------------------------------------------
(* The steps of Next *)

\* Keys are created and revoked, never deleted.
LEMMA HonestKept ==
  ASSUME NEW q \in Requests, Honest(req'[q]),
         \A k \in Keys : /\ keyState[k] # "absent" => keyState'[k] # "absent"
                         /\ keyState[k] = "revoked" => keyState'[k] = "revoked"
  PROVE  Honest(req[q])'
  BY DEF Honest, SlotOf

\* A store leaves the cache well typed, in order, and successes only.
LEMMA StoreStep ==
  ASSUME TypeOK, AuthInv, OrderMatchesCache, NEW q \in Requests, CacheStore(q)
  PROVE  /\ cached' \subseteq Slots /\ order' \in Seq(Slots)
         /\ entry' \in [Slots -> [secret : {"none", "right", "wrong"},
                                  expiresAt : 0..(MaxTime + CacheTTL)]]
         /\ OrderMatchesCache'
         /\ CacheHoldsSuccesses'
  <1>i. PICK i \in Keys \ Corrupt : i = Slot(q)
    BY DEF CacheStore, AuthInv, Honest, Slot
  <1>1. /\ i \in Slots /\ keyState[i] # "absent"
        /\ req[q].secret = "right" /\ req[q].at \in 0..MaxTime
    BY <1>i DEF CacheStore, AuthInv, Honest, Slot, Slots, TypeOK
  <1>o. /\ order \in Seq(Slots) /\ Len(order) \in Nat
        /\ \A a \in 1..Len(order) : order[a] \in Slots
    BY DEF TypeOK
  <1>e. PICK evicted :
          /\ evicted = IF i \notin cached /\ Full THEN {Head(order)} ELSE {}
          /\ cached' = (cached \ evicted) \cup {i}
          /\ entry' = [j \in Slots |->
                         IF j = i THEN [secret |-> req[q].secret,
                                        expiresAt |-> req[q].at + CacheTTL]
                         ELSE IF j \in evicted THEN NoEntry ELSE entry[j]]
          /\ order' = IF i \notin cached
                      THEN Append(IF Full THEN Tail(order) ELSE order, i)
                      ELSE order
    BY <1>i DEF CacheStore
  <1>2. entry' \in [Slots -> [secret : {"none", "right", "wrong"},
                             expiresAt : 0..(MaxTime + CacheTTL)]]
    <2>1. [secret |-> req[q].secret, expiresAt |-> req[q].at + CacheTTL]
            \in [secret : {"none", "right", "wrong"}, expiresAt : 0..(MaxTime + CacheTTL)]
      BY <1>1, AuthAssumption
    <2>2. NoEntry \in [secret : {"none", "right", "wrong"}, expiresAt : 0..(MaxTime + CacheTTL)]
      BY AuthAssumption DEF NoEntry
    <2>3. QED
      BY <1>e, <2>1, <2>2 DEF TypeOK
  <1>3. CacheHoldsSuccesses'
    <2>1. keyState' = keyState
      BY DEF CacheStore, registry
    <2>2. \A j \in cached' : j = i \/ (j \in cached /\ entry'[j] = entry[j])
      BY <1>e DEF TypeOK
    <2>3. entry'[i].secret = "right"
      BY <1>e, <1>1
    <2>4. QED
      BY <1>1, <2>1, <2>2, <2>3 DEF AuthInv, CacheHoldsSuccesses
  <1>4. CASE i \in cached
    <2>1. cached' = cached /\ order' = order
      BY <1>e, <1>4
    <2>2. cached' \subseteq Slots
      BY <2>1 DEF TypeOK
    <2>3. OrderMatchesCache'
      BY <2>1 DEF OrderMatchesCache
    <2>4. QED
      BY <1>2, <1>3, <2>1, <2>2, <2>3, <1>o
  <1>5. CASE i \notin cached /\ ~Full
    <2>1. cached' = cached \cup {i} /\ order' = Append(order, i)
      BY <1>e, <1>5
    <2>2. /\ order' \in Seq(Slots) /\ Len(order') = Len(order) + 1
          /\ \A a \in 1..Len(order) : order'[a] = order[a]
          /\ order'[Len(order) + 1] = i
      BY <2>1, <1>o, <1>1
    <2>3. {order'[a] : a \in 1..Len(order')} = cached'
      BY <2>1, <2>2, <1>o DEF OrderMatchesCache
    <2>4. \A a, b \in 1..Len(order') : order'[a] = order'[b] => a = b
      BY <2>2, <1>o, <1>5 DEF OrderMatchesCache
    <2>5. Len(order') <= CacheCap
      BY <2>2, <1>o, <1>5, AuthAssumption DEF Full
    <2>6. cached' \subseteq Slots
      BY <1>1, <2>1 DEF TypeOK
    <2>7. OrderMatchesCache'
      BY <2>3, <2>4, <2>5 DEF OrderMatchesCache
    <2>8. QED
      BY <1>2, <1>3, <2>2, <2>5, <2>6, <2>7
  <1>6. CASE i \notin cached /\ Full
    <2>1. /\ cached' = (cached \ {Head(order)}) \cup {i}
          /\ order' = Append(Tail(order), i)
      BY <1>e, <1>6
    <2>2. Len(order) = CacheCap /\ order # <<>>
      BY <1>6, <1>o, AuthAssumption DEF Full, OrderMatchesCache
    <2>3. /\ order' \in Seq(Slots) /\ Len(order') = Len(order)
          /\ \A a \in 1..(Len(order) - 1) : order'[a] = order[a + 1]
          /\ order'[Len(order)] = i /\ Head(order) = order[1]
      BY <2>1, <2>2, <1>o, <1>1
    <2>4. {order'[a] : a \in 1..Len(order')} = cached'
      <3>1. ASSUME NEW a \in 1..Len(order') PROVE order'[a] \in cached'
        <4>1. CASE a = Len(order)
          BY <4>1, <2>1, <2>3
        <4>2. CASE a # Len(order)
          <5>1. a \in 1..(Len(order) - 1) /\ a + 1 \in 1..Len(order) /\ a + 1 # 1 /\ 1 \in 1..Len(order)
            BY <4>2, <3>1, <2>3, <1>o
          <5>2. order'[a] = order[a + 1] /\ order[a + 1] # order[1]
            BY <5>1, <2>3 DEF OrderMatchesCache
          <5>3. order[a + 1] \in cached
            BY <5>1 DEF OrderMatchesCache
          <5>4. QED
            BY <5>2, <5>3, <2>1, <2>3
        <4>3. QED
          BY <4>1, <4>2
      <3>2. ASSUME NEW j \in cached' PROVE \E a \in 1..Len(order') : order'[a] = j
        <4>1. CASE j = i
          BY <4>1, <2>3, <1>o, <2>2, AuthAssumption
        <4>2. CASE j # i
          <5>1. PICK a \in 1..Len(order) : order[a] = j
            BY <3>2, <4>2, <2>1 DEF OrderMatchesCache
          <5>2. a # 1
            BY <3>2, <4>2, <5>1, <2>1, <2>3
          <5>3. a - 1 \in 1..(Len(order) - 1) /\ (a - 1) + 1 = a
            BY <5>1, <5>2, <1>o
          <5>4. order'[a - 1] = j /\ a - 1 \in 1..Len(order')
            BY <5>1, <5>3, <2>3, <1>o
          <5>5. QED
            BY <5>4
        <4>3. QED
          BY <4>1, <4>2
      <3>3. QED
        BY <3>1, <3>2
    <2>5. \A a, b \in 1..Len(order') : order'[a] = order'[b] => a = b
      <3>1. \A a \in 1..(Len(order) - 1) : order'[a] \in cached
        BY <2>3, <1>o DEF OrderMatchesCache
      <3>2. \A a, b \in 1..(Len(order) - 1) : order'[a] = order'[b] => a = b
        BY <2>3, <1>o DEF OrderMatchesCache
      <3>3. QED
        BY <3>1, <3>2, <2>3, <1>o, <1>6
    <2>6. cached' \subseteq Slots
      BY <1>1, <2>1 DEF TypeOK
    <2>7. OrderMatchesCache'
      BY <2>2, <2>3, <2>4, <2>5, <1>o, AuthAssumption DEF OrderMatchesCache
    <2>8. QED
      BY <1>2, <1>3, <2>3, <2>6, <2>7
  <1>7. QED
    BY <1>4, <1>5, <1>6

Inv == TypeOK /\ AuthInv /\ OrderMatchesCache

LEMMA InvInit == Init => Inv
  BY TypeInit, AuthInit, AuthAssumption DEF Inv, Init, OrderMatchesCache

LEMMA InvNext == Inv /\ [Next]_vars => Inv'
  <1> SUFFICES ASSUME TypeOK, AuthInv, OrderMatchesCache, [Next]_vars PROVE Inv'
    BY DEF Inv
  <1> USE DEF registry, cache
  <1>k. ASSUME UNCHANGED <<cache, req>>,
               \A k \in Keys : /\ keyState[k] # "absent" => keyState'[k] # "absent"
                               /\ keyState[k] = "revoked" => keyState'[k] = "revoked"
        PROVE  AuthInv' /\ OrderMatchesCache'
    <2>1. \A q \in Requests : Honest(req[q])'
      <3>1. ASSUME NEW q \in Requests PROVE Honest(req'[q])
        BY <1>k DEF AuthInv
      <3>2. QED
        BY <3>1, <1>k, HonestKept
    <2>2. CacheHoldsSuccesses'
      BY <1>k DEF AuthInv, CacheHoldsSuccesses
    <2>3. OrderMatchesCache'
      BY <1>k DEF OrderMatchesCache
    <2>4. QED
      BY <2>1, <2>2, <2>3 DEF AuthInv
  <1>1. CASE Clock
    BY <1>1, <1>k, AuthAssumption DEF Clock, TypeOK, Inv
  <1>2. ASSUME NEW k \in Keys, CreateAPIKey(k) \/ RevokeAPIKey(k) PROVE Inv'
    <2>1. /\ keyState' \in [Keys -> {"absent", "live", "revoked"}]
          /\ \A j \in Keys : /\ keyState[j] # "absent" => keyState'[j] # "absent"
                             /\ keyState[j] = "revoked" => keyState'[j] = "revoked"
      BY <1>2 DEF CreateAPIKey, RevokeAPIKey, TypeOK
    <2>2. QED
      BY <1>2, <1>k, <2>1 DEF CreateAPIKey, RevokeAPIKey, TypeOK, Inv
  <1>3. ASSUME NEW c \in Clients, SetClientStatus(c) PROVE Inv'
    BY <1>3, <1>k DEF SetClientStatus, TypeOK, Inv
  <1>4. ASSUME NEW q \in Requests, Present(q) \/ Handle(q) PROVE Inv'
    <2>1. /\ req' = [req EXCEPT ![q] = req'[q]] /\ req'[q] \in RequestType
          /\ Honest(req'[q]) /\ UNCHANGED <<now, registry>>
      BY <1>4, RequestStep
    <2>2. req' \in [Requests -> RequestType]
      BY <2>1 DEF TypeOK, RequestType
    <2>3. \A p \in Requests : Honest(req[p])'
      <3>1. ASSUME NEW p \in Requests PROVE Honest(req'[p])
        <4>1. req'[p] \in {req[p], req'[q]}
          BY <2>1 DEF TypeOK
        <4>2. Honest(req[p])
          BY DEF AuthInv
        <4>3. QED
          BY <2>1, <4>1, <4>2
      <3>2. keyState' = keyState
        BY <2>1
      <3>3. QED
        BY <3>1, <3>2, HonestKept
    <2>4. CASE CacheStore(q)
      BY <2>1, <2>2, <2>3, <2>4, StoreStep DEF Inv, TypeOK, AuthInv, RequestType
    <2>5. CASE ~CacheStore(q)
      <3>1. UNCHANGED cache
        BY <1>4, <2>5 DEF Present, Handle, Lookup, LookupFails, CacheLookup, Derive, Decide
      <3>2. TypeOK'
        BY <2>1, <2>2, <3>1 DEF TypeOK, RequestType
      <3>3. CacheHoldsSuccesses' /\ OrderMatchesCache'
        BY <2>1, <3>1 DEF Inv, AuthInv, CacheHoldsSuccesses, OrderMatchesCache
      <3>4. QED
        BY <2>3, <3>2, <3>3 DEF Inv, AuthInv
    <2>6. QED
      BY <2>4, <2>5
  <1>5. CASE UNCHANGED vars
    BY <1>5, <1>k DEF vars, TypeOK, Inv
  <1>6. QED
    BY <1>1, <1>2, <1>3, <1>4, <1>5 DEF Next

LEMMA InvAlways == Spec => []Inv
  BY InvInit, InvNext, PTL DEF Spec

\* Every variable keeps its type: no verdict outside 200, 401, 403 and 500, and
\* no cache entry for a slot the registry cannot name.
THEOREM TypeCorrect == Spec => []TypeOK
  <1>1. Inv => TypeOK
    BY DEF Inv
  <1>2. QED
    BY <1>1, InvAlways, PTL

\* Verify's two critical sections keep the eviction order in step with the
\* cache, however verifies of the same and of other slots interleave between
\* them: each entry once, never more than the capacity.
THEOREM EvictionOrderHolds == Spec => []OrderMatchesCache
  <1>1. Inv => OrderMatchesCache
    BY DEF Inv
  <1>2. QED
    BY <1>1, InvAlways, PTL

\* Only successful verdicts of keys the registry has are ever cached.
THEOREM OnlySuccessesCached == Spec => []CacheHoldsSuccesses
  <1>1. Inv => CacheHoldsSuccesses
    BY DEF Inv, AuthInv
  <1>2. QED
    BY <1>1, InvAlways, PTL

\* A request that arrives after its key was revoked is not let through, though
\* an older verdict of that key may still be in the cache: the middleware looks
\* the key up on every request before it asks Verify.
THEOREM RevocationHolds == Spec => []RevocationIsImmediate
  <1>1. Inv => RevocationIsImmediate
    BY DEF Inv, AuthInv, Honest, RevocationIsImmediate
  <1>2. QED
    BY <1>1, InvAlways, PTL

\* Whoever is let through presented the right secret of a key the registry has,
\* for a client that was active when it was looked up.
THEOREM ProofRequired == Spec => []AuthenticatedHasProof
  <1>1. Inv => AuthenticatedHasProof
    BY DEF Inv, AuthInv, Honest, AuthenticatedHasProof
  <1>2. QED
    BY <1>1, InvAlways, PTL

\* A failed verify is never answered from the cache: it costs a derive whether
\* the prefix is known or not.
THEOREM FailuresCostADerive == Spec => []FailuresAlwaysDerive
  <1>1. Inv => FailuresAlwaysDerive
    BY DEF Inv, AuthInv, Honest, SlotOf, Slot, FailuresAlwaysDerive
  <1>2. QED
    BY <1>1, InvAlways, PTL
=============================================================================
