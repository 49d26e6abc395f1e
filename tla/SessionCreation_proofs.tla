------------------------ MODULE SessionCreation_proofs ------------------------
(***************************************************************************)
(* Theorems about SessionCreation, for every number of clients, intended   *)
(* uses, templates and concurrent requests, every set of queries, scopes   *)
(* and origins, and every number of registry changes.                      *)
(***************************************************************************)
EXTENDS SessionCreation, TLAPS

-----------------------------------------------------------------------------
(* Requests as records *)

RequestType ==
    [step : Steps, answer : Answers, client : Clients \cup {None},
     template : Templates \cup {None}, query : Queries \cup {{}},
     use : IntendedUses \cup {None}, flow : Flows \cup {"none"},
     redirect : Origins \cup {None}, hook : Origins \cup {None},
     info : Infos \cup {NoInfo}]

SessionType ==
    [client : Clients \cup {None}, use : IntendedUses \cup {None},
     query : Queries \cup {{}}, flow : Flows \cup {"none"},
     origins : SUBSET Origins, redirect : Origins \cup {None}]

TemplateType ==
    [state : {"live", "deleted"}, owner : Clients, use : IntendedUses,
     query : Queries \ {{}}]

Rebuilt(r) ==
    [step |-> r.step, answer |-> r.answer, client |-> r.client,
     template |-> r.template, query |-> r.query, use |-> r.use,
     flow |-> r.flow, redirect |-> r.redirect, hook |-> r.hook,
     info |-> r.info]

FieldsOK(r) ==
    /\ r.step \in Steps /\ r.answer \in Answers
    /\ r.client \in Clients \cup {None} /\ r.template \in Templates \cup {None}
    /\ r.query \in Queries \cup {{}} /\ r.use \in IntendedUses \cup {None}
    /\ r.flow \in Flows \cup {"none"}
    /\ r.redirect \in Origins \cup {None} /\ r.hook \in Origins \cup {None}
    /\ r.info \in Infos \cup {NoInfo}

\* A request, field by field: the form the provers handle updates in.
LEMMA Fields ==
  ASSUME NEW r PROVE r \in RequestType <=> r = Rebuilt(r) /\ FieldsOK(r)
  <1>1. ASSUME r \in RequestType PROVE r = Rebuilt(r) /\ FieldsOK(r)
    BY <1>1 DEF RequestType, Rebuilt, FieldsOK
  <1>2. ASSUME r = Rebuilt(r), FieldsOK(r) PROVE r \in RequestType
    <2>1. Rebuilt(r) \in RequestType
      BY <1>2 DEF RequestType, Rebuilt, FieldsOK
    <2>2. QED
      BY <1>2, <2>1
  <1>3. QED
    BY <1>1, <1>2

-----------------------------------------------------------------------------
(* The inductive invariant *)

Working == {"client", "template", "list", "use", "wrprc", "create",
            "templateUse", "store", "delete"}

\* Some use in force since q arrived covers the query.
Granted(q, use, query) ==
    query # {} /\ \E o \in offers[q] : o.use = use /\ query \subseteq o.scope

\* Template t of client c pins this use and this query.
Pinned(t, c, use, query) ==
    /\ t \in Templates /\ templates[t] # NoTemplate
    /\ templates[t].owner = c /\ templates[t].use = use /\ templates[t].query = query

\* What is known of the request r in slot q: while it is handled, offers[q]
\* follows its client's registration; past the authorisation its query was
\* granted and passes the engine's checks; past GetTemplate its use and query
\* are the template's; an engine session is the last thing that happens to it.
Knows(q, r) ==
    /\ r.step \in Working =>
          /\ r.client \in Clients /\ r.answer = "none"
          /\ \A i \in IntendedUses :
                uses[r.client][i].state = "live" =>
                    [use |-> i, scope |-> uses[r.client][i].scope] \in offers[q]
    /\ r.step \in {"use", "wrprc", "create", "templateUse", "store"} =>
          r.use \in IntendedUses
    /\ r.step \in {"template", "delete"} => r.template \in Templates
    /\ r.step = "list" => r.template = None
    /\ r.step = "store" => Granted(q, r.use, r.query)
    /\ r.step \in {"wrprc", "create"} =>
          Granted(q, r.use, r.query) /\ OriginFault(r) = "none"
    /\ r.step \in {"use", "wrprc", "create"} /\ r.template # None =>
          Pinned(r.template, r.client, r.use, r.query)
    /\ r.step # "done" => minted[q] = 0 /\ r.answer = "none"
    /\ r.answer # "refused"
    /\ minted[q] <= 1 /\ (r.answer = "created" => minted[q] = 1)
    /\ minted[q] = 1 =>
          /\ r.answer \in {"created", "unavailable"}
          /\ Granted(q, session[q].use, session[q].query)
          /\ r.template # None => Pinned(r.template, session[q].client,
                                         session[q].use, session[q].query)

Inv == TypeOK /\ \A q \in Requests : Knows(q, req[q])

Typed ==
    /\ uses \in [Clients -> [IntendedUses -> Uses]]
    /\ info \in [Clients -> Infos]
    /\ templates \in [Templates -> {NoTemplate} \cup TemplateType]
    /\ req \in [Requests -> RequestType]
    /\ minted \in [Requests -> Nat]
    /\ session \in [Requests -> SessionType]
    /\ offers \in [Requests -> SUBSET [use : IntendedUses, scope : Scopes]]

LEMMA TypeParts == TypeOK <=> Typed /\ changes \in 0..MaxChanges
  BY DEF TypeOK, Typed, RequestType, SessionType, TemplateType

LEMMA InvInit == Init => Inv
  <1> SUFFICES ASSUME Init PROVE Inv
    OBVIOUS
  <1>1. Idle = Rebuilt(Idle) /\ FieldsOK(Idle)
    BY DEF Idle, Rebuilt, FieldsOK, Steps, Answers
  <1>2. Idle \in RequestType
    BY <1>1, Fields
  <1>3. NoSession \in SessionType
    BY DEF NoSession, SessionType
  <1>4. NoUse \in Uses
    BY DEF NoUse, Uses
  <1>5. Typed
    BY <1>2, <1>3, <1>4 DEF Init, Typed
  <1>6. changes \in 0..MaxChanges
    BY CreationAssumption DEF Init
  <1>7. \A q \in Requests : Knows(q, req[q])
    BY DEF Init, Knows, Idle, Working
  <1>8. QED
    BY <1>5, <1>6, <1>7, TypeParts DEF Inv

-----------------------------------------------------------------------------
(* What never goes back *)

\* A template keeps its owner, use and query for good, deleted or not.
Grows ==
    \A t \in Templates :
        templates[t] # NoTemplate =>
            /\ templates'[t] # NoTemplate /\ templates'[t].owner = templates[t].owner
            /\ templates'[t].use = templates[t].use
            /\ templates'[t].query = templates[t].query

\* The only request steps that touch templates create a row or mark one deleted.
LEMMA TemplateStep ==
  ASSUME Typed, NEW q \in Requests, Knows(q, req[q]), Handle(q)
  PROVE  Grows /\ templates' \in [Templates -> {NoTemplate} \cup TemplateType]
  <1>1. CASE CreateTemplate(q) /\ templates' # templates
    <2>1. PICK t \in Templates :
             /\ templates[t] = NoTemplate
             /\ templates' = [templates EXCEPT ![t] =
                                [state |-> "live", owner |-> req[q].client,
                                 use |-> req[q].use, query |-> req[q].query]]
             /\ req[q].step = "store"
      BY <1>1 DEF CreateTemplate
    <2>2. PICK c, i, d : c = req[q].client /\ i = req[q].use /\ d = req[q].query
      OBVIOUS
    <2>3. c \in Clients /\ i \in IntendedUses /\ d \in Queries \ {{}}
      <3>1. req[q] \in RequestType
        BY DEF Typed
      <3>2. FieldsOK(req[q])
        BY <3>1, Fields
      <3>3. QED
        BY <2>1, <2>2, <3>2 DEF Knows, Granted, Working, FieldsOK
    <2>4. [state |-> "live", owner |-> c, use |-> i, query |-> d] \in TemplateType
      BY <2>3 DEF TemplateType
    <2>5. QED
      BY <2>1, <2>2, <2>4 DEF Typed, Grows
  <1>2. CASE DeleteTemplate(q) /\ templates' # templates
    <2>1. PICK t : t = req[q].template
      OBVIOUS
    <2>2. /\ templates[t].state = "live" /\ req[q].step = "delete"
          /\ templates' = [templates EXCEPT ![t] = [@ EXCEPT !.state = "deleted"]]
      BY <1>2, <2>1 DEF DeleteTemplate, OwnTemplate
    <2>3. t \in Templates /\ templates[t] \in TemplateType
      BY <2>1, <2>2 DEF Knows, Typed, NoTemplate
    <2>4. PICK a \in TemplateType : a = templates[t]
      BY <2>3
    <2>5. PICK b : b = [a EXCEPT !.state = "deleted"]
      OBVIOUS
    <2>6. /\ b \in TemplateType /\ b.owner = a.owner /\ b.use = a.use
          /\ b.query = a.query /\ b.state = "deleted"
      BY <2>5 DEF TemplateType
    <2>7. templates' = [templates EXCEPT ![t] = b] /\ b # NoTemplate
      BY <2>2, <2>4, <2>5, <2>6 DEF NoTemplate
    <2>8. QED
      BY <2>3, <2>4, <2>6, <2>7 DEF Typed, Grows
  <1>3. CASE templates' = templates
    BY <1>3 DEF Typed, Grows
  <1>4. QED
    BY <1>1, <1>2, <1>3 DEF Handle, ReceiveSession, ReceiveTemplate, ReceiveDelete,
       RegistryFails, GetClient, GetTemplate, ListIntendedUses, Authorize, GetWRPRC,
       CreateSession, CreateUnanswered, AuthorizeTemplate, registry

\* What is known of a request survives the steps of others.
LEMMA KnowsKept ==
  ASSUME NEW q \in Requests, NEW r, Knows(q, r), Grows,
         minted'[q] = minted[q], session'[q] = session[q],
         \A o \in offers[q] : o \in offers'[q],
         \A i \in IntendedUses :
            r.step \in Working /\ uses'[r.client][i].state = "live" =>
               [use |-> i, scope |-> uses'[r.client][i].scope] \in offers'[q]
  PROVE  Knows(q, r)'
  <1>1. \A u, d : Granted(q, u, d) => Granted(q, u, d)'
    BY DEF Granted
  <1>2. \A t, c, u, d : Pinned(t, c, u, d) => Pinned(t, c, u, d)'
    BY DEF Pinned, Grows
  <1>3. QED
    BY <1>1, <1>2 DEF Knows

-----------------------------------------------------------------------------
(* What a step of a request does to the request *)

\* A request takes its slot with a clean record of what was created for it, and
\* with what its client has in force.
Received(q, x) ==
    /\ req' = [req EXCEPT ![q] = x]
    /\ minted' = [minted EXCEPT ![q] = 0]
    /\ session' = [session EXCEPT ![q] = NoSession]
    /\ offers' = [offers EXCEPT ![q] = InForce(uses[x.client])]

LEMMA ReceiveStep ==
  ASSUME Typed, NEW q \in Requests,
         ReceiveSession(q) \/ ReceiveTemplate(q) \/ ReceiveDelete(q)
  PROVE  \E x \in RequestType :
            /\ Received(q, x) /\ UNCHANGED registry
            /\ x.client \in Clients
            /\ x.answer = "none" => x.step \in {"client", "templateUse", "delete"}
            /\ x.answer # "none" => x.step = "done" /\ x.answer = "invalid"
            /\ x.step = "templateUse" => x.use \in IntendedUses
            /\ x.step = "delete" => x.template \in Templates
  <1> DEFINE Form(x) ==
         /\ x.client \in Clients
         /\ x.answer = "none" => x.step \in {"client", "templateUse", "delete"}
         /\ x.answer # "none" => x.step = "done" /\ x.answer = "invalid"
         /\ x.step = "templateUse" => x.use \in IntendedUses
         /\ x.step = "delete" => x.template \in Templates
  <1>1. ASSUME NEW c \in Clients, NEW x, x = Rebuilt(x), FieldsOK(x), Form(x),
               x.client = c, Receive(q, c, x), UNCHANGED registry
        PROVE  \E y \in RequestType : Received(q, y) /\ UNCHANGED registry /\ Form(y)
    BY <1>1, Fields DEF Receive, Received
  <1>2. CASE ReceiveSession(q)
    <2>a. PICK c \in Clients, f \in Flows, u \in Origins \cup {None},
               h \in Origins \cup {None} :
             LET r == [Idle EXCEPT !.client = c, !.step = "client", !.flow = f,
                                   !.redirect = u, !.hook = h]
             IN \/ \E t \in Templates, i \in IntendedUses \cup {None} :
                      Receive(q, c, [r EXCEPT !.template = t, !.use = i])
                \/ \E d \in Queries, i \in IntendedUses \cup {None} :
                      Receive(q, c, [r EXCEPT !.query = d, !.use = i])
                \/ Receive(q, c, Invalid(c))
      BY <1>2 DEF ReceiveSession
    <2>1. UNCHANGED registry
      BY <1>2 DEF ReceiveSession
    <2>2. PICK base : base = [Idle EXCEPT !.client = c, !.step = "client", !.flow = f,
                                          !.redirect = u, !.hook = h]
      OBVIOUS
    <2>3. ASSUME NEW t \in Templates, NEW i \in IntendedUses \cup {None},
                 Receive(q, c, [base EXCEPT !.template = t, !.use = i])
          PROVE  \E y \in RequestType : Received(q, y) /\ UNCHANGED registry /\ Form(y)
      <3>1. PICK x : x = [base EXCEPT !.template = t, !.use = i]
        OBVIOUS
      <3>2. x = Rebuilt(x)
        BY <2>2, <3>1 DEF Idle, Rebuilt
      <3>3. /\ x.client = c /\ x.step = "client" /\ x.answer = "none" /\ x.flow = f
            /\ x.redirect = u /\ x.hook = h /\ x.use = i /\ x.info = NoInfo
            /\ x.template \in Templates \cup {None} /\ x.query \in Queries \cup {{}}
        BY <2>2, <2>3, <3>1 DEF Idle
      <3>4. FieldsOK(x)
        BY <2>3, <3>3 DEF FieldsOK, Steps, Answers
      <3>5. Form(x)
        BY <3>3
      <3>6. Receive(q, c, x)
        BY <2>3, <3>1
      <3>7. QED
        BY <1>1, <2>1, <3>2, <3>3, <3>4, <3>5, <3>6
    <2>4. ASSUME NEW d \in Queries, NEW i \in IntendedUses \cup {None},
                 Receive(q, c, [base EXCEPT !.query = d, !.use = i])
          PROVE  \E y \in RequestType : Received(q, y) /\ UNCHANGED registry /\ Form(y)
      <3>1. PICK x : x = [base EXCEPT !.query = d, !.use = i]
        OBVIOUS
      <3>2. x = Rebuilt(x)
        BY <2>2, <3>1 DEF Idle, Rebuilt
      <3>3. /\ x.client = c /\ x.step = "client" /\ x.answer = "none" /\ x.flow = f
            /\ x.redirect = u /\ x.hook = h /\ x.use = i /\ x.info = NoInfo
            /\ x.template \in Templates \cup {None} /\ x.query \in Queries \cup {{}}
        BY <2>2, <2>4, <3>1 DEF Idle
      <3>4. FieldsOK(x)
        BY <2>4, <3>3 DEF FieldsOK, Steps, Answers
      <3>5. Form(x)
        BY <3>3
      <3>6. Receive(q, c, x)
        BY <2>4, <3>1
      <3>7. QED
        BY <1>1, <2>1, <3>2, <3>3, <3>4, <3>5, <3>6
    <2>5. ASSUME Receive(q, c, Invalid(c))
          PROVE  \E y \in RequestType : Received(q, y) /\ UNCHANGED registry /\ Form(y)
      <3>1. PICK x : x = Invalid(c)
        OBVIOUS
      <3>2. x = Rebuilt(x) /\ FieldsOK(x)
        BY <3>1 DEF Invalid, Idle, Rebuilt, FieldsOK, Steps, Answers
      <3>3. Form(x) /\ x.client = c
        BY <3>1 DEF Invalid, Idle
      <3>4. Receive(q, c, x)
        BY <2>5, <3>1
      <3>5. QED
        BY <1>1, <2>1, <3>2, <3>3, <3>4
    <2>6. QED
      BY <2>a, <2>2, <2>3, <2>4, <2>5
  <1>3. CASE ReceiveTemplate(q)
    <2>1. PICK c \in Clients, d \in Queries, i \in IntendedUses :
             Receive(q, c, [Idle EXCEPT !.client = c, !.step = "templateUse",
                                        !.query = d, !.use = i])
      BY <1>3 DEF ReceiveTemplate
    <2>2. PICK x : x = [Idle EXCEPT !.client = c, !.step = "templateUse",
                                    !.query = d, !.use = i]
      OBVIOUS
    <2>3. x = Rebuilt(x) /\ FieldsOK(x)
      BY <2>2 DEF Idle, Rebuilt, FieldsOK, Steps, Answers
    <2>4. Form(x) /\ x.client = c
      BY <2>2 DEF Idle
    <2>5. Receive(q, c, x) /\ UNCHANGED registry
      BY <1>3, <2>1, <2>2 DEF ReceiveTemplate
    <2>6. QED
      BY <1>1, <2>3, <2>4, <2>5
  <1>4. CASE ReceiveDelete(q)
    <2>1. PICK c \in Clients, t \in Templates :
             Receive(q, c, [Idle EXCEPT !.client = c, !.step = "delete", !.template = t])
      BY <1>4 DEF ReceiveDelete
    <2>2. PICK x : x = [Idle EXCEPT !.client = c, !.step = "delete", !.template = t]
      OBVIOUS
    <2>3. x = Rebuilt(x) /\ FieldsOK(x)
      BY <2>2 DEF Idle, Rebuilt, FieldsOK, Steps, Answers
    <2>4. Form(x) /\ x.client = c
      BY <2>2 DEF Idle
    <2>5. Receive(q, c, x) /\ UNCHANGED registry
      BY <1>4, <2>1, <2>2 DEF ReceiveDelete
    <2>6. QED
      BY <1>1, <2>3, <2>4, <2>5
  <1>5. QED
    BY <1>2, <1>3, <1>4

\* What a registration has in force are intended uses with registered scopes.
LEMMA InForceType ==
  ASSUME NEW f \in [IntendedUses -> Uses]
  PROVE  /\ InForce(f) \in SUBSET [use : IntendedUses, scope : Scopes]
         /\ \A i \in IntendedUses :
               f[i].state = "live" => [use |-> i, scope |-> f[i].scope] \in InForce(f)
  <1>1. ASSUME NEW i \in IntendedUses, f[i].state = "live" PROVE f[i].scope \in Scopes
    BY <1>1 DEF Uses
  <1>2. QED
    BY <1>1 DEF InForce

\* The slot q changes alone, and stays well typed.
SlotStep(q) ==
    /\ req' = [req EXCEPT ![q] = req'[q]] /\ req'[q] \in RequestType
    /\ minted' = [minted EXCEPT ![q] = minted'[q]] /\ minted'[q] \in Nat
    /\ session' = [session EXCEPT ![q] = session'[q]] /\ session'[q] \in SessionType
    /\ offers' = [offers EXCEPT ![q] = offers'[q]]
    /\ offers'[q] \in SUBSET [use : IntendedUses, scope : Scopes]

LEMMA ReceiveKnows ==
  ASSUME Typed, NEW q \in Requests,
         ReceiveSession(q) \/ ReceiveTemplate(q) \/ ReceiveDelete(q)
  PROVE  SlotStep(q) /\ Knows(q, req[q])'
  <1>1. PICK x \in RequestType :
            /\ Received(q, x) /\ UNCHANGED registry
            /\ x.client \in Clients
            /\ x.answer = "none" => x.step \in {"client", "templateUse", "delete"}
            /\ x.answer # "none" => x.step = "done" /\ x.answer = "invalid"
            /\ x.step = "templateUse" => x.use \in IntendedUses
            /\ x.step = "delete" => x.template \in Templates
    BY ReceiveStep
  <1>2. /\ uses[x.client] \in [IntendedUses -> Uses]
        /\ NoSession \in SessionType
    BY <1>1 DEF Typed, NoSession, SessionType
  <1>3. /\ req'[q] = x /\ minted'[q] = 0 /\ session'[q] = NoSession
        /\ offers'[q] = InForce(uses[x.client]) /\ uses' = uses
    BY <1>1 DEF Received, Typed, registry
  <1>4. InForce(uses[x.client]) \in SUBSET [use : IntendedUses, scope : Scopes]
    BY <1>2, InForceType
  <1>5. SlotStep(q)
    <2>1. req' = [req EXCEPT ![q] = req'[q]] /\ req'[q] \in RequestType
      BY <1>1, <1>3 DEF Received
    <2>2. minted' = [minted EXCEPT ![q] = minted'[q]] /\ minted'[q] \in Nat
      <3>1. minted' = [minted EXCEPT ![q] = 0]
        BY <1>1 DEF Received
      <3>2. QED
        BY <1>3, <3>1
    <2>3. session' = [session EXCEPT ![q] = session'[q]] /\ session'[q] \in SessionType
      BY <1>1, <1>2, <1>3 DEF Received
    <2>4. offers' = [offers EXCEPT ![q] = offers'[q]]
      <3>1. PICK live : live = InForce(uses[x.client])
        OBVIOUS
      <3>2. offers' = [offers EXCEPT ![q] = live] /\ offers'[q] = live
        BY <1>1, <1>3, <3>1 DEF Received
      <3>3. QED
        BY <3>2
    <2>5. QED
      BY <1>3, <1>4, <2>1, <2>2, <2>3, <2>4 DEF SlotStep
  <1>6. \A i \in IntendedUses :
           uses'[x.client][i].state = "live" =>
              [use |-> i, scope |-> uses'[x.client][i].scope] \in offers'[q]
    BY <1>2, <1>3, InForceType
  <1>7. Knows(q, x)'
    BY <1>1, <1>3, <1>6 DEF Knows, Working
  <1>8. QED
    BY <1>3, <1>5, <1>7 DEF Knows

\* What the later steps do to what was created for the request.
LEMMA EngineStep ==
  ASSUME Typed, NEW q \in Requests, NEW r \in RequestType, r = req[q], r.step \in Working,
         minted[q] = 0, Mint(q)
  PROVE  /\ minted' = [minted EXCEPT ![q] = minted'[q]] /\ minted'[q] = 1
         /\ session' = [session EXCEPT ![q] = session'[q]]
         /\ session'[q] = CreateRequest(r) /\ session'[q] \in SessionType
  <1>1. r.info.origins \subseteq Origins
    BY DEF RequestType, Infos, NoInfo
  <1>2. CreateRequest(r) \in SessionType
    <2>1. FieldsOK(r)
      BY Fields
    <2>2. PICK o \in SUBSET Origins : o = CreateRequest(r).origins
      BY <1>1 DEF CreateRequest
    <2>3. CreateRequest(r) = [client |-> r.client, use |-> r.use, query |-> r.query,
                              flow |-> r.flow, origins |-> o, redirect |-> r.redirect]
      BY <2>2 DEF CreateRequest
    <2>4. QED
      BY <2>1, <2>3 DEF FieldsOK, SessionType
  <1>3. minted' = [minted EXCEPT ![q] = 1]
    BY DEF Mint
  <1>4. PICK s : s = CreateRequest(r)
    OBVIOUS
  <1>5. session' = [session EXCEPT ![q] = s]
    BY <1>4 DEF Mint
  <1>6. QED
    BY <1>2, <1>3, <1>4, <1>5 DEF Typed

\* A request that passed OriginFault is one the engine takes.
LEMMA EngineTakes ==
  ASSUME NEW r, OriginFault(r) = "none" PROVE EngineAccepts(CreateRequest(r))
  BY DEF OriginFault, EngineAccepts, CreateRequest

LEMMA HandleKnows ==
  ASSUME Typed, NEW q \in Requests, Knows(q, req[q]), Handle(q),
         ~(ReceiveSession(q) \/ ReceiveTemplate(q) \/ ReceiveDelete(q))
  PROVE  SlotStep(q) /\ Knows(q, req[q])'
  <1>r. PICK r \in RequestType : r = req[q] /\ r = Rebuilt(r) /\ FieldsOK(r) /\ Knows(q, r)
    BY Fields DEF Typed
  <1>x. PICK x : x = req'[q]
    OBVIOUS
  <1>t. req \in [Requests -> RequestType]
    BY DEF Typed
  <1>g. Grows
    BY TemplateStep
  <1>u. UNCHANGED <<uses, info, changes, offers>>
    BY DEF Handle, RegistryFails, GetClient, GetTemplate, ListIntendedUses, Authorize,
       GetWRPRC, CreateSession, CreateUnanswered, AuthorizeTemplate, CreateTemplate,
       DeleteTemplate, registry
  <1>k. UNCHANGED engine => Knows(q, r)'
    <2>1. ASSUME UNCHANGED engine PROVE Knows(q, r)'
      <3>1. minted'[q] = minted[q] /\ session'[q] = session[q]
        BY <2>1 DEF engine
      <3>2. \A i \in IntendedUses :
               r.step \in Working /\ uses'[r.client][i].state = "live" =>
                  [use |-> i, scope |-> uses'[r.client][i].scope] \in offers'[q]
        BY <1>r, <1>u DEF Knows
      <3>3. QED
        BY <1>r, <1>g, <1>u, <3>1, <3>2, KnowsKept
    <2>2. QED
      BY <2>1
  <1> DEFINE Goal == /\ req' = [req EXCEPT ![q] = x] /\ x \in RequestType
                     /\ Knows(q, x)'
                     /\ UNCHANGED engine \/ (Mint(q) /\ r.step = "create")
  <1> HIDE DEF Goal
  \* A refusal ends the request and creates nothing.
  <1>1. ASSUME NEW why \in Answers \ {"none", "created", "refused"}, r.step \in Working,
               Refuse(q, why), UNCHANGED engine
        PROVE  Goal
    <2>1. x = [r EXCEPT !.step = "done", !.answer = why] /\ req' = [req EXCEPT ![q] = x]
      BY <1>1, <1>t, <1>r, <1>x DEF Refuse
    <2>2. x = Rebuilt(x)
      BY <1>r, <2>1 DEF Rebuilt
    <2>3. FieldsOK(x)
      BY <1>1, <1>r, <2>1 DEF Rebuilt, FieldsOK, Steps
    <2>4. x.step = "done" /\ x.answer = why /\ minted'[q] = 0
      BY <1>1, <1>r, <2>1 DEF Rebuilt, Knows, Working, engine
    <2>5. Knows(q, x)'
      BY <1>1, <2>4 DEF Knows, Working
    <2>6. QED
      BY <1>1, <2>1, <2>2, <2>3, <2>5, Fields DEF Goal
  <1>2. ASSUME RegistryFails(q) PROVE Goal
    <2>1. r.step \in Working /\ Refuse(q, "error") /\ UNCHANGED engine
      BY <1>2, <1>r DEF RegistryFails, Working
    <2>2. QED
      BY <1>1, <2>1 DEF Answers
  <1>3. ASSUME GetClient(q) PROVE Goal
    <2>1. PICK y, next :
             /\ next \in {"template", "list", "use"}
             /\ next = "template" => r.template # None
             /\ next = "list" => r.template = None
             /\ next = "use" => r.template = None /\ r.use # None
             /\ x = [r EXCEPT !.step = next, !.info = y]
             /\ req' = [req EXCEPT ![q] = x]
             /\ r.step = "client" /\ y = info[r.client] /\ UNCHANGED engine
      <3>1. PICK y, next : /\ y = info[r.client]
                           /\ next = IF r.template # None THEN "template"
                                     ELSE IF r.use = None THEN "list" ELSE "use"
        OBVIOUS
      <3>2. req' = [req EXCEPT ![q] = [@ EXCEPT !.step = next, !.info = y]]
            /\ r.step = "client" /\ UNCHANGED engine
        BY <1>3, <1>r, <3>1 DEF GetClient
      <3>3. x = [r EXCEPT !.step = next, !.info = y] /\ req' = [req EXCEPT ![q] = x]
        BY <1>t, <1>r, <1>x, <3>2
      <3>4. QED
        BY <3>1, <3>2, <3>3
    <2>2. y \in Infos
      BY <1>r, <2>1 DEF Typed, Knows, Working
    <2>3. x = Rebuilt(x)
      BY <1>r, <2>1 DEF Rebuilt
    <2>4. FieldsOK(x)
      BY <1>r, <2>1, <2>2 DEF Rebuilt, FieldsOK, Steps
    <2>5. Knows(q, x)'
      BY <1>r, <1>k, <2>1 DEF Rebuilt, FieldsOK, Knows, Working
    <2>6. QED
      BY <2>1, <2>3, <2>4, <2>5, Fields DEF Goal
  <1>4. ASSUME GetTemplate(q) PROVE Goal
    <2>1. CASE Refuse(q, "notFound")
      <3>1. r.step \in Working /\ UNCHANGED engine
        BY <1>4, <1>r DEF GetTemplate, Working
      <3>2. QED
        BY <1>1, <2>1, <3>1 DEF Answers
    <2>2. CASE ~Refuse(q, "notFound")
      <3>1. PICK t : t = templates[r.template]
        OBVIOUS
      <3>2. /\ t.state = "live" /\ t.owner = r.client
            /\ x = [r EXCEPT !.step = "use", !.use = t.use, !.query = t.query]
            /\ req' = [req EXCEPT ![q] = x]
            /\ r.step = "template" /\ UNCHANGED <<registry, engine>>
        BY <1>4, <1>t, <1>r, <1>x, <2>2, <3>1 DEF GetTemplate, OwnTemplate
      <3>3. r.template \in Templates /\ t \in TemplateType /\ t # NoTemplate
        BY <1>r, <3>1, <3>2 DEF Typed, Knows, NoTemplate
      <3>4. t.use \in IntendedUses /\ t.query \in Queries
        BY <3>3 DEF TemplateType
      <3>5. x = Rebuilt(x)
        BY <1>r, <3>2 DEF Rebuilt
      <3>6. FieldsOK(x)
        BY <1>r, <3>2, <3>4 DEF Rebuilt, FieldsOK, Steps
      <3>7. /\ x.step = "use" /\ x.template = r.template /\ x.client = r.client
            /\ x.use = t.use /\ x.query = t.query /\ x.answer = r.answer
        BY <1>r, <3>2 DEF Rebuilt
      <3>8. Pinned(x.template, x.client, x.use, x.query)'
        BY <3>1, <3>2, <3>3, <3>7 DEF Pinned, registry
      <3>9. Knows(q, x)'
        BY <1>r, <1>k, <3>2, <3>4, <3>7, <3>8 DEF Knows, Working
      <3>10. QED
        BY <3>2, <3>5, <3>6, <3>9, Fields DEF Goal
    <2>3. QED
      BY <2>1, <2>2
  <1>5. ASSUME ListIntendedUses(q) PROVE Goal
    <2>1. CASE Refuse(q, "intendedUseRequired")
      <3>1. r.step \in Working /\ UNCHANGED engine
        BY <1>5, <1>r DEF ListIntendedUses, Working
      <3>2. QED
        BY <1>1, <2>1, <3>1 DEF Answers
    <2>2. CASE ~Refuse(q, "intendedUseRequired")
      <3>1. PICK i \in IntendedUses :
               /\ x = [r EXCEPT !.step = "use", !.use = i]
               /\ req' = [req EXCEPT ![q] = x]
               /\ r.step = "list" /\ UNCHANGED engine
        BY <1>5, <1>t, <1>r, <1>x, <2>2 DEF ListIntendedUses
      <3>2. x = Rebuilt(x)
        BY <1>r, <3>1 DEF Rebuilt
      <3>3. FieldsOK(x)
        BY <1>r, <3>1 DEF Rebuilt, FieldsOK, Steps
      <3>4. Knows(q, x)'
        BY <1>r, <1>k, <3>1 DEF Rebuilt, Knows, Working
      <3>5. QED
        BY <3>1, <3>2, <3>3, <3>4, Fields DEF Goal
    <2>3. QED
      BY <2>1, <2>2
  <1>6. ASSUME Authorize(q) PROVE Goal
    <2>1. PICK use : use = uses[r.client][r.use]
      OBVIOUS
    <2>2. PICK fault : fault = IF ScopeFault(r, use) # "none" THEN ScopeFault(r, use)
                               ELSE OriginFault(r)
      OBVIOUS
    <2>3. /\ r.step = "use" /\ UNCHANGED <<registry, engine>>
          /\ IF fault = "none" THEN req' = [req EXCEPT ![q] = [@ EXCEPT !.step = "wrprc"]]
             ELSE Refuse(q, fault)
      BY <1>6, <1>r, <2>1, <2>2 DEF Authorize
    <2>4. CASE fault # "none"
      <3>1. fault \in Answers \ {"none", "created", "refused"}
        BY <2>2, <2>4 DEF ScopeFault, OriginFault, Answers
      <3>2. QED
        BY <1>1, <2>3, <2>4, <3>1 DEF Working
    <2>5. CASE fault = "none"
      <3>1. x = [r EXCEPT !.step = "wrprc"] /\ req' = [req EXCEPT ![q] = x]
        BY <1>t, <1>r, <1>x, <2>3, <2>5
      <3>2. x = Rebuilt(x)
        BY <1>r, <3>1 DEF Rebuilt
      <3>3. FieldsOK(x)
        BY <1>r, <3>1 DEF Rebuilt, FieldsOK, Steps
      <3>4. /\ x.step = "wrprc" /\ x.template = r.template /\ x.client = r.client
            /\ x.use = r.use /\ x.query = r.query /\ x.answer = r.answer
            /\ x.flow = r.flow /\ x.info = r.info /\ x.redirect = r.redirect
            /\ x.hook = r.hook
        BY <1>r, <3>1 DEF Rebuilt
      <3>5. OriginFault(x) = "none"
        BY <2>2, <2>5, <3>4 DEF OriginFault
      <3>6. /\ use.state # "absent" /\ use.state # "revoked"
            /\ r.query # {} /\ r.query \subseteq use.scope
        BY <2>2, <2>5 DEF ScopeFault
      <3>7. use \in Uses /\ r.client \in Clients /\ r.use \in IntendedUses
        BY <1>r, <2>1, <2>3 DEF Knows, Working, Typed
      <3>8. use.state = "live"
        BY <3>6, <3>7 DEF Uses
      <3>9. [use |-> r.use, scope |-> use.scope] \in offers[q]
        BY <1>r, <2>1, <2>3, <3>7, <3>8 DEF Knows, Working
      <3>10. Granted(q, x.use, x.query)'
        BY <1>u, <3>4, <3>6, <3>9 DEF Granted
      <3>11. Knows(q, x)'
        BY <1>r, <1>k, <2>3, <3>4, <3>5, <3>10 DEF Knows, Working
      <3>12. QED
        BY <2>3, <3>1, <3>2, <3>3, <3>11, Fields DEF Goal
    <2>6. QED
      BY <2>4, <2>5
  <1>7. ASSUME GetWRPRC(q) PROVE Goal
    <2>1. CASE \E why \in {"notFound", "registrarIdentity"} : Refuse(q, why)
      <3>1. r.step \in Working /\ UNCHANGED engine
        BY <1>7, <1>r DEF GetWRPRC, Working
      <3>2. QED
        BY <1>1, <2>1, <3>1 DEF Answers
    <2>2. CASE ~\E why \in {"notFound", "registrarIdentity"} : Refuse(q, why)
      <3>1. /\ x = [r EXCEPT !.step = "create"]
            /\ req' = [req EXCEPT ![q] = x]
            /\ r.step = "wrprc" /\ UNCHANGED engine
        BY <1>7, <1>t, <1>r, <1>x, <2>2 DEF GetWRPRC
      <3>2. x = Rebuilt(x)
        BY <1>r, <3>1 DEF Rebuilt
      <3>3. FieldsOK(x)
        BY <1>r, <3>1 DEF Rebuilt, FieldsOK, Steps
      <3>4. /\ x.step = "create" /\ x.template = r.template /\ x.client = r.client
            /\ x.use = r.use /\ x.query = r.query /\ x.answer = r.answer
            /\ x.flow = r.flow /\ x.info = r.info /\ x.redirect = r.redirect
            /\ x.hook = r.hook
        BY <1>r, <3>1 DEF Rebuilt
      <3>5. OriginFault(x) = OriginFault(r)
        BY <3>4 DEF OriginFault
      <3>6. Knows(q, x)'
        BY <1>r, <1>k, <3>1, <3>4, <3>5 DEF Knows, Working
      <3>7. QED
        BY <3>1, <3>2, <3>3, <3>6, Fields DEF Goal
    <2>3. QED
      BY <2>1, <2>2
  <1>8. ASSUME AuthorizeTemplate(q) PROVE Goal
    <2>1. PICK fault : fault = ScopeFault(r, uses[r.client][r.use])
      OBVIOUS
    <2>2. /\ r.step = "templateUse" /\ UNCHANGED engine
          /\ IF fault = "none" THEN req' = [req EXCEPT ![q] = [@ EXCEPT !.step = "store"]]
             ELSE Refuse(q, fault)
      BY <1>8, <1>r, <2>1 DEF AuthorizeTemplate
    <2>3. CASE fault # "none"
      <3>1. fault \in Answers \ {"none", "created", "refused"}
        BY <2>1, <2>3 DEF ScopeFault, Answers
      <3>2. QED
        BY <1>1, <2>2, <2>3, <3>1 DEF Working
    <2>4. CASE fault = "none"
      <3>1. x = [r EXCEPT !.step = "store"] /\ req' = [req EXCEPT ![q] = x]
        BY <1>t, <1>r, <1>x, <2>2, <2>4
      <3>2. x = Rebuilt(x)
        BY <1>r, <3>1 DEF Rebuilt
      <3>3. FieldsOK(x)
        BY <1>r, <3>1 DEF Rebuilt, FieldsOK, Steps
      <3>4. /\ x.step = "store" /\ x.template = r.template /\ x.client = r.client
            /\ x.use = r.use /\ x.query = r.query /\ x.answer = r.answer
        BY <1>r, <3>1 DEF Rebuilt
      <3>5. PICK use : use = uses[r.client][r.use]
        OBVIOUS
      <3>6. /\ use.state # "absent" /\ use.state # "revoked"
            /\ r.query # {} /\ r.query \subseteq use.scope
        BY <2>1, <2>4, <3>5 DEF ScopeFault
      <3>7. use \in Uses /\ r.client \in Clients /\ r.use \in IntendedUses
        BY <1>r, <2>2, <3>5 DEF Knows, Working, Typed
      <3>8. use.state = "live"
        BY <3>6, <3>7 DEF Uses
      <3>9. [use |-> r.use, scope |-> use.scope] \in offers[q]
        BY <1>r, <2>2, <3>5, <3>7, <3>8 DEF Knows, Working
      <3>10. Granted(q, x.use, x.query)'
        BY <1>u, <3>4, <3>6, <3>9 DEF Granted
      <3>11. Knows(q, x)'
        BY <1>r, <1>k, <2>2, <3>4, <3>10 DEF Knows, Working
      <3>12. QED
        BY <2>2, <3>1, <3>2, <3>3, <3>11, Fields DEF Goal
    <2>5. QED
      BY <2>3, <2>4
  <1>9. ASSUME CreateTemplate(q) \/ DeleteTemplate(q) PROVE Goal
    <2>1. PICK why \in {"stored", "deleted", "error", "notFound", "useRevoked"} :
             Refuse(q, why) /\ r.step \in Working /\ UNCHANGED engine
      BY <1>9, <1>r DEF CreateTemplate, DeleteTemplate, TemplateFault, Working
    <2>2. QED
      BY <1>1, <2>1 DEF Answers
  \* The engine call: the request passed every check the engine makes.
  <1>10. ASSUME NEW why \in {"created", "unavailable"}, r.step = "create",
                Refuse(q, why), Mint(q)
         PROVE  Goal
    <2>1. x = [r EXCEPT !.step = "done", !.answer = why] /\ req' = [req EXCEPT ![q] = x]
      BY <1>10, <1>t, <1>r, <1>x DEF Refuse
    <2>2. x = Rebuilt(x)
      BY <1>r, <2>1 DEF Rebuilt
    <2>3. FieldsOK(x)
      BY <1>10, <1>r, <2>1 DEF Rebuilt, FieldsOK, Steps, Answers
    <2>4. x.step = "done" /\ x.answer = why /\ x.template = r.template
      BY <1>r, <2>1 DEF Rebuilt
    <2>5. minted'[q] = 1 /\ session'[q] = CreateRequest(r)
      BY <1>10, <1>r, EngineStep DEF Knows, Working
    <2>6. /\ session'[q].use = r.use /\ session'[q].query = r.query
          /\ session'[q].client = r.client
      BY <2>5 DEF CreateRequest
    <2>7. Granted(q, r.use, r.query)'
      BY <1>10, <1>r, <1>u DEF Knows, Granted
    <2>8. r.template # None => Pinned(r.template, r.client, r.use, r.query)'
      BY <1>10, <1>r, <1>g DEF Knows, Pinned, Grows
    <2>9. Knows(q, x)'
      BY <1>10, <2>4, <2>5, <2>6, <2>7, <2>8 DEF Knows, Working, Granted, Pinned
    <2>10. QED
      BY <1>10, <2>1, <2>2, <2>3, <2>9, Fields DEF Goal
  <1>11. ASSUME CreateSession(q) PROVE Goal
    <2>1. r.step = "create" /\ EngineAccepts(CreateRequest(req[q]))
      BY <1>11, <1>r, EngineTakes DEF CreateSession, Knows
    <2>2. Mint(q) /\ Refuse(q, "created")
      BY <1>11, <2>1 DEF CreateSession
    <2>3. QED
      BY <1>10, <2>1, <2>2
  <1>12. ASSUME CreateUnanswered(q) PROVE Goal
    <2>1. /\ r.step = "create" /\ Refuse(q, "unavailable")
          /\ Mint(q) \/ UNCHANGED engine
      BY <1>12, <1>r DEF CreateUnanswered
    <2>2. QED
      BY <1>1, <1>10, <2>1 DEF Answers, Working
  <1>13. Goal
    BY <1>2, <1>3, <1>4, <1>5, <1>6, <1>7, <1>8, <1>9, <1>11, <1>12 DEF Handle
  <1>14. SlotStep(q)
    <2>1. req' = [req EXCEPT ![q] = req'[q]] /\ req'[q] \in RequestType
      BY <1>13, <1>x DEF Goal
    <2>2. offers' = [offers EXCEPT ![q] = offers'[q]]
          /\ offers'[q] \in SUBSET [use : IntendedUses, scope : Scopes]
      BY <1>u DEF Typed
    <2>3. /\ minted' = [minted EXCEPT ![q] = minted'[q]] /\ minted'[q] \in Nat
          /\ session' = [session EXCEPT ![q] = session'[q]] /\ session'[q] \in SessionType
      <3>1. CASE UNCHANGED engine
        BY <3>1 DEF engine, Typed
      <3>2. CASE Mint(q) /\ r.step = "create"
        BY <1>r, <3>2, EngineStep DEF Knows, Working
      <3>3. QED
        BY <1>13, <3>1, <3>2 DEF Goal
    <2>4. QED
      BY <2>1, <2>2, <2>3 DEF SlotStep
  <1>15. QED
    BY <1>13, <1>14, <1>x DEF Goal, Knows

-----------------------------------------------------------------------------
(* The invariant is inductive *)

LEMMA HandleInv ==
  ASSUME Inv, NEW q \in Requests, Handle(q)
  PROVE  Inv'
  <1>t. Typed /\ changes \in 0..MaxChanges /\ Knows(q, req[q])
    BY TypeParts DEF Inv
  <1>1. SlotStep(q) /\ Knows(q, req[q])'
    BY <1>t, ReceiveKnows, HandleKnows
  <1>2. UNCHANGED <<uses, info, changes>>
    BY DEF Handle, ReceiveSession, ReceiveTemplate, ReceiveDelete, RegistryFails,
       GetClient, GetTemplate, ListIntendedUses, Authorize, GetWRPRC, CreateSession,
       CreateUnanswered, AuthorizeTemplate, CreateTemplate, DeleteTemplate, registry
  <1>3. Grows /\ templates' \in [Templates -> {NoTemplate} \cup TemplateType]
    BY <1>t, TemplateStep
  <1>4. TypeOK'
    <2>1. req' \in [Requests -> RequestType]
      BY <1>t, <1>1 DEF SlotStep, Typed
    <2>2. minted' \in [Requests -> Nat]
      BY <1>t, <1>1 DEF SlotStep, Typed
    <2>3. session' \in [Requests -> SessionType]
      BY <1>t, <1>1 DEF SlotStep, Typed
    <2>4. offers' \in [Requests -> SUBSET [use : IntendedUses, scope : Scopes]]
      BY <1>t, <1>1 DEF SlotStep, Typed
    <2>5. Typed'
      BY <1>t, <1>2, <1>3, <2>1, <2>2, <2>3, <2>4 DEF Typed
    <2>6. QED
      BY <1>t, <1>2, <2>5 DEF TypeOK, Typed, RequestType, SessionType, TemplateType
  <1>5. ASSUME NEW p \in Requests, p # q PROVE Knows(p, req[p])'
    <2>1. PICK r : r = req[p]
      OBVIOUS
    <2>2. /\ req'[p] = r /\ minted'[p] = minted[p] /\ session'[p] = session[p]
          /\ offers'[p] = offers[p]
      BY <1>t, <1>1, <1>5, <2>1 DEF SlotStep, Typed
    <2>3. Knows(p, r)
      BY <2>1 DEF Inv
    <2>4. \A i \in IntendedUses :
             r.step \in Working /\ uses'[r.client][i].state = "live" =>
                [use |-> i, scope |-> uses'[r.client][i].scope] \in offers'[p]
      BY <1>2, <2>2, <2>3 DEF Knows
    <2>5. Knows(p, r)'
      BY <1>3, <2>2, <2>3, <2>4, KnowsKept
    <2>6. QED
      BY <2>2, <2>5 DEF Knows
  <1>6. QED
    BY <1>1, <1>4, <1>5 DEF Inv

\* Whatever onboarding writes, a request's offers follow it.
LEMMA ChangeInv ==
  ASSUME Inv, NEW c \in Clients, SetIntendedUses(c) \/ UpdateClient(c)
  PROVE  Inv'
  <1>t. Typed /\ changes \in 0..MaxChanges
    BY TypeParts DEF Inv
  <1>1. UNCHANGED <<templates, req, minted, session>> /\ changes' \in 0..MaxChanges
    BY <1>t, CreationAssumption DEF SetIntendedUses, UpdateClient, engine
  <1>2. CASE UpdateClient(c)
    <2>1. info' \in [Clients -> Infos] /\ UNCHANGED <<uses, offers>>
      BY <1>t, <1>2 DEF UpdateClient, Typed
    <2>2. Typed'
      BY <1>t, <1>1, <2>1 DEF Typed
    <2>3. TypeOK'
      BY <1>1, <2>2 DEF TypeOK, Typed, RequestType, SessionType, TemplateType
    <2>4. QED
      BY <1>1, <2>1, <2>3 DEF Inv, Knows, Granted, Pinned
  <1>3. CASE SetIntendedUses(c)
    <2>1. PICK f \in [IntendedUses -> Uses] :
             /\ uses' = [uses EXCEPT ![c] = f]
             /\ offers' = [q \in Requests |->
                             IF req[q].client = c THEN offers[q] \cup InForce(f)
                             ELSE offers[q]]
             /\ info' = info
      BY <1>3 DEF SetIntendedUses
    <2>2. PICK live : live = InForce(f)
      OBVIOUS
    <2>3. /\ live \in SUBSET [use : IntendedUses, scope : Scopes]
          /\ \A i \in IntendedUses :
                f[i].state = "live" => [use |-> i, scope |-> f[i].scope] \in live
      BY <2>2, InForceType
    <2>4. \A q \in Requests : offers'[q] = IF req[q].client = c THEN offers[q] \cup live
                                           ELSE offers[q]
      BY <2>1, <2>2
    <2>5. /\ uses' \in [Clients -> [IntendedUses -> Uses]]
          /\ offers' \in [Requests -> SUBSET [use : IntendedUses, scope : Scopes]]
      <3>1. uses' \in [Clients -> [IntendedUses -> Uses]]
        BY <1>t, <2>1 DEF Typed
      <3>2. offers' = [q \in Requests |-> offers'[q]]
        BY <2>1
      <3>3. \A q \in Requests : offers'[q] \in SUBSET [use : IntendedUses, scope : Scopes]
        BY <1>t, <2>3, <2>4 DEF Typed
      <3>4. QED
        BY <3>1, <3>2, <3>3
    <2>6. Typed'
      BY <1>t, <1>1, <2>1, <2>5 DEF Typed
    <2>7. TypeOK'
      BY <1>1, <2>6 DEF TypeOK, Typed, RequestType, SessionType, TemplateType
    <2>8. ASSUME NEW p \in Requests PROVE Knows(p, req[p])'
      <3>1. PICK r : r = req[p]
        OBVIOUS
      <3>2. Knows(p, r)
        BY <3>1 DEF Inv
      <3>3. ASSUME NEW i \in IntendedUses, r.step \in Working,
                   uses'[r.client][i].state = "live"
            PROVE  [use |-> i, scope |-> uses'[r.client][i].scope] \in offers'[p]
        <4>1. r.client \in Clients
          BY <3>2, <3>3 DEF Knows
        <4>2. CASE r.client = c
          <5>1. uses'[r.client] = f /\ offers'[p] = offers[p] \cup live
            BY <1>t, <2>1, <2>4, <3>1, <4>2 DEF Typed
          <5>2. QED
            BY <2>3, <3>3, <5>1
        <4>3. CASE r.client # c
          <5>1. uses'[r.client] = uses[r.client] /\ offers'[p] = offers[p]
            BY <1>t, <2>1, <2>4, <3>1, <4>1, <4>3 DEF Typed
          <5>2. QED
            BY <3>2, <3>3, <5>1 DEF Knows
        <4>4. QED
          BY <4>2, <4>3
      <3>4. \A o \in offers[p] : o \in offers'[p]
        BY <2>4
      <3>5. Grows
        BY <1>1 DEF Grows
      <3>6. Knows(p, r)'
        BY <1>1, <3>2, <3>3, <3>4, <3>5, KnowsKept
      <3>7. QED
        BY <1>1, <3>1, <3>6 DEF Knows
    <2>9. QED
      BY <2>7, <2>8 DEF Inv
  <1>4. QED
    BY <1>2, <1>3

LEMMA InvNext == Inv /\ [Next]_vars => Inv'
  <1> SUFFICES ASSUME Inv, [Next]_vars PROVE Inv'
    OBVIOUS
  <1>1. CASE UNCHANGED vars
    <2>1. UNCHANGED <<uses, info, templates, changes, req, minted, session, offers>>
      BY <1>1 DEF vars, registry, engine
    <2>2. QED
      BY <2>1 DEF Inv, TypeOK, Knows, Granted, Pinned
  <1>2. QED
    BY <1>1, HandleInv, ChangeInv DEF Next

LEMMA InvAlways == Spec => []Inv
  BY InvInit, InvNext, PTL DEF Spec

-----------------------------------------------------------------------------
(* What the invariant says of a request *)

\* Every variable keeps its type: no stored template has a query that does not
\* validate, and no request an answer outside the documented ones.
THEOREM TypeCorrect == Spec => []TypeOK
  <1>1. Inv => TypeOK
    BY DEF Inv
  <1>2. QED
    BY <1>1, InvAlways, PTL

\* What a session asks for was in force for its own client during the request,
\* whatever onboarding rewrites between the separate reads.
THEOREM SessionsAuthorized == Spec => []AuthorizedDuringRequest
  <1>1. ASSUME Inv PROVE AuthorizedDuringRequest
    <2>1. ASSUME NEW q \in Requests, minted[q] > 0
          PROVE  Granted(q, session[q].use, session[q].query)
      <3>1. minted[q] \in Nat /\ Knows(q, req[q])
        BY <1>1 DEF Inv, TypeOK
      <3>2. QED
        BY <2>1, <3>1 DEF Knows
    <2>2. QED
      BY <2>1 DEF AuthorizedDuringRequest, Granted
  <1>2. QED
    BY <1>1, InvAlways, PTL

\* A template's session carries the query and use its owner pinned, though the
\* template may be deleted between its read and the engine call.
THEOREM TemplatesPinned == Spec => []SessionFromOwnTemplate
  <1>1. ASSUME Inv PROVE SessionFromOwnTemplate
    <2>1. ASSUME NEW q \in Requests, minted[q] > 0, req[q].template # None
          PROVE  Pinned(req[q].template, session[q].client, session[q].use,
                        session[q].query)
      <3>1. minted[q] \in Nat /\ Knows(q, req[q])
        BY <1>1 DEF Inv, TypeOK
      <3>2. QED
        BY <2>1, <3>1 DEF Knows
    <2>2. QED
      BY <2>1 DEF SessionFromOwnTemplate, Pinned
  <1>2. QED
    BY <1>1, InvAlways, PTL

\* The engine never refuses what the checks before the call let through.
THEOREM EngineSatisfied == Spec => []EngineNeverRefuses
  <1>1. Inv => EngineNeverRefuses
    BY DEF Inv, Knows, EngineNeverRefuses
  <1>2. QED
    BY <1>1, InvAlways, PTL

\* A request creates at most one session, exactly one if it answers "created",
\* and none if this service refused it.
THEOREM AnswersTell == Spec => []AnswerTellsOutcome
  <1>1. ASSUME Inv PROVE AnswerTellsOutcome
    <2>1. \A q \in Requests : Knows(q, req[q])
      BY <1>1 DEF Inv
    <2>2. QED
      BY <2>1 DEF Knows, AnswerTellsOutcome
  <1>2. QED
    BY <1>1, InvAlways, PTL

\* A template row appears only against an intended use that is in force at that
\* moment, because the procedure checks again what the handler checked, and with
\* a query that lay within this use's scope during the request: the grant of the
\* handler's check stays what it was, whatever is registered before the insert.
THEOREM TemplatesInForce == Spec => TemplatesStartInForce
  <1> DEFINE StartsInForce(new) ==
              /\ uses[new.owner][new.use].state = "live"
              /\ new.query # {}
              /\ \E q \in Requests :
                    /\ req[q].step = "store" /\ req'[q].step = "done"
                    /\ req[q].client = new.owner
                    /\ \E o \in offers[q] :
                          o.use = new.use /\ new.query \subseteq o.scope
  <1>1. ASSUME Inv, [Next]_vars, NEW t \in Templates,
               templates[t] = NoTemplate, templates'[t] # NoTemplate
        PROVE  StartsInForce(templates'[t])
    <2>t. Typed /\ \A q \in Requests : Knows(q, req[q])
      BY <1>1, TypeParts DEF Inv
    <2>1. PICK q \in Requests : CreateTemplate(q) \/ DeleteTemplate(q)
      BY <1>1 DEF Next, SetIntendedUses, UpdateClient, Handle, ReceiveSession,
         ReceiveTemplate, ReceiveDelete, RegistryFails, GetClient, GetTemplate,
         ListIntendedUses, Authorize, GetWRPRC, CreateSession, CreateUnanswered,
         AuthorizeTemplate, vars, registry
    <2>2. ~DeleteTemplate(q)
      <3>1. SUFFICES ASSUME DeleteTemplate(q) PROVE FALSE
        OBVIOUS
      <3>2. PICK d : d = req[q].template
        OBVIOUS
      <3>3. /\ templates[d].state = "live"
            /\ templates' = [templates EXCEPT ![d] = [@ EXCEPT !.state = "deleted"]]
               \/ templates' = templates
        BY <1>1, <3>1, <3>2 DEF DeleteTemplate, OwnTemplate
      <3>4. t # d
        BY <1>1, <3>3 DEF NoTemplate
      <3>5. templates'[t] = templates[t]
        BY <2>t, <3>3, <3>4 DEF Typed
      <3>6. QED
        BY <1>1, <3>5
    <2>3. /\ req[q].step = "store"
          /\ TemplateFault(uses[req[q].client][req[q].use]) = "none"
          /\ \E x \in Templates :
                templates' = [templates EXCEPT ![x] =
                                [state |-> "live", owner |-> req[q].client,
                                 use |-> req[q].use, query |-> req[q].query]]
      BY <1>1, <2>1, <2>2 DEF CreateTemplate
    <2>4. /\ templates'[t].owner = req[q].client /\ templates'[t].use = req[q].use
          /\ templates'[t].query = req[q].query
      BY <1>1, <2>t, <2>3 DEF Typed
    <2>5. req[q].client \in Clients /\ req[q].use \in IntendedUses
      BY <2>t, <2>3 DEF Knows, Working
    <2>6. uses[req[q].client][req[q].use] \in Uses
      BY <2>t, <2>5 DEF Typed
    <2>7. uses[req[q].client][req[q].use].state = "live"
      BY <2>3, <2>6 DEF TemplateFault, Uses
    <2>8. Granted(q, req[q].use, req[q].query)
      BY <2>t, <2>3 DEF Knows
    <2>9. req'[q].step = "done"
      <3>1. \E why : Refuse(q, why)
        BY <2>1, <2>2 DEF CreateTemplate
      <3>2. PICK why, r : r = req[q] /\ req' = [req EXCEPT ![q] =
                                                  [r EXCEPT !.step = "done", !.answer = why]]
        BY <3>1 DEF Refuse
      <3>3. r \in RequestType
        BY <2>t, <3>2 DEF Typed
      <3>4. r = Rebuilt(r)
        BY <3>3, Fields
      <3>5. req'[q] = [r EXCEPT !.step = "done", !.answer = why]
        BY <2>t, <3>2 DEF Typed
      <3>6. QED
        BY <3>4, <3>5 DEF Rebuilt
    <2>10. QED
      BY <2>3, <2>4, <2>7, <2>8, <2>9 DEF Granted
  <1>2. Inv /\ [Next]_vars =>
           [\A t \in Templates :
               templates[t] = NoTemplate /\ templates'[t] # NoTemplate =>
                   StartsInForce(templates'[t])]_vars
    BY <1>1
  <1>3. QED
    BY <1>2, InvAlways, PTL DEF Spec, TemplatesStartInForce
=============================================================================
