-------------------------- MODULE SessionCreation --------------------------
(***************************************************************************)
(* POST /sessions and the template routes: a request is authorised by      *)
(* several separate reads of the registry, while onboarding and the        *)
(* registration service rewrite what it reads, and then mints a session    *)
(* with one call to eudi-verifier-core whose answer may be lost.  One      *)
(* action is one registry procedure or engine call with the local checks   *)
(* that follow it.                                                         *)
(*                                                                         *)
(* A DCQL query and a registered scope are the sets of claims they name;   *)
(* the empty query stands for one that does not parse or validate.  A URL  *)
(* is its origin.  Checks of the request alone (body, exactly one of       *)
(* templateId and dcqlQuery, flow, ttlSeconds) are one input bit.          *)
(***************************************************************************)
EXTENDS Integers, FiniteSets

CONSTANTS
    Clients, IntendedUses, Templates, Requests, None,
    Queries,     \* queries a request may carry, sets of claims
    Scopes,      \* scopes an intended use may be registered with
    Flows,       \* of {"same_device", "cross_device", "dcapi"}
    Origins,     \* origins a client or a request may name
    WebOrigins,  \* those that are bare https origins
    MaxChanges   \* bound on the registry changes

ASSUME CreationAssumption ==
    /\ None \notin Clients \cup IntendedUses \cup Templates \cup Origins
    /\ Flows \subseteq {"same_device", "cross_device", "dcapi"}
    /\ WebOrigins \subseteq Origins
    /\ MaxChanges \in Nat

VARIABLES
    uses,       \* uses[c][i]: c's registration of intended use i
    info,       \* info[c]: c's origins and registrar identity
    templates,  \* templates[t]: the row of template t
    changes,    \* registry changes so far
    req,        \* req[q]: the request in slot q, what it read and its answer
    minted,     \* minted[q]: engine sessions q's current request created
    session,    \* session[q]: the last of them
    offers      \* offers[q]: the uses q's client had live since q arrived

registry == <<uses, info, templates, changes>>
engine   == <<minted, session>>
vars     == <<registry, req, engine, offers>>

Uses == {[state |-> "absent", scope |-> {}], [state |-> "revoked", scope |-> {}]}
            \cup [state : {"live"}, scope : Scopes]
Infos == [origins : SUBSET Origins, identity : BOOLEAN]

NoUse      == [state |-> "absent", scope |-> {}]
NoTemplate == [state |-> "absent", owner |-> None, use |-> None, query |-> {}]
NoSession  == [client |-> None, use |-> None, query |-> {}, flow |-> "none",
               origins |-> {}, redirect |-> None]
NoInfo     == [origins |-> {}, identity |-> FALSE]

Idle == [step |-> "idle", answer |-> "none", client |-> None, template |-> None,
         query |-> {}, use |-> None, flow |-> "none", redirect |-> None,
         hook |-> None, info |-> NoInfo]

Init ==
    /\ uses = [c \in Clients |-> [i \in IntendedUses |-> NoUse]]
    /\ info \in [Clients -> Infos]
    /\ templates = [t \in Templates |-> NoTemplate]
    /\ changes = 0
    /\ req = [q \in Requests |-> Idle]
    /\ minted = [q \in Requests |-> 0]
    /\ session = [q \in Requests |-> NoSession]
    /\ offers = [q \in Requests |-> {}]

\* The intended uses in force in a registration, with their scopes.
InForce(registration) ==
    {[use |-> i, scope |-> registration[i].scope] :
        i \in {j \in IntendedUses : registration[j].state = "live"}}

-----------------------------------------------------------------------------
(* Writers of the registry: onboarding and the registration service *)

\* SetIntendedUses replaces the full set; a revocation is one such change.
SetIntendedUses(c) ==
    /\ changes < MaxChanges
    /\ changes' = changes + 1
    /\ \E f \in [IntendedUses -> Uses] :
          /\ f # uses[c]
          /\ uses' = [uses EXCEPT ![c] = f]
          /\ offers' = [q \in Requests |->
                          IF req[q].client = c THEN offers[q] \cup InForce(f)
                          ELSE offers[q]]
    /\ UNCHANGED <<info, templates, req, engine>>

UpdateClient(c) ==
    /\ changes < MaxChanges
    /\ changes' = changes + 1
    /\ \E x \in Infos \ {info[c]} : info' = [info EXCEPT ![c] = x]
    /\ UNCHANGED <<uses, templates, req, engine, offers>>

-----------------------------------------------------------------------------
(* Requests *)

\* A request of client c takes slot q.
Receive(q, c, r) ==
    /\ req[q].step \in {"idle", "done"}
    /\ req' = [req EXCEPT ![q] = r]
    /\ minted' = [minted EXCEPT ![q] = 0]
    /\ session' = [session EXCEPT ![q] = NoSession]
    /\ offers' = [offers EXCEPT ![q] = InForce(uses[c])]

Invalid(c) == [Idle EXCEPT !.client = c, !.step = "done", !.answer = "invalid"]

\* createSession, up to GetClient.  A template pins its own query and intended
\* use: what the request says of them is ignored.
ReceiveSession(q) ==
    /\ \E c \in Clients, f \in Flows, u, h \in Origins \cup {None} :
       LET r == [Idle EXCEPT !.client = c, !.step = "client", !.flow = f,
                             !.redirect = u, !.hook = h]
       IN \/ \E t \in Templates, i \in IntendedUses \cup {None} :
                Receive(q, c, [r EXCEPT !.template = t, !.use = i])
          \/ \E d \in Queries, i \in IntendedUses \cup {None} :
                Receive(q, c, [r EXCEPT !.query = d, !.use = i])
          \/ Receive(q, c, Invalid(c))
    /\ UNCHANGED registry

Refuse(q, why) ==
    req' = [req EXCEPT ![q] = [@ EXCEPT !.step = "done", !.answer = why]]

\* Any call on the registry may fail.
RegistryFails(q) ==
    /\ req[q].step \in {"client", "template", "list", "use", "wrprc",
                        "templateUse", "store", "delete"}
    /\ Refuse(q, "error")
    /\ UNCHANGED <<registry, engine, offers>>

\* createSession: GetClient, the one snapshot of the client all later checks use
GetClient(q) ==
    /\ req[q].step = "client"
    /\ LET r == req[q]
           next == IF r.template # None THEN "template"
                   ELSE IF r.use = None THEN "list" ELSE "use"
       IN req' = [req EXCEPT ![q] = [@ EXCEPT !.step = next,
                                              !.info = info[r.client]]]
    /\ UNCHANGED <<registry, engine, offers>>

\* Mutant: the template is not looked up by client.
OwnTemplateAny(c, t) == templates[t].state = "live"

\* Template t exists for client c.
OwnTemplate(c, t) == templates[t].state = "live" /\ templates[t].owner = c

\* createSession: GetTemplate
GetTemplate(q) ==
    /\ req[q].step = "template"
    /\ LET r == req[q] t == templates[r.template] IN
          \/ /\ OwnTemplate(r.client, r.template)
             /\ req' = [req EXCEPT ![q] = [@ EXCEPT !.step = "use", !.use = t.use,
                                                    !.query = t.query]]
          \/ ~OwnTemplate(r.client, r.template) /\ Refuse(q, "notFound")
    /\ UNCHANGED <<registry, engine, offers>>

\* createSession: ListIntendedUses, revoked ones included
ListIntendedUses(q) ==
    /\ req[q].step = "list"
    /\ LET all == {i \in IntendedUses : uses[req[q].client][i].state # "absent"} IN
          \/ /\ Cardinality(all) = 1
             /\ \E i \in all :
                   req' = [req EXCEPT ![q] = [@ EXCEPT !.step = "use", !.use = i]]
          \/ Cardinality(all) # 1 /\ Refuse(q, "intendedUseRequired")
    /\ UNCHANGED <<registry, engine, offers>>

\* Mutant: what a template stores is not scope-checked again.
ScopeFaultTrusting(r, u) ==
    IF u.state = "absent" THEN "notFound"
    ELSE IF u.state = "revoked" THEN "useRevoked"
    ELSE IF r.template # None \/ r.query \subseteq u.scope THEN "none"
    ELSE "scopeExceeded"

\* Mutant: whatever is asked of an intended use in force is granted.
ScopeFaultAnyQuery(r, u) ==
    IF u.state = "absent" THEN "notFound"
    ELSE IF u.state = "revoked" THEN "useRevoked"
    ELSE IF r.query = {} THEN "invalid"
    ELSE "none"

\* Mutant: the query is not validated.
ScopeFaultUnvalidated(r, u) ==
    IF u.state = "absent" THEN "notFound"
    ELSE IF u.state = "revoked" THEN "useRevoked"
    ELSE IF r.query \subseteq u.scope THEN "none"
    ELSE "scopeExceeded"

\* GetIntendedUse, the revocation check and CheckWithinScope, in this order.
ScopeFault(r, u) ==
    IF u.state = "absent" THEN "notFound"
    ELSE IF u.state = "revoked" THEN "useRevoked"
    ELSE IF r.query = {} THEN "invalid"
    ELSE IF r.query \subseteq u.scope THEN "none"
    ELSE "scopeExceeded"

\* Mutant: an unusable origin is only noticed when it is the only one.
OriginFaultSome(r) ==
    LET allowed == r.info.origins IN
    IF r.flow = "dcapi" /\ allowed \cap WebOrigins = {} THEN "originNotRegistered"
    ELSE IF r.flow = "same_device" /\ r.redirect = None THEN "invalid"
    ELSE IF ~({r.redirect, r.hook} \subseteq allowed \cup {None})
        THEN "originNotRegistered"
    ELSE "none"

\* The flow's demands on the client's origins and on the request's URLs.
OriginFault(r) ==
    LET allowed == r.info.origins IN
    IF r.flow = "dcapi" /\ (allowed = {} \/ ~(allowed \subseteq WebOrigins))
        THEN "originNotRegistered"
    ELSE IF r.flow = "same_device" /\ r.redirect = None THEN "invalid"
    ELSE IF ~({r.redirect, r.hook} \subseteq allowed \cup {None})
        THEN "originNotRegistered"
    ELSE "none"

\* createSession: GetIntendedUse and every check up to GetWRPRCForIntendedUse
Authorize(q) ==
    /\ req[q].step = "use"
    /\ LET r == req[q]
           scope == ScopeFault(r, uses[r.client][r.use])
           fault == IF scope # "none" THEN scope ELSE OriginFault(r)
       IN IF fault = "none" THEN req' = [req EXCEPT ![q].step = "wrprc"]
          ELSE Refuse(q, fault)
    /\ UNCHANGED <<registry, engine, offers>>

\* createSession: GetWRPRCForIntendedUse and NewRegistrationRef.  Whether there
\* is a WRPRC makes no difference.  The procedure always succeeds (repo.go); the
\* Fake finds no WRPRC of a use that is gone.
GetWRPRC(q) ==
    /\ req[q].step = "wrprc"
    /\ LET r == req[q] IN
          \/ uses[r.client][r.use].state = "absent" /\ Refuse(q, "notFound")
          \/ ~r.info.identity /\ Refuse(q, "registrarIdentity")
          \/ r.info.identity /\ req' = [req EXCEPT ![q].step = "create"]
    /\ UNCHANGED <<registry, engine, offers>>

\* The body of the engine call.
CreateRequest(r) ==
    [client |-> r.client, use |-> r.use, query |-> r.query, flow |-> r.flow,
     origins |-> IF r.flow = "dcapi" THEN r.info.origins ELSE {},
     redirect |-> r.redirect]

\* What the engine requires of a request (external).
EngineAccepts(s) ==
    /\ s.flow = "dcapi" => s.origins # {} /\ s.origins \subseteq WebOrigins
    /\ s.flow # "dcapi" => s.origins = {}
    /\ s.flow = "same_device" => s.redirect # None

\* The engine creates the session.
Mint(q) ==
    /\ minted' = [minted EXCEPT ![q] = @ + 1]
    /\ session' = [session EXCEPT ![q] = CreateRequest(req[q])]

\* Client.CreateSession: the engine's answer arrives
CreateSession(q) ==
    /\ req[q].step = "create"
    /\ IF EngineAccepts(CreateRequest(req[q]))
       THEN Mint(q) /\ Refuse(q, "created")
       ELSE UNCHANGED engine /\ Refuse(q, "refused")
    /\ UNCHANGED <<registry, offers>>

\* Mutant: a lost answer makes the call again.
CreateUnansweredRetries(q) ==
    /\ req[q].step = "create"
    /\ \/ EngineAccepts(CreateRequest(req[q])) /\ minted[q] < 2 /\ Mint(q) /\ UNCHANGED req
       \/ UNCHANGED engine /\ Refuse(q, "unavailable")
    /\ UNCHANGED <<registry, offers>>

\* Client.do: no answer, or an unusable one, whether or not the session exists
CreateUnanswered(q) ==
    /\ req[q].step = "create"
    /\ \/ EngineAccepts(CreateRequest(req[q])) /\ Mint(q)
       \/ UNCHANGED engine
    /\ Refuse(q, "unavailable")
    /\ UNCHANGED <<registry, offers>>

-----------------------------------------------------------------------------
(* The template routes *)

\* Bound: a template request is taken only while there is room for its row.
Room == Cardinality({q \in Requests : req[q].step \in {"templateUse", "store"}})
          < Cardinality({t \in Templates : templates[t] = NoTemplate})

\* createTemplate, up to GetIntendedUse
ReceiveTemplate(q) ==
    /\ Room
    /\ \E c \in Clients, d \in Queries, i \in IntendedUses :
          Receive(q, c, [Idle EXCEPT !.client = c, !.step = "templateUse",
                                     !.query = d, !.use = i])
    /\ UNCHANGED registry

\* createTemplate: GetIntendedUse and the write-time checks
AuthorizeTemplate(q) ==
    /\ req[q].step = "templateUse"
    /\ LET r == req[q] fault == ScopeFault(r, uses[r.client][r.use]) IN
          IF fault = "none" THEN req' = [req EXCEPT ![q].step = "store"]
          ELSE Refuse(q, fault)
    /\ UNCHANGED <<registry, engine, offers>>

\* Mutant: the procedure relies on the handler's check.
TemplateFaultTrusting(u) == "none"

\* The procedure's own validation.
TemplateFault(u) ==
    IF u.state = "absent" THEN "notFound"
    ELSE IF u.state = "revoked" THEN "useRevoked"
    ELSE "none"

\* createTemplate: CreateTemplate, whose reply may be lost
CreateTemplate(q) ==
    /\ req[q].step = "store"
    /\ LET r == req[q] fault == TemplateFault(uses[r.client][r.use]) IN
          \/ /\ fault = "none"
             /\ \E t \in Templates :
                   /\ templates[t] = NoTemplate
                   /\ templates' = [templates EXCEPT ![t] =
                                      [state |-> "live", owner |-> r.client,
                                       use |-> r.use, query |-> r.query]]
             /\ \E why \in {"stored", "error"} : Refuse(q, why)
          \/ fault # "none" /\ Refuse(q, fault) /\ UNCHANGED templates
    /\ UNCHANGED <<uses, info, changes, engine, offers>>

ReceiveDelete(q) ==
    /\ \E c \in Clients, t \in Templates :
          Receive(q, c, [Idle EXCEPT !.client = c, !.step = "delete", !.template = t])
    /\ UNCHANGED registry

\* deleteTemplate: DeleteTemplate, a soft delete whose reply may be lost
DeleteTemplate(q) ==
    /\ req[q].step = "delete"
    /\ LET r == req[q] IN
          \/ /\ OwnTemplate(r.client, r.template)
             /\ templates' = [templates EXCEPT ![r.template].state = "deleted"]
             /\ \E why \in {"deleted", "error"} : Refuse(q, why)
          \/ /\ ~OwnTemplate(r.client, r.template)
             /\ Refuse(q, "notFound")
             /\ UNCHANGED templates
    /\ UNCHANGED <<uses, info, changes, engine, offers>>

-----------------------------------------------------------------------------
Handle(q) ==
    \/ ReceiveSession(q) \/ ReceiveTemplate(q) \/ ReceiveDelete(q)
    \/ RegistryFails(q) \/ GetClient(q) \/ GetTemplate(q) \/ ListIntendedUses(q)
    \/ Authorize(q) \/ GetWRPRC(q) \/ CreateSession(q) \/ CreateUnanswered(q)
    \/ AuthorizeTemplate(q) \/ CreateTemplate(q) \/ DeleteTemplate(q)

Next ==
    \/ \E c \in Clients : SetIntendedUses(c) \/ UpdateClient(c)
    \/ \E q \in Requests : Handle(q)

Spec == Init /\ [][Next]_vars
-----------------------------------------------------------------------------
(* What the authorisation promises *)

Answers == {"none", "invalid", "error", "notFound", "intendedUseRequired",
            "useRevoked", "scopeExceeded", "originNotRegistered",
            "registrarIdentity", "created", "refused", "unavailable", "stored",
            "deleted"}

Steps == {"idle", "client", "template", "list", "use", "wrprc", "create",
          "templateUse", "store", "delete", "done"}

TypeOK ==
    /\ uses \in [Clients -> [IntendedUses -> Uses]]
    /\ info \in [Clients -> Infos]
    /\ templates \in [Templates -> {NoTemplate} \cup
          [state : {"live", "deleted"}, owner : Clients, use : IntendedUses,
           query : Queries \ {{}}]]
    /\ changes \in 0..MaxChanges
    /\ req \in [Requests ->
          [step : Steps, answer : Answers, client : Clients \cup {None},
           template : Templates \cup {None}, query : Queries \cup {{}},
           use : IntendedUses \cup {None}, flow : Flows \cup {"none"},
           redirect : Origins \cup {None}, hook : Origins \cup {None},
           info : Infos \cup {NoInfo}]]
    /\ minted \in [Requests -> Nat]
    /\ session \in [Requests ->
          [client : Clients \cup {None}, use : IntendedUses \cup {None},
           query : Queries \cup {{}}, flow : Flows \cup {"none"},
           origins : SUBSET Origins, redirect : Origins \cup {None}]]
    /\ offers \in [Requests -> SUBSET [use : IntendedUses, scope : Scopes]]

\* A session exists only for a query that, at some moment of the request, lay
\* within the scope of an unrevoked intended use of the same client, for a
\* template as for an inline query: nothing stored earlier, and nothing
\* registered for another client, authorises it.
AuthorizedDuringRequest ==
    \A q \in Requests :
        minted[q] > 0 =>
            /\ session[q].query # {}
            /\ \E o \in offers[q] :
                  o.use = session[q].use /\ session[q].query \subseteq o.scope

\* A session made from a template carries the query and the intended use that
\* one of the client's own templates pins, even if it is deleted meanwhile.
SessionFromOwnTemplate ==
    \A q \in Requests :
        minted[q] > 0 /\ req[q].template # None =>
            LET t == templates[req[q].template] IN
            /\ t.owner = session[q].client
            /\ t.use = session[q].use /\ t.query = session[q].query

\* "A template can never be created against a revoked intended use", also when
\* the use is revoked or dropped between the handler's check and the insert, and
\* "can never outrun what the client is registered for": its query lay within a
\* scope this use had for its owner during the request that stores it.  That may
\* be one replaced by the time of the insert, where nothing reads the scope again.
TemplatesStartInForce ==
    [][\A t \in Templates :
          templates[t] = NoTemplate /\ templates'[t] # NoTemplate =>
              LET new == templates'[t] IN
              /\ uses[new.owner][new.use].state = "live"
              /\ new.query # {}
              /\ \E q \in Requests :
                    /\ req[q].step = "store" /\ req'[q].step = "done"
                    /\ req[q].client = new.owner
                    /\ \E o \in offers[q] :
                          o.use = new.use /\ new.query \subseteq o.scope]_vars

\* The checks before the engine call anticipate the engine's own: it never
\* refuses a request over its flow, origins or redirect target, although they
\* are judged on a client read several calls earlier.
EngineNeverRefuses == \A q \in Requests : req[q].answer # "refused"

\* A request creates at most one session, an answer "created" means one exists,
\* and any refusal of this service leaves none behind; only an engine that did
\* not answer usably leaves the caller not knowing.
AnswerTellsOutcome ==
    \A q \in Requests :
        /\ minted[q] <= 1
        /\ req[q].answer = "created" => minted[q] = 1
        /\ minted[q] = 1 => req[q].answer \in {"created", "unavailable"}
=============================================================================
