------------------------ MODULE BoundaryRules_proofs ------------------------
(***************************************************************************)
(* Proofs about the rules without state: what MCBoundaryRules checks for   *)
(* short strings and small sets holds for inputs of any length.            *)
(***************************************************************************)
EXTENDS MCBoundaryRules, SequenceTheorems, FiniteSetTheorems, WellFoundedInduction, TLAPS
-----------------------------------------------------------------------------
(* Least and greatest positions, and parts of sequences *)

LEMMA MinIs ==
    ASSUME NEW S \in SUBSET Int, NEW x \in S, \A y \in S : x <= y
    PROVE  Min(S) = x
<1>1. \A y \in S : (\A z \in S : y <= z) => y = x
  OBVIOUS
<1>2. \E y \in S : \A z \in S : y <= z
  OBVIOUS
<1> QED  BY <1>1, <1>2 DEF Min

LEMMA MaxIs ==
    ASSUME NEW S \in SUBSET Int, NEW x \in S, \A y \in S : x >= y
    PROVE  Max(S) = x
<1>1. \A y \in S : (\A z \in S : y >= z) => y = x
  OBVIOUS
<1>2. \E y \in S : \A z \in S : y >= z
  OBVIOUS
<1> QED  BY <1>1, <1>2 DEF Max

\* A nonempty set of numbers has a least one.
LEMMA LeastExists ==
    ASSUME NEW S \in SUBSET Nat, S # {}
    PROVE  \E x \in S : \A y \in S : x <= y
<1> DEFINE R == OpToRel(<, Nat)
<1>1. IsWellFoundedOn(R, Nat)
  BY NatLessThanWellFounded
<1>2. \A x, y \in Nat : x < y => <<x, y>> \in R
  BY DEF OpToRel
<1> HIDE DEF R
<1>3. PICK x \in S : \A y \in S : <<y, x>> \notin R
  BY <1>1, WFMin
<1>4. ASSUME NEW y \in S
      PROVE  x <= y
  <2>1. y \in Nat /\ x \in Nat
    OBVIOUS
  <2>2. ~(y < x)
    BY <1>2, <1>3, <2>1
  <2> QED  BY <2>1, <2>2
<1> QED  BY <1>4

LEMMA MinFacts ==
    ASSUME NEW S \in SUBSET Nat, S # {}
    PROVE  Min(S) \in S /\ \A y \in S : Min(S) <= y
<1>1. PICK x \in S : \A y \in S : x <= y
  BY LeastExists
<1>2. Min(S) = x
  BY <1>1, MinIs
<1> QED  BY <1>1, <1>2

\* A nonempty set of positions has a greatest one.
LEMMA MaxFacts ==
    ASSUME NEW n \in Nat, NEW S \in SUBSET (0..n), S # {}
    PROVE  Max(S) \in S /\ \A y \in S : Max(S) >= y
<1> DEFINE T == {n - x : x \in S}
<1>1. \A x \in S : x \in 0..n
  OBVIOUS
<1>2. PICK t \in T : \A y \in T : t <= y
  <2>1. T \in SUBSET Nat
    BY <1>1
  <2>2. T # {}
    OBVIOUS
  <2> HIDE DEF T
  <2> QED  BY <2>1, <2>2, LeastExists
<1>3. PICK x \in S : t = n - x
  BY <1>2
<1>4. \A y \in S : x >= y
  <2>1. \A y \in S : t <= n - y
    BY <1>2
  <2> QED  BY <1>1, <1>3, <2>1
<1>5. Max(S) = x
  <2>1. S \in SUBSET Int
    BY <1>1
  <2> QED  BY <1>4, <2>1, MaxIs
<1> QED  BY <1>4, <1>5

\* A part of a sequence, element by element.
LEMMA PartOf ==
    ASSUME NEW C, NEW s \in Seq(C), NEW f \in 1..(Len(s) + 1), NEW l \in (f - 1)..Len(s)
    PROVE  /\ SubSeq(s, f, l) \in Seq(C)
           /\ Len(SubSeq(s, f, l)) = l - f + 1
           /\ \A k \in 1..(l - f + 1) : SubSeq(s, f, l)[k] = s[f - 1 + k]
<1>1. f \in Int /\ l \in Int /\ Len(s) \in Nat
  OBVIOUS
<1>2. \A k \in f..l : s[k] \in C
  BY <1>1, ElementOfSeq
<1>3. /\ SubSeq(s, f, l) \in Seq(C)
      /\ Len(SubSeq(s, f, l)) = IF f <= l THEN l - f + 1 ELSE 0
      /\ \A k \in 1..(l - f + 1) : SubSeq(s, f, l)[k] = s[f + k - 1]
  BY <1>1, <1>2, SubSeqProperties
<1>4. \A k \in 1..(l - f + 1) : f + k - 1 = f - 1 + k
  BY <1>1
<1> QED  BY <1>1, <1>3, <1>4

\* The part of s that holds t from position a on is t.
LEMMA PartAt ==
    ASSUME NEW C, NEW s \in Seq(C), NEW t \in Seq(C), NEW a \in Nat,
           a + Len(t) <= Len(s), \A k \in 1..Len(t) : s[a + k] = t[k]
    PROVE  SubSeq(s, a + 1, a + Len(t)) = t
<1> DEFINE u == SubSeq(s, a + 1, a + Len(t))
<1>1. Len(t) \in Nat /\ Len(s) \in Nat
  OBVIOUS
<1>2. \A k \in (a + 1)..(a + Len(t)) : s[k] \in C
  BY <1>1, ElementOfSeq
<1>3. /\ u \in Seq(C)
      /\ Len(u) = IF a + 1 <= a + Len(t) THEN a + Len(t) - (a + 1) + 1 ELSE 0
      /\ \A k \in 1..(a + Len(t) - (a + 1) + 1) : u[k] = s[a + 1 + k - 1]
  BY <1>1, <1>2, SubSeqProperties
<1> HIDE DEF u
<1>4. Len(u) = Len(t)
  BY <1>1, <1>3
<1>5. \A k \in 1..Len(u) : u[k] = t[k]
  <2>1. ASSUME NEW k \in 1..Len(t)
        PROVE  u[k] = t[k]
    <3>1. a + 1 + k - 1 = a + k /\ k \in 1..(a + Len(t) - (a + 1) + 1)
      BY <1>1
    <3> QED  BY <1>3, <3>1
  <2> QED  BY <1>4, <2>1
<1>6. u = t
  BY <1>3, <1>4, <1>5, SeqEqual
<1> QED  BY <1>6 DEF u

LEMMA OneElement ==
    ASSUME NEW C, NEW s \in Seq(C), NEW i \in 1..Len(s)
    PROVE  SubSeq(s, i, i) = <<s[i]>>
<1>1. i \in Int /\ \A k \in i..i : s[k] \in C
  BY ElementOfSeq
<1>2. /\ SubSeq(s, i, i) \in Seq(C) /\ Len(SubSeq(s, i, i)) = 1
      /\ SubSeq(s, i, i)[1] = s[i]
  <2>1. /\ SubSeq(s, i, i) \in Seq(C)
        /\ Len(SubSeq(s, i, i)) = IF i <= i THEN i - i + 1 ELSE 0
        /\ \A k \in 1..(i - i + 1) : SubSeq(s, i, i)[k] = s[i + k - 1]
    BY <1>1, SubSeqProperties
  <2> QED  BY <1>1, <2>1
<1>3. <<s[i]>> \in Seq(C) /\ Len(<<s[i]>>) = 1 /\ <<s[i]>>[1] = s[i]
  BY ElementOfSeq
<1> DEFINE t == SubSeq(s, i, i)
           u == <<s[i]>>
<1>4. t \in Seq(C) /\ u \in Seq(C) /\ Len(t) = 1 /\ Len(u) = 1 /\ t[1] = u[1]
  BY <1>2, <1>3
<1> HIDE DEF t, u
<1>5. \A k \in 1..Len(t) : t[k] = u[k]
  BY <1>4
<1>6. t = u
  BY <1>4, <1>5, SeqEqual
<1> QED  BY <1>6 DEF t, u
-----------------------------------------------------------------------------
(* The stores, the views and the scope *)

\* Every method that reads or writes through call is faithful to the reply,
\* whatever the procedure returned or raised.
LEMMA StoresFaithful ==
    ASSUME NEW reply \in Replies
    PROVE  FaithfulTo(reply)
<1> DEFINE e == reply.envelope
<1>1. /\ reply.via \in {"row", "raised", "lost"}
      /\ e \in Envelopes
  BY DEF Replies
<1>2. /\ e.result \in {"success", "error", "unknown", "malformed"}
      /\ e.code \in Codes \cup {NoCode}
      /\ e.data \in Values \cup {Absent, Undecodable}
  BY <1>1 DEF Envelopes
<1> HIDE DEF e
<1>3. CASE reply.via = "lost"
  <2>1. Call(reply) = Infra
    BY <1>3 DEF Call
  <2>2. Call(reply).err = "infra"
    BY <2>1 DEF Infra, Returned
  <2>3. /\ Read(reply) = Infra /\ ReadWRPRC(reply) = Infra
        /\ Write(reply).err = "infra"
    BY <2>1, <2>2 DEF Read, ReadWRPRC, Write, Infra, Returned
  <2> QED  BY <1>3, <2>3 DEF FaithfulTo, Infra, Returned
<1>4. CASE reply.via = "raised"
  <2>1. Call(reply) = Returned(ParseEnvelope(e).err, Absent)
    BY <1>4 DEF Call, e
  <2> QED
    BY <1>2, <1>4, <2>1, StoreAssumption
    DEF FaithfulTo, Read, ReadWRPRC, Write, ParseEnvelope, ResultError, Infra,
        Returned, e
<1>5. CASE reply.via = "row"
  <2>1. Call(reply) = ParseEnvelope(e)
    BY <1>5 DEF Call, e
  <2> QED
    BY <1>2, <1>5, <2>1, StoreAssumption
    DEF FaithfulTo, Read, ReadWRPRC, Write, ParseEnvelope, ResultError, Infra,
        Returned, e
<1> QED  BY <1>1, <1>3, <1>4, <1>5
-----------------------------------------------------------------------------
\* A report of any length maps without an error, and what is mapped is a record.
LEMMA ReportsMap ==
    ASSUME NEW raw \in {None} \cup RawReports
    PROVE  /\ MapReport(raw) \in MappedReports
           /\ MapReport(raw) # Error
<1> DEFINE Checks == [check : CheckNames, outcome : Outcomes]
<1>1. CASE raw = None
  <2>1. MapReport(raw) = [report |-> None, failure |-> None]
    BY <1>1, ViewAssumption DEF MapReport
  <2> QED  BY <2>1, MarkersAssumption DEF MappedReports
<1>2. CASE raw # None
  <2>1. raw # Malformed
    BY <1>2, MarkersAssumption
  <2>2. raw.checks \in Seq(Checks) /\ raw.failCode \in FailCodes \cup {NoFailCode}
    BY <1>2 DEF RawReports
  <2> DEFINE report == [i \in 1..Len(raw.checks) |->
                           [raw.checks[i] EXCEPT !.outcome = MapOutcome(@)]]
             failure == IF raw.failCode = NoFailCode THEN None ELSE raw.failCode
  <2>3. ASSUME NEW i \in 1..Len(raw.checks)
        PROVE  report[i] \in MappedChecks
    <3>1. PICK check \in Checks : check = raw.checks[i]
      BY <2>2, ElementOfSeq
    <3>2. MapOutcome(check.outcome) \in Outcomes \cup {"skipped_by_policy"}
      BY <3>1 DEF MapOutcome
    <3> QED  BY <3>1, <3>2 DEF MappedChecks
  <2>4. report \in Seq(MappedChecks)
    <3>1. Len(raw.checks) \in Nat
      BY <2>2
    <3> HIDE DEF Checks
    <3>2. report \in [1..Len(raw.checks) -> MappedChecks]
      BY <2>3
    <3> QED  BY <3>1, <3>2
  <2>5. failure \in {None} \cup FailCodes
    BY <2>2
  <2>6. MapReport(raw) = [report |-> report, failure |-> failure]
    BY <1>2, <2>1 DEF MapReport
  <2> HIDE DEF report, failure
  <2>7. MapReport(raw) \in MappedReports
    BY <2>4, <2>5, <2>6 DEF MappedReports
  <2> QED  BY <2>7, MarkersAssumption
<1> QED  BY <1>1, <1>2

\* Either copy maps any number of credentials to a result, and to the same.
LEMMA CredentialsMap ==
    ASSUME NEW res, res.credentials \in Seq(Credentials)
    PROVE  /\ MapResult(res) \in Results
           /\ MapResultCredentials(res) = MapResult(res)
<1> DEFINE Mapped == [queryId : QueryIds, format : Formats,
                      doctypeOrVct : Doctypes, claims : ClaimValues]
           credentials == [i \in 1..Len(res.credentials) |->
                              MapCredential(res.credentials[i])]
           copied == [i \in 1..Len(res.credentials) |->
                         WebhookCredential(res.credentials[i])]
<1>1. Len(res.credentials) \in Nat
  OBVIOUS
<1>2. ASSUME NEW i \in 1..Len(res.credentials)
      PROVE  /\ MapCredential(res.credentials[i]) \in Mapped
             /\ WebhookCredential(res.credentials[i]) = MapCredential(res.credentials[i])
  <2>1. PICK c \in Credentials : c = res.credentials[i]
    BY <1>2, ElementOfSeq
  <2>2. /\ c.queryCredentialId \in QueryIds /\ c.format \in Formats
        /\ c.doctypeOrVct \in Doctypes /\ c.claims \in ClaimValues
    BY <2>1 DEF Credentials
  <2> QED  BY <2>1, <2>2 DEF MapCredential, WebhookCredential
<1>3. credentials \in Seq(Mapped)
  <2> HIDE DEF Mapped
  <2>1. credentials \in [1..Len(res.credentials) -> Mapped]
    BY <1>2
  <2> QED  BY <1>1, <2>1
<1>4. copied = credentials
  BY <1>2
<1>5. MapResult(res) = [credentials |-> credentials]
  BY DEF MapResult
<1>6. MapResultCredentials(res) = [credentials |-> copied]
  BY DEF MapResultCredentials
<1> HIDE DEF credentials, copied
<1> QED  BY <1>3, <1>4, <1>5, <1>6 DEF Results

AnyRow == [flow : {"same_device", "cross_device", "dcapi"}, redeemed : BOOLEAN,
           status : {"verified", "failed"}, report : {None, Malformed} \cup RawReports]

\* The poll and the webhook of a session say the same of it, for rows and payloads
\* of one outcome with any number of checks and credentials; what does not decode
\* is an error to the webhook and to every poll that would release it.
THEOREM ViewsAgree ==
    ASSUME NEW row \in AnyRow, NEW payload \in {Malformed} \cup RawPayloads,
           payload # Malformed => /\ payload.outcome = row.status
                                  /\ payload.report = row.report
    PROVE  SameView(row, payload)
<1>1. /\ row.flow \in {"same_device", "cross_device", "dcapi"}
      /\ row.redeemed \in BOOLEAN /\ row.status \in {"verified", "failed"}
      /\ row.report \in {None, Malformed} \cup RawReports
  BY DEF AnyRow
<1>2. CASE payload = Malformed
  <2>1. Webhook(payload) = Error /\ Unreadable(payload)
    BY <1>2 DEF Webhook, Unreadable
  <2>2. Fetch(payload) = Error
    BY <1>2, ViewAssumption DEF Fetch
  <2>3. Released(row) => Poll(row, payload) = Error
    BY <2>2 DEF Poll
  <2> QED  BY <2>1, <2>3 DEF SameView
<1>3. CASE payload # Malformed /\ payload.report = Malformed
  <2>1. MapReport(payload.report) = Error
    BY <1>3, ViewAssumption DEF MapReport
  <2>2. Webhook(payload) = Error /\ Unreadable(payload)
    BY <1>3, <2>1 DEF Webhook, Unreadable
  <2>3. Released(row) => Poll(row, payload) = Error
    BY <1>3, <2>1 DEF Poll
  <2> QED  BY <2>2, <2>3 DEF SameView
<1>4. CASE payload # Malformed /\ payload.report # Malformed
  <2>1. /\ payload \in RawPayloads /\ payload.credentials \in Seq(Credentials)
        /\ payload.report \in {None} \cup RawReports
        /\ payload.outcome = row.status /\ payload.report = row.report
    BY <1>4 DEF RawPayloads
  <2>2. payload # None /\ ~Unreadable(payload)
    BY <1>4, <2>1, MarkersAssumption DEF Unreadable
  <2>3. PICK mapped \in MappedReports : mapped = MapReport(payload.report)
    BY <2>1, ReportsMap
  <2>4. /\ mapped # Error /\ mapped.report \in {None} \cup Seq(MappedChecks)
        /\ mapped.failure \in {None} \cup FailCodes
    BY <2>3, MarkersAssumption DEF MappedReports
  <2>5. PICK result \in Results : /\ result = MapResult(payload)
                                  /\ result = MapResultCredentials(payload)
    BY <2>1, CredentialsMap
  <2>6. result # None
    BY <2>5, MarkersAssumption
  <2> DEFINE Body(res) == [state |-> row.status, report |-> mapped.report,
                           failure |-> mapped.failure, result |-> res]
             sent == IF row.status = "verified" THEN result ELSE None
  <2>7. Webhook(payload) = Body(sent)
    BY <1>4, <2>1, <2>3, <2>4, <2>5 DEF Webhook
  <2>8. Body(sent) # Error
    <3>1. Body(sent) \in Bodies
      BY <1>1, <2>4, <2>5 DEF Bodies
    <3> QED  BY <3>1, MarkersAssumption
  <2>9. NothingFetched # Error /\ NothingFetched.result = None
    <3>1. NothingFetched \in Fetched
      BY DEF NothingFetched, Fetched
    <3> QED  BY <3>1, MarkersAssumption DEF NothingFetched
  <2>10. Fetch(payload) # Error /\ Fetch(payload).result = result
    <3> DEFINE fetched == [result |-> result, report |-> mapped.report,
                           failure |-> mapped.failure]
    <3>1. fetched \in Fetched
      BY <2>4, <2>5 DEF Fetched
    <3>2. Fetch(payload) = fetched
      BY <1>4, <2>2, <2>3, <2>4, <2>5 DEF Fetch
    <3> QED  BY <3>1, <3>2, MarkersAssumption
  <2>11. Fetch(None) = NothingFetched
    BY ViewAssumption DEF Fetch
  <2>12. Poll(row, payload) = IF Released(row) THEN Body(result) ELSE Body(None)
    BY <2>1, <2>3, <2>4, <2>9, <2>10 DEF Poll
  <2>13. Poll(row, None) = Body(None)
    BY <2>1, <2>3, <2>4, <2>9, <2>11 DEF Poll
  <2>14. [Body(sent) EXCEPT !.result = None] = Body(None) /\ Body(sent).result = sent
    OBVIOUS
  <2>15. Poll(row, payload) = IF row.flow = "same_device" /\ ~row.redeemed
                              THEN Body(None) ELSE Body(sent)
    BY <1>1, <2>12 DEF Released
  <2> HIDE DEF Body
  <2>16. sent # None <=> row.status = "verified"
    BY <2>6
  <2> HIDE DEF sent
  <2> QED  BY <2>2, <2>7, <2>8, <2>13, <2>14, <2>15, <2>16 DEF SameView
<1> QED  BY <1>2, <1>3, <1>4
-----------------------------------------------------------------------------
\* The elements of registered and of queried paths, over any set of names and all
\* numbers.
JsonElements == {JsonKey(k) : k \in Names} \cup {JsonNumber(h) : h \in Int}
                    \cup {JsonNull, JsonOther}
PathElements == {Key(k) : k \in Names} \cup {Index(n) : n \in Nat} \cup {Wildcard}

AnyCredential == [types : SUBSET Types, all : BOOLEAN,
                  claims : SUBSET Seq(JsonElements)]

LEMMA MinOfOne ==
    ASSUME NEW i \in Int
    PROVE  Min({i}) = i
BY DEF Min

\* toPathElement fails on exactly the elements no claim path may hold.
LEMMA RefusedIfInvalid ==
    ASSUME NEW e \in JsonElements
    PROVE  ToPathElement(e) # Refused <=> Valid(e)
<1>1. CASE \E k \in Names : e = JsonKey(k)
  BY <1>1 DEF JsonKey, ToPathElement, Key, Refused, Valid
<1>2. CASE \E h \in Int : e = JsonNumber(h)
  BY <1>2 DEF JsonNumber, ToPathElement, Index, Refused, Valid
<1>3. CASE e = JsonNull \/ e = JsonOther
  BY <1>3 DEF JsonNull, JsonOther, ToPathElement, Wildcard, Refused, Valid
<1> QED  BY <1>1, <1>2, <1>3 DEF JsonElements

\* Without fractions it is the inverse of how a typed element is written.
LEMMA ElementWritten ==
    ASSUME NEW e \in JsonElements, NEW t \in PathElements,
           Valid(e), ~Fraction(e)
    PROVE  ToPathElement(e) = t <=> e = WrittenElement(t)
<1>1. CASE \E k \in Names : t = Key(k)
  <2>1. PICK k \in Names : t = Key(k)
    BY <1>1
  <2>2. WrittenElement(t) = JsonKey(k)
    BY <2>1 DEF WrittenElement, Key
  <2> QED
    BY <2>1, <2>2
    DEF JsonElements, JsonKey, JsonNumber, JsonNull, JsonOther, ToPathElement, Key,
        Index, Wildcard, Refused, Valid
<1>2. CASE \E n \in Nat : t = Index(n)
  <2>1. PICK n \in Nat : t = Index(n)
    BY <1>2
  <2>2. WrittenElement(t) = JsonNumber(2 * n)
    BY <2>1 DEF WrittenElement, Index
  <2>3. CASE \E h \in Int : e = JsonNumber(h)
    <3>1. PICK h \in Int : e = JsonNumber(h)
      BY <2>3
    <3>2. h >= 0 /\ h % 2 = 0
      BY <3>1 DEF JsonNumber, Valid, Fraction
    <3>3. ToPathElement(e) = Index(h \div 2)
      BY <3>1, <3>2 DEF JsonNumber, ToPathElement
    <3>4. h \div 2 = n <=> h = 2 * n
      BY <3>2
    <3> QED  BY <2>1, <2>2, <3>1, <3>3, <3>4 DEF Index, JsonNumber
  <2>4. CASE e \in {JsonKey(k) : k \in Names} \cup {JsonNull, JsonOther}
    BY <2>1, <2>2, <2>4
    DEF JsonKey, JsonNumber, JsonNull, JsonOther, ToPathElement, Key, Index,
        Wildcard, Refused
  <2> QED  BY <2>3, <2>4 DEF JsonElements
<1>3. CASE t = Wildcard
  <2>1. WrittenElement(t) = JsonNull
    BY <1>3 DEF WrittenElement, Wildcard
  <2> QED
    BY <1>3, <2>1
    DEF JsonElements, JsonKey, JsonNumber, JsonNull, JsonOther, ToPathElement, Key,
        Index, Wildcard, Refused, Valid
<1> QED  BY <1>1, <1>2, <1>3 DEF PathElements

\* So it is for paths.
LEMMA PathWritten ==
    ASSUME NEW path \in Seq(JsonElements), NEW p \in Seq(PathElements),
           \A i \in 1..Len(path) : Valid(path[i]) /\ ~Fraction(path[i])
    PROVE  p = ToClaimPath(path) <=> Written(p) = path
<1>1. Len(path) \in Nat /\ Len(p) \in Nat
  OBVIOUS
<1>2. /\ DOMAIN path = 1..Len(path) /\ DOMAIN ToClaimPath(path) = 1..Len(path)
      /\ DOMAIN p = 1..Len(p) /\ DOMAIN Written(p) = 1..Len(p)
  BY DEF ToClaimPath, Written
<1>3. ASSUME NEW i \in 1..Len(path), i \in 1..Len(p)
      PROVE  p[i] = ToClaimPath(path)[i] <=> Written(p)[i] = path[i]
  <2>1. path[i] \in JsonElements /\ p[i] \in PathElements
    BY <1>3
  <2>2. ToPathElement(path[i]) = p[i] <=> path[i] = WrittenElement(p[i])
    BY <1>3, <2>1, ElementWritten
  <2>3. ToClaimPath(path)[i] = ToPathElement(path[i])
    BY <1>3 DEF ToClaimPath
  <2>4. Written(p)[i] = WrittenElement(p[i])
    BY <1>3 DEF Written
  <2> QED  BY <2>2, <2>3, <2>4
<1>4. ASSUME p = ToClaimPath(path)
      PROVE  Written(p) = path
  <2>1. Len(p) = Len(path)
    BY <1>1, <1>2, <1>4
  <2>2. \A i \in 1..Len(p) : Written(p)[i] = path[i]
    BY <1>3, <1>4, <2>1
  <2>3. Written(p) = [i \in 1..Len(p) |-> Written(p)[i]]
    BY DEF Written
  <2>4. path = [i \in 1..Len(p) |-> path[i]]
    BY <2>1
  <2> QED  BY <2>2, <2>3, <2>4
<1>5. ASSUME Written(p) = path
      PROVE  p = ToClaimPath(path)
  <2>1. Len(p) = Len(path)
    <3>1. DOMAIN Written(p) = DOMAIN path
      BY <1>5
    <3>2. 1..Len(p) = 1..Len(path)
      BY <1>2, <3>1
    <3> QED  BY <1>1, <3>2
  <2>2. \A i \in 1..Len(p) : p[i] = ToClaimPath(path)[i]
    BY <1>3, <1>5, <2>1
  <2>3. ToClaimPath(path) = [i \in 1..Len(p) |-> ToClaimPath(path)[i]]
    BY <2>1 DEF ToClaimPath
  <2>4. p = [i \in 1..Len(p) |-> p[i]]
    OBVIOUS
  <2> QED  BY <2>2, <2>3, <2>4
<1> QED  BY <1>4, <1>5

\* The check is exact for queries and registries of any size, as long as the
\* uses of a client have ids of their own.
THEOREM ScopeIsExact ==
    ASSUME NEW query \in SUBSET [type : Types, path : Seq(PathElements)],
           NEW Ids, NEW id,
           NEW uses \in Seq([id : Ids, credentials : SUBSET AnyCredential]),
           \A i, j \in 1..Len(uses) : uses[i].id = uses[j].id => i = j
    PROVE  ScopeExact(query, uses, id)
<1> DEFINE named == {uses[i] : i \in {j \in 1..Len(uses) : uses[j].id = id}}
           Registered_(claim, use) ==
              \E c \in use.credentials :
                 claim.type \in c.types /\ (c.all \/ Written(claim.path) \in c.claims)
<1>1. CASE \A i \in 1..Len(uses) : uses[i].id # id
  <2>1. named = {} /\ ~Accepts(query, uses, id)
    BY <1>1 DEF Accepts
  <2> QED  BY <2>1 DEF ScopeExact
<1>2. CASE \E i \in 1..Len(uses) : uses[i].id = id
  <2>1. PICK i \in 1..Len(uses) : uses[i].id = id
    BY <1>2
  <2> DEFINE use == uses[i]
  <2>2. {j \in 1..Len(uses) : uses[j].id = id} = {i}
    BY <2>1
  <2>3. named = {use}
    BY <2>2
  <2>4. CredentialsOf(uses, id) = use.credentials
    BY <2>2, MinOfOne DEF CredentialsOf
  <2>5. use.credentials \in SUBSET AnyCredential
    <3>1. use \in [id : Ids, credentials : SUBSET AnyCredential]
      BY ElementOfSeq
    <3> QED  BY <3>1
  <2> HIDE DEF use
  <2>6. ASSUME \A e \in Elements(use) : ~Fraction(e)
        PROVE  Accepts(query, uses, id) <=>
                  /\ \A e \in Elements(use) : Valid(e)
                  /\ \A claim \in query : Registered_(claim, use)
    <3>1. \A c \in use.credentials, path \in Seq(JsonElements) :
             path \in c.claims => \A k \in 1..Len(path) : path[k] \in Elements(use)
      BY DEF Elements
    <3>2. \A e \in Elements(use) :
             \E c \in use.credentials, path \in Seq(JsonElements) :
                path \in c.claims /\ \E k \in 1..Len(path) : e = path[k]
      BY <2>5 DEF Elements, AnyCredential
    <3>3. \A path \in Seq(JsonElements) : \A k \in 1..Len(path) :
             ToPathElement(path[k]) # Refused <=> Valid(path[k])
      BY RefusedIfInvalid, ElementOfSeq
    <3>4. \A c \in use.credentials : c.claims \in SUBSET Seq(JsonElements)
      BY <2>5 DEF AnyCredential
    <3>5. (\A c \in use.credentials : Converts(c))
             <=> \A e \in Elements(use) : Valid(e)
      BY <3>1, <3>2, <3>3, <3>4 DEF Converts
    <3>6. ASSUME \A e \in Elements(use) : Valid(e), NEW claim \in query
          PROVE  \A c \in use.credentials :
                    claim.path \in {ToClaimPath(path) : path \in c.claims}
                       <=> Written(claim.path) \in c.claims
      <4>1. claim.path \in Seq(PathElements)
        OBVIOUS
      <4>2. ASSUME NEW c \in use.credentials, NEW path \in c.claims
            PROVE  claim.path = ToClaimPath(path) <=> Written(claim.path) = path
        <5>1. path \in Seq(JsonElements)
          BY <3>4
        <5>2. \A k \in 1..Len(path) : Valid(path[k]) /\ ~Fraction(path[k])
          BY <2>6, <3>1, <3>6, <5>1
        <5> QED  BY <4>1, <5>1, <5>2, PathWritten
      <4> QED  BY <4>2
    <3>7. ASSUME \A e \in Elements(use) : Valid(e)
          PROVE  WithinScope(query, use.credentials)
                    <=> \A claim \in query : Registered_(claim, use)
      BY <3>6, <3>7 DEF WithinScope
    <3>8. Accepts(query, uses, id)
             <=> /\ \A c \in use.credentials : Converts(c)
                 /\ WithinScope(query, use.credentials)
      BY <1>2, <2>4 DEF Accepts
    <3> HIDE DEF Registered_
    <3> QED  BY <3>5, <3>7, <3>8
  <2>7. named = {use} => ScopeExact(query, uses, id)
    <3> HIDE DEF use
    <3> QED  BY <2>6 DEF ScopeExact
  <2> QED  BY <2>3, <2>7
<1> QED  BY <1>1, <1>2
-----------------------------------------------------------------------------
(* The parser of presented keys *)

\* A set that a finite one includes has fewer than two elements only if it leaves
\* out all but one.
LEMMA AtLeastTwo ==
    ASSUME NEW n \in Nat, NEW S \in SUBSET (1..n)
    PROVE  Cardinality(S) >= 2 <=> \E a, b \in S : a # b
<1>1. IsFiniteSet(S) /\ Cardinality(S) \in Nat
  <2>1. IsFiniteSet(1..n)
    BY FS_Interval
  <2> QED  BY <2>1, FS_Subset, FS_CardinalityType
<1>2. ASSUME NEW a \in S, NEW b \in S, a # b
      PROVE  Cardinality(S) >= 2
  <2>1. IsFiniteSet({a}) /\ Cardinality({a}) = 1
    BY FS_Singleton
  <2>2. Cardinality({a} \cup {b}) = 2
    BY <1>2, <2>1, FS_AddElement
  <2>3. {a} \cup {b} \in SUBSET S
    OBVIOUS
  <2> QED  BY <1>1, <2>2, <2>3, FS_Subset
<1>3. ASSUME ~ \E a, b \in S : a # b
      PROVE  Cardinality(S) < 2
  <2>1. CASE S = {}
    BY <2>1, FS_EmptySet
  <2>2. CASE S # {}
    <3>1. PICK a \in S : TRUE
      BY <2>2
    <3>2. S = {a}
      BY <1>3
    <3> QED  BY <3>2, FS_Singleton
  <2> QED  BY <2>1, <2>2
<1> QED  BY <1>1, <1>2, <1>3

LEMMA SepsFinite ==
    ASSUME NEW C, NEW s \in Seq(C)
    PROVE  IsFiniteSet(Seps(s)) /\ Cardinality(Seps(s)) \in Nat
<1>1. IsFiniteSet(1..Len(s))
  BY FS_Interval
<1>2. Seps(s) \in SUBSET (1..Len(s))
  BY DEF Seps
<1> QED  BY <1>1, <1>2, FS_Subset, FS_CardinalityType

\* The first two separators of a string that has as many, and what is between.
LEMMA SplitAtFirstTwo ==
    ASSUME NEW C, NEW s \in Seq(C), NEW i \in Seps(s), NEW j \in Seps(s), i < j,
           \A k \in Seps(s) : k = i \/ k >= j
    PROVE  Split(s) = <<SubSeq(s, 1, i - 1), SubSeq(s, i + 1, j - 1),
                        SubSeq(s, j + 1, Len(s))>>
<1>1. Len(s) \in Nat /\ Seps(s) \in SUBSET (1..Len(s))
  BY DEF Seps
<1>2. Cardinality(Seps(s)) >= 2 /\ Cardinality(Seps(s)) \in Nat
  <2>1. i # j
    BY <1>1
  <2> QED  BY <1>1, <2>1, AtLeastTwo, SepsFinite
<1>3. Min(Seps(s)) = i
  <2>1. Seps(s) \in SUBSET Int
    BY <1>1
  <2>2. \A k \in Seps(s) : i <= k
    BY <2>1
  <2> QED  BY <2>1, <2>2, MinIs
<1>4. Min(Seps(s) \ {i}) = j
  <2>1. Seps(s) \ {i} \in SUBSET Int /\ j \in Seps(s) \ {i}
    BY <1>1
  <2>2. \A k \in Seps(s) \ {i} : j <= k
    BY <2>1
  <2> QED  BY <2>1, <2>2, MinIs
<1>5. ~(Cardinality(Seps(s)) < 2)
  BY <1>2
<1> QED  BY <1>3, <1>4, <1>5 DEF Split

LEMMA SplitSomewhere ==
    ASSUME NEW C, NEW s \in Seq(C), Split(s) # <<>>
    PROVE  \E i, j \in Seps(s) : i < j /\ \A k \in Seps(s) : k = i \/ k >= j
<1>1. Len(s) \in Nat /\ Seps(s) \in SUBSET (1..Len(s))
  BY DEF Seps
<1>2. Cardinality(Seps(s)) \in Nat
  BY SepsFinite
<1>3. Cardinality(Seps(s)) >= 2
  BY <1>2 DEF Split
<1>4. PICK a, b \in Seps(s) : a # b
  BY <1>1, <1>3, AtLeastTwo
<1> DEFINE i == Min(Seps(s))
           j == Min(Seps(s) \ {i})
<1>5. i \in Seps(s) /\ \A k \in Seps(s) : i <= k
  BY <1>1, <1>4, MinFacts
<1>6. j \in Seps(s) \ {i} /\ \A k \in Seps(s) \ {i} : j <= k
  <2>1. Seps(s) \ {i} \in SUBSET Nat /\ Seps(s) \ {i} # {}
    BY <1>1, <1>4
  <2> HIDE DEF i
  <2> QED  BY <2>1, MinFacts
<1> HIDE DEF i, j
<1> QED  BY <1>1, <1>5, <1>6

\* What Parse accepts is displayed as what it gives back.
LEMMA AcceptedIsDisplayed ==
    ASSUME NEW C, NEW s \in Seq(C), Parse(s).ok
    PROVE  /\ Parse(s).prefix \in Prefixes /\ Parse(s).secret \in Secrets
           /\ s = DisplayKey(Parse(s).prefix, Parse(s).secret)
<1> DEFINE parts == Split(s)
<1>1. /\ parts # <<>> /\ parts[1] = KeyScheme
      /\ parts[2] \in Prefixes /\ parts[3] \in Secrets
      /\ Parse(s) = [ok |-> TRUE, prefix |-> parts[2], secret |-> parts[3]]
  BY DEF Parse, ErrFormat
<1>2. PICK i \in Seps(s), j \in Seps(s) :
          i < j /\ \A k \in Seps(s) : k = i \/ k >= j
  BY <1>1, SplitSomewhere
<1>3. /\ Len(s) \in Nat /\ i \in 1..Len(s) /\ j \in 1..Len(s)
      /\ s[i] = Sep /\ s[j] = Sep
  BY DEF Seps
<1>4. parts = <<SubSeq(s, 1, i - 1), SubSeq(s, i + 1, j - 1),
                SubSeq(s, j + 1, Len(s))>>
  BY <1>2, SplitAtFirstTwo
<1> HIDE DEF parts
<1>5. SubSeq(s, i, i) = <<Sep>> /\ SubSeq(s, j, j) = <<Sep>>
  BY <1>3, OneElement
<1>6. SubSeq(s, 1, i - 1) \o SubSeq(s, i, i) = SubSeq(s, 1, i)
  BY <1>3, ConcatAdjacentSubSeq
<1>7. SubSeq(s, 1, i) \o SubSeq(s, i + 1, j - 1) = SubSeq(s, 1, j - 1)
  BY <1>2, <1>3, ConcatAdjacentSubSeq
<1>8. SubSeq(s, 1, j - 1) \o SubSeq(s, j, j) = SubSeq(s, 1, j)
  BY <1>3, ConcatAdjacentSubSeq
<1>9. SubSeq(s, 1, j) \o SubSeq(s, j + 1, Len(s)) = s
  BY <1>3, ConcatAdjacentSubSeq, SubSeqFull
<1>10. /\ parts[1] = SubSeq(s, 1, i - 1) /\ parts[2] = SubSeq(s, i + 1, j - 1)
       /\ parts[3] = SubSeq(s, j + 1, Len(s))
  BY <1>4
<1>11. s = DisplayKey(parts[2], parts[3])
  BY <1>1, <1>5, <1>6, <1>7, <1>8, <1>9, <1>10 DEF DisplayKey
<1> QED  BY <1>1, <1>11

\* Where the parts of a displayed key are.
LEMMA DisplayedAt ==
    ASSUME NEW p \in Prefixes, NEW x \in Secrets
    PROVE  LET s == DisplayKey(p, x)
               a == Len(KeyScheme) + 1
               b == a + PrefixLen + 1
           IN /\ s \in Seq(Crockford \cup Base64URL)
              /\ Len(s) = b + SecretLen
              /\ \A k \in 1..Len(KeyScheme) : s[k] = KeyScheme[k]
              /\ s[a] = Sep /\ s[b] = Sep
              /\ \A k \in 1..PrefixLen : s[a + k] = p[k]
              /\ \A k \in 1..SecretLen : s[b + k] = x[k]
<1> DEFINE A == Crockford \cup Base64URL
           a == Len(KeyScheme) + 1
           b == a + PrefixLen + 1
           t1 == KeyScheme \o <<Sep>>
           t2 == t1 \o p
           t3 == t2 \o <<Sep>>
           t4 == t3 \o x
<1>1. /\ KeyScheme \in Seq(A) /\ Len(KeyScheme) \in Nat
      /\ PrefixLen \in Nat /\ SecretLen \in Nat
      /\ <<Sep>> \in Seq(A) /\ Len(<<Sep>>) = 1 /\ <<Sep>>[1] = Sep
  BY FormatAssumption
<1>2. p \in Seq(A) /\ Len(p) = PrefixLen
  BY <1>1 DEF Prefixes
<1>3. x \in Seq(A) /\ Len(x) = SecretLen
  BY <1>1 DEF Secrets
<1> DEFINE sep == <<Sep>>
<1>13. a = Len(KeyScheme) + 1 /\ b = a + PrefixLen + 1 /\ a \in Nat /\ b \in Nat
  BY <1>1
<1> HIDE DEF A, sep, a, b
<1>4. /\ t1 \in Seq(A) /\ Len(t1) = a
      /\ \A k \in 1..a : t1[k] = IF k < a THEN KeyScheme[k] ELSE Sep
  <2>1. sep \in Seq(A) /\ Len(sep) = 1 /\ sep[1] = Sep
    BY <1>1 DEF sep
  <2>2. t1 = KeyScheme \o sep
    BY DEF sep
  <2> HIDE DEF t1
  <2>3. /\ t1 \in Seq(A) /\ Len(t1) = Len(KeyScheme) + Len(sep)
        /\ \A k \in 1..(Len(KeyScheme) + Len(sep)) :
              t1[k] = IF k <= Len(KeyScheme) THEN KeyScheme[k]
                      ELSE sep[k - Len(KeyScheme)]
    BY <1>1, <2>1, <2>2, ConcatProperties
  <2>4. Len(KeyScheme) + Len(sep) = a /\ Len(KeyScheme) = a - 1
    BY <1>1, <1>13, <2>1
  <2> QED  BY <1>13, <2>1, <2>3, <2>4
<1> HIDE DEF t1
<1>5. /\ t2 \in Seq(A) /\ Len(t2) = a + PrefixLen
      /\ \A k \in 1..(a + PrefixLen) : t2[k] = IF k <= a THEN t1[k] ELSE p[k - a]
  <2>1. /\ t2 \in Seq(A) /\ Len(t2) = Len(t1) + Len(p)
        /\ \A k \in 1..(Len(t1) + Len(p)) :
              t2[k] = IF k <= Len(t1) THEN t1[k] ELSE p[k - Len(t1)]
    BY <1>2, <1>4, ConcatProperties
  <2> QED  BY <1>2, <1>4, <2>1
<1> HIDE DEF t2
<1>6. /\ t3 \in Seq(A) /\ Len(t3) = b
      /\ \A k \in 1..b : t3[k] = IF k < b THEN t2[k] ELSE Sep
  <2>1. sep \in Seq(A) /\ Len(sep) = 1 /\ sep[1] = Sep
    BY <1>1 DEF sep
  <2>2. t3 = t2 \o sep
    BY DEF sep
  <2> HIDE DEF t3
  <2>3. /\ t3 \in Seq(A) /\ Len(t3) = Len(t2) + Len(sep)
        /\ \A k \in 1..(Len(t2) + Len(sep)) :
              t3[k] = IF k <= Len(t2) THEN t2[k] ELSE sep[k - Len(t2)]
    BY <1>5, <2>1, <2>2, ConcatProperties
  <2>4. Len(t2) + Len(sep) = b /\ Len(t2) = b - 1
    BY <1>1, <1>5, <1>13, <2>1
  <2> QED  BY <1>13, <2>1, <2>3, <2>4
<1> HIDE DEF t3
<1>7. /\ t4 \in Seq(A) /\ Len(t4) = b + SecretLen
      /\ \A k \in 1..(b + SecretLen) : t4[k] = IF k <= b THEN t3[k] ELSE x[k - b]
  <2>1. /\ t4 \in Seq(A) /\ Len(t4) = Len(t3) + Len(x)
        /\ \A k \in 1..(Len(t3) + Len(x)) :
              t4[k] = IF k <= Len(t3) THEN t3[k] ELSE x[k - Len(t3)]
    BY <1>3, <1>6, ConcatProperties
  <2> QED  BY <1>3, <1>6, <2>1
<1>8. t4 = DisplayKey(p, x)
  BY DEF t1, t2, t3, DisplayKey
<1> HIDE DEF t4
<1>9. \A k \in 1..Len(KeyScheme) : t4[k] = KeyScheme[k]
  BY <1>1, <1>4, <1>5, <1>6, <1>7, <1>13
<1>10. t4[a] = Sep /\ t4[b] = Sep
  BY <1>1, <1>4, <1>5, <1>6, <1>7, <1>13
<1>11. \A k \in 1..PrefixLen : t4[a + k] = p[k]
  BY <1>1, <1>2, <1>5, <1>6, <1>7, <1>13
<1>12. \A k \in 1..SecretLen : t4[b + k] = x[k]
  <2>1. ASSUME NEW k \in 1..SecretLen
        PROVE  t4[b + k] = x[k]
    <3>1. PICK j \in 1..(b + SecretLen) : j = b + k
      BY <1>1, <1>13
    <3>2. ~(j <= b) /\ j - b = k
      BY <1>1, <1>13, <3>1
    <3>3. t4[j] = x[j - b]
      BY <1>7, <3>2
    <3> QED  BY <3>1, <3>2, <3>3
  <2> QED  BY <2>1
<1> QED  BY <1>7, <1>8, <1>9, <1>10, <1>11, <1>12 DEF A, a, b

\* Every displayed key is accepted, with its own parts.
LEMMA DisplayedIsAccepted ==
    ASSUME NEW p \in Prefixes, NEW x \in Secrets
    PROVE  Parse(DisplayKey(p, x)) = [ok |-> TRUE, prefix |-> p, secret |-> x]
<1> DEFINE A == Crockford \cup Base64URL
           s == DisplayKey(p, x)
           kl == Len(KeyScheme)
           a == kl + 1
           b == a + PrefixLen + 1
<1>1. /\ kl \in Nat /\ PrefixLen \in Nat /\ SecretLen \in Nat
      /\ KeyScheme \in Seq(A) /\ \A k \in 1..kl : KeyScheme[k] # Sep
  BY FormatAssumption
<1>2. /\ s \in Seq(A) /\ Len(s) = b + SecretLen
      /\ \A k \in 1..kl : s[k] = KeyScheme[k]
      /\ s[a] = Sep /\ s[b] = Sep
      /\ \A k \in 1..PrefixLen : s[a + k] = p[k]
      /\ \A k \in 1..SecretLen : s[b + k] = x[k]
  BY DisplayedAt
<1>3. \A k \in 1..PrefixLen : p[k] # Sep
  BY FormatAssumption DEF Prefixes
<1>4. /\ p \in Seq(A) /\ Len(p) = PrefixLen
      /\ x \in Seq(A) /\ Len(x) = SecretLen
  BY <1>1 DEF Prefixes, Secrets
<1>5. a = kl + 1 /\ b = a + PrefixLen + 1 /\ a \in Nat /\ b \in Nat
  BY <1>1
<1> HIDE DEF A, s, kl, a, b
<1>6. a \in Seps(s) /\ b \in Seps(s) /\ a < b
  BY <1>1, <1>2, <1>5 DEF Seps
<1>7. \A k \in Seps(s) : k = a \/ k >= b
  <2>1. ASSUME NEW k \in 1..Len(s), s[k] = Sep, k < b, k # a
        PROVE  FALSE
    <3>1. CASE k < a
      <4>1. k \in 1..kl
        BY <1>5, <3>1, <1>1
      <4> QED  BY <1>1, <1>2, <2>1, <4>1
    <3>2. CASE k > a
      <4>1. k - a \in 1..PrefixLen /\ k = a + (k - a)
        BY <1>1, <1>5, <2>1, <3>2
      <4>2. s[k] = p[k - a]
        BY <1>2, <4>1
      <4> QED  BY <1>3, <2>1, <4>1, <4>2
    <3> QED  BY <1>5, <2>1, <3>1, <3>2
  <2> QED  BY <1>5, <2>1 DEF Seps
<1>8. Split(s) = <<SubSeq(s, 1, a - 1), SubSeq(s, a + 1, b - 1),
                   SubSeq(s, b + 1, Len(s))>>
  BY <1>2, <1>6, <1>7, SplitAtFirstTwo
<1>9. SubSeq(s, 1, a - 1) = KeyScheme
  <2>1. \A k \in 1..Len(KeyScheme) : s[k] = KeyScheme[k]
    BY <1>2 DEF kl
  <2>2. 0 + Len(KeyScheme) <= Len(s) /\ a - 1 = 0 + Len(KeyScheme)
    BY <1>1, <1>2, <1>5 DEF kl
  <2> QED  BY <1>1, <1>2, <2>1, <2>2, PartAt
<1>10. SubSeq(s, a + 1, b - 1) = p
  <2>1. a + Len(p) <= Len(s) /\ b - 1 = a + Len(p)
    BY <1>1, <1>2, <1>4, <1>5
  <2> QED  BY <1>2, <1>4, <1>5, <2>1, PartAt
<1>11. SubSeq(s, b + 1, Len(s)) = x
  <2>1. b + Len(x) <= Len(s) /\ Len(s) = b + Len(x)
    BY <1>1, <1>2, <1>4, <1>5
  <2> QED  BY <1>2, <1>4, <1>5, <2>1, PartAt
<1> DEFINE parts == Split(s)
<1>12. parts = <<KeyScheme, p, x>>
  BY <1>8, <1>9, <1>10, <1>11
<1>13. Parse(s) = [ok |-> TRUE, prefix |-> p, secret |-> x]
  <2>1. /\ parts # <<>> /\ parts[1] = KeyScheme /\ parts[2] = p /\ parts[3] = x
    BY <1>12
  <2> QED  BY <2>1 DEF Parse
<1> QED  BY <1>13 DEF s

\* Parse inverts the display of keys: it accepts those and no other string.
LEMMA ParseInverts ==
    ASSUME NEW C, NEW s \in Seq(C)
    PROVE  Inverts(s)
BY AcceptedIsDisplayed, DisplayedIsAccepted DEF Inverts
-----------------------------------------------------------------------------
(* The prefix of the Valkey keys *)

\* TrimRight keeps a sequence up to its last element that is not c.
Ends(s, c, m) == /\ m \in 0..Len(s)
                 /\ m = 0 \/ s[m] # c
                 /\ \A k \in (m + 1)..Len(s) : s[k] = c

LEMMA TrimRightIs ==
    ASSUME NEW C, NEW s \in Seq(C), NEW c, NEW m, Ends(s, c, m)
    PROVE  TrimRight(s, c) = SubSeq(s, 1, m)
<1>1. Len(s) \in Nat /\ m \in 0..Len(s)
  BY DEF Ends
<1>2. Kept(s, c) \in SUBSET Int
  BY DEF Kept
<1>3. CASE m = 0
  <2>1. Kept(s, c) = {}
    BY <1>1, <1>3 DEF Ends, Kept
  <2>2. SubSeq(s, 1, m) = <<>>
    BY <1>3, SubSeqEmpty
  <2> QED  BY <2>1, <2>2 DEF TrimRight
<1>4. CASE m # 0
  <2>1. m \in Kept(s, c) /\ \A k \in Kept(s, c) : m >= k
    BY <1>1, <1>4 DEF Ends, Kept
  <2>2. Max(Kept(s, c)) = m
    BY <1>2, <2>1, MaxIs
  <2> QED  BY <2>1, <2>2 DEF TrimRight
<1> QED  BY <1>3, <1>4

LEMMA TrimRightSome ==
    ASSUME NEW C, NEW s \in Seq(C), NEW c
    PROVE  \E m \in 0..Len(s) : Ends(s, c, m)
<1>1. Len(s) \in Nat /\ Kept(s, c) \in SUBSET (0..Len(s))
  BY DEF Kept
<1>2. CASE Kept(s, c) = {}
  <2>1. Ends(s, c, 0)
    BY <1>1, <1>2 DEF Kept, Ends
  <2> QED  BY <1>1, <2>1
<1>3. CASE Kept(s, c) # {}
  <2> DEFINE m == Max(Kept(s, c))
  <2>1. m \in Kept(s, c) /\ \A k \in Kept(s, c) : m >= k
    BY <1>1, <1>3, MaxFacts
  <2> HIDE DEF m
  <2>2. m \in 0..Len(s) /\ Ends(s, c, m)
    <3>1. m \in 1..Len(s) /\ s[m] # c
      BY <2>1 DEF Kept
    <3>2. \A k \in (m + 1)..Len(s) : s[k] = c
      BY <1>1, <2>1, <3>1 DEF Kept
    <3> QED  BY <1>1, <3>1, <3>2 DEF Ends
  <2> QED  BY <2>2
<1> QED  BY <1>2, <1>3

\* TrimSpace keeps it from its first element that is not Blank to its last.
Spans(s, f, l) == /\ f \in 1..Len(s) /\ l \in f..Len(s)
                  /\ s[f] # Blank /\ s[l] # Blank
                  /\ \A k \in 1..Len(s) : k < f \/ k > l => s[k] = Blank

LEMMA TrimSpaceIs ==
    ASSUME NEW C, NEW s \in Seq(C), NEW f, NEW l, Spans(s, f, l)
    PROVE  TrimSpace(s) = SubSeq(s, f, l)
<1>1. Len(s) \in Nat /\ f \in 1..Len(s) /\ l \in f..Len(s)
  BY DEF Spans
<1>2. Kept(s, Blank) \in SUBSET Int /\ f \in Kept(s, Blank) /\ l \in Kept(s, Blank)
  BY <1>1 DEF Spans, Kept
<1>3. \A k \in Kept(s, Blank) : f <= k /\ l >= k
  BY <1>1 DEF Spans, Kept
<1>4. Min(Kept(s, Blank)) = f /\ Max(Kept(s, Blank)) = l
  BY <1>2, <1>3, MinIs, MaxIs
<1> QED  BY <1>2, <1>4 DEF TrimSpace

LEMMA TrimSpaceSome ==
    ASSUME NEW C, NEW s \in Seq(C), Kept(s, Blank) # {}
    PROVE  \E f, l \in 1..Len(s) : Spans(s, f, l)
<1> DEFINE K == Kept(s, Blank)
           f == Min(K)
           l == Max(K)
<1>1. Len(s) \in Nat /\ K \in SUBSET (0..Len(s)) /\ K \in SUBSET Nat
  BY DEF Kept
<1>2. f \in K /\ \A k \in K : f <= k
  BY <1>1, MinFacts
<1>3. l \in K /\ \A k \in K : l >= k
  BY <1>1, MaxFacts
<1> HIDE DEF f, l
<1>4. f \in 1..Len(s) /\ l \in 1..Len(s) /\ f <= l /\ s[f] # Blank /\ s[l] # Blank
  BY <1>2, <1>3 DEF Kept
<1>5. \A k \in 1..Len(s) : k < f \/ k > l => s[k] = Blank
  <2>1. \A k \in 1..Len(s) : s[k] # Blank => f <= k /\ l >= k
    BY <1>2, <1>3 DEF Kept
  <2> QED  BY <1>4, <2>1
<1>6. Spans(s, f, l)
  BY <1>1, <1>4, <1>5 DEF Spans
<1> QED  BY <1>4, <1>6

\* Colons after a string, and space around one, are trimmed away.
LEMMA ColonTrimmed ==
    ASSUME NEW C, Colon \in C, NEW s \in Seq(C)
    PROVE  TrimRight(Append(s, Colon), Colon) = TrimRight(s, Colon)
<1> DEFINE t == Append(s, Colon)
<1>1. PICK m \in 0..Len(s) : Ends(s, Colon, m)
  BY TrimRightSome
<1>2. /\ t \in Seq(C) /\ Len(t) = Len(s) + 1
      /\ \A k \in 1..Len(s) : t[k] = s[k]
      /\ t[Len(s) + 1] = Colon
  BY AppendProperties
<1>3. Len(s) \in Nat
  OBVIOUS
<1> HIDE DEF t
<1>4. Ends(t, Colon, m)
  BY <1>1, <1>2, <1>3 DEF Ends
<1>5. SubSeq(t, 1, m) = SubSeq(s, 1, m)
  <2> DEFINE u == SubSeq(s, 1, m)
  <2>1. u \in Seq(C) /\ Len(u) = m /\ \A k \in 1..m : u[k] = s[k]
    <3>1. /\ u \in Seq(C) /\ Len(u) = m - 1 + 1
          /\ \A k \in 1..(m - 1 + 1) : u[k] = s[1 - 1 + k]
      BY <1>3, PartOf
    <3> HIDE DEF u
    <3> QED  BY <3>1
  <2> HIDE DEF u
  <2>2. 0 + Len(u) <= Len(t) /\ \A k \in 1..Len(u) : t[0 + k] = u[k]
    BY <1>2, <1>3, <2>1
  <2>3. SubSeq(t, 0 + 1, 0 + Len(u)) = u
    BY <1>2, <2>1, <2>2, PartAt
  <2> QED  BY <2>1, <2>3 DEF u
<1>6. TrimRight(t, Colon) = SubSeq(t, 1, m) /\ TrimRight(s, Colon) = SubSeq(s, 1, m)
  BY <1>1, <1>2, <1>4, TrimRightIs
<1> QED  BY <1>5, <1>6 DEF t

LEMMA SpaceTrimmed ==
    ASSUME NEW C, Blank \in C, NEW p \in Seq(C)
    PROVE  TrimSpace(<<Blank>> \o p \o <<Blank>>) = TrimSpace(p)
<1> DEFINE b == <<Blank>>
           r == b \o p
           q == r \o b
<1>1. Len(p) \in Nat /\ b \in Seq(C) /\ Len(b) = 1 /\ b[1] = Blank
  OBVIOUS
<1> HIDE DEF b
<1>2. /\ r \in Seq(C) /\ Len(r) = Len(b) + Len(p)
      /\ \A k \in 1..(Len(b) + Len(p)) : r[k] = IF k <= Len(b) THEN b[k]
                                                ELSE p[k - Len(b)]
  BY <1>1, ConcatProperties
<1> HIDE DEF r
<1>3. /\ q \in Seq(C) /\ Len(q) = Len(r) + Len(b)
      /\ \A k \in 1..(Len(r) + Len(b)) : q[k] = IF k <= Len(r) THEN r[k]
                                                ELSE b[k - Len(r)]
  <2>1. r \in Seq(C) /\ b \in Seq(C)
    BY <1>1, <1>2
  <2> QED  BY <2>1, ConcatProperties
<1> HIDE DEF q
<1>4. Len(q) = Len(p) + 2
  BY <1>1, <1>2, <1>3
<1>5. q[1] = Blank /\ q[Len(p) + 2] = Blank
  BY <1>1, <1>2, <1>3
<1>6. \A k \in 1..Len(p) : q[1 + k] = p[k]
  BY <1>1, <1>2, <1>3
<1>7. \A k \in 1..Len(q) : k = 1 \/ k = Len(p) + 2 \/ (k - 1 \in 1..Len(p) /\ q[k] = p[k - 1])
  <2>1. ASSUME NEW k \in 1..Len(q), k # 1, k # Len(p) + 2
        PROVE  k - 1 \in 1..Len(p) /\ k = 1 + (k - 1)
    BY <1>1, <1>4, <2>1
  <2> QED  BY <1>6, <2>1
<1>8. CASE Kept(p, Blank) = {}
  <2>1. \A k \in 1..Len(p) : p[k] = Blank
    BY <1>8 DEF Kept
  <2>2. Kept(q, Blank) = {}
    BY <1>5, <1>7, <2>1 DEF Kept
  <2> QED  BY <1>8, <2>2 DEF TrimSpace, q, r, b
<1>9. CASE Kept(p, Blank) # {}
  <2>1. PICK f, l \in 1..Len(p) : Spans(p, f, l)
    BY <1>9, TrimSpaceSome
  <2>2. /\ f <= l /\ p[f] # Blank /\ p[l] # Blank
        /\ \A k \in 1..Len(p) : k < f \/ k > l => p[k] = Blank
    BY <2>1 DEF Spans
  <2>3. Spans(q, f + 1, l + 1)
    <3>1. /\ f + 1 \in 1..Len(q) /\ l + 1 \in (f + 1)..Len(q)
          /\ q[f + 1] # Blank /\ q[l + 1] # Blank
      BY <1>1, <1>4, <1>6, <2>2
    <3>2. ASSUME NEW k \in 1..Len(q), k < f + 1 \/ k > l + 1
          PROVE  q[k] = Blank
      <4>1. CASE k = 1 \/ k = Len(p) + 2
        BY <1>5, <4>1
      <4>2. CASE k - 1 \in 1..Len(p) /\ q[k] = p[k - 1]
        <5>1. k - 1 < f \/ k - 1 > l
          BY <3>2
        <5> QED  BY <2>2, <4>2, <5>1
      <4> QED  BY <1>7, <4>1, <4>2
    <3> QED  BY <3>1, <3>2 DEF Spans
  <2> DEFINE t == SubSeq(p, f, l)
  <2>4. /\ t \in Seq(C) /\ Len(t) = l - f + 1
        /\ \A k \in 1..(l - f + 1) : t[k] = p[f - 1 + k]
    <3>1. f \in 1..(Len(p) + 1) /\ l \in (f - 1)..Len(p)
      BY <1>1, <2>2
    <3> QED  BY <3>1, PartOf
  <2> HIDE DEF t
  <2>5. SubSeq(q, f + 1, f + Len(t)) = t
    <3>1. f \in Nat /\ f + Len(t) <= Len(q)
      BY <1>1, <1>4, <2>2, <2>4
    <3>2. ASSUME NEW k \in 1..Len(t)
          PROVE  q[f + k] = t[k]
      <4>1. f - 1 + k \in 1..Len(p) /\ f + k = 1 + (f - 1 + k)
        BY <1>1, <2>2, <2>4
      <4> QED  BY <1>6, <2>4, <4>1
    <3> QED  BY <1>3, <2>4, <3>1, <3>2, PartAt
  <2>6. f + Len(t) = l + 1
    BY <2>2, <2>4
  <2>7. TrimSpace(q) = SubSeq(q, f + 1, l + 1) /\ TrimSpace(p) = t
    BY <1>3, <2>1, <2>3, TrimSpaceIs DEF t
  <2> QED  BY <2>5, <2>6, <2>7 DEF q, r, b
<1> QED  BY <1>8, <1>9

\* Without space at either end there is none to trim.
LEMMA NothingTrimmed ==
    ASSUME NEW C, NEW v \in Seq(C), v # <<>>, v[1] # Blank, v[Len(v)] # Blank
    PROVE  TrimSpace(v) = v
<1>1. Len(v) \in Nat /\ Len(v) >= 1
  BY EmptySeq
<1>2. Spans(v, 1, Len(v))
  BY <1>1 DEF Spans
<1> QED  BY <1>2, TrimSpaceIs, SubSeqFull

\* What TrimSpace leaves is empty or does not start with a space.
LEMMA TrimmedStart ==
    ASSUME NEW C, NEW p \in Seq(C)
    PROVE  /\ TrimSpace(p) \in Seq(C)
           /\ TrimSpace(p) # <<>> => TrimSpace(p)[1] # Blank
<1>1. CASE Kept(p, Blank) = {}
  <2>1. TrimSpace(p) = <<>>
    BY <1>1 DEF TrimSpace
  <2> QED  BY <2>1
<1>2. CASE Kept(p, Blank) # {}
  <2>1. PICK f, l \in 1..Len(p) : Spans(p, f, l)
    BY <1>2, TrimSpaceSome
  <2>2. Len(p) \in Nat /\ f <= l /\ p[f] # Blank
    BY <2>1 DEF Spans
  <2> DEFINE t == SubSeq(p, f, l)
  <2>3. t \in Seq(C) /\ \A k \in 1..(l - f + 1) : t[k] = p[f - 1 + k]
    <3>1. f \in 1..(Len(p) + 1) /\ l \in (f - 1)..Len(p)
      BY <2>2
    <3> QED  BY <3>1, PartOf
  <2>4. TrimSpace(p) = t
    BY <2>1, TrimSpaceIs
  <2> HIDE DEF t
  <2>5. 1 \in 1..(l - f + 1) /\ f - 1 + 1 = f
    BY <2>2
  <2>6. t[1] = p[f]
    BY <2>3, <2>5
  <2> QED  BY <2>2, <2>3, <2>4, <2>6
<1> QED  BY <1>1, <1>2

\* So a colon put after what was trimmed is not followed by a space to trim.
LEMMA ColonStays ==
    ASSUME NEW C, Colon \in C, NEW t \in Seq(C), t # <<>> => t[1] # Blank
    PROVE  TrimSpace(Append(t, Colon)) = Append(t, Colon)
<1> DEFINE v == Append(t, Colon)
<1>1. Len(t) \in Nat /\ (t = <<>> <=> Len(t) = 0)
  BY EmptySeq
<1>2. /\ v \in Seq(C) /\ Len(v) = Len(t) + 1
      /\ \A k \in 1..Len(t) : v[k] = t[k]
      /\ v[Len(t) + 1] = Colon
  BY AppendProperties
<1> HIDE DEF v
<1>3. v # <<>> /\ v[1] # Blank /\ v[Len(v)] # Blank
  <2>1. CASE t = <<>>
    BY <1>1, <1>2, <2>1, PrefixAssumption, EmptySeq
  <2>2. CASE t # <<>>
    <3>1. 1 \in 1..Len(t)
      BY <1>1, <2>2
    <3> QED  BY <1>1, <1>2, <2>2, <3>1, PrefixAssumption, EmptySeq
  <2> QED  BY <2>1, <2>2
<1>4. TrimSpace(v) = v
  BY <1>2, <1>3, NothingTrimmed
<1> QED  BY <1>4 DEF v

\* A string that does not end with a colon has none to trim.
LEMMA NoColonTrimmed ==
    ASSUME NEW C, NEW u \in Seq(C), u # <<>>, u[Len(u)] # Colon
    PROVE  TrimRight(u, Colon) = u
<1>1. Len(u) \in Nat
  OBVIOUS
<1>2. Ends(u, Colon, Len(u))
  BY <1>1 DEF Ends
<1> QED  BY <1>2, TrimRightIs, SubSeqFull

\* What neither starts with a space nor ends with a colon, closed by a colon, is
\* left as it is.
LEMMA NewIsFixed ==
    ASSUME NEW C, Colon \in C, NEW u \in Seq(C), u # <<>>,
           u[1] # Blank, u[Len(u)] # Colon
    PROVE  New(Append(u, Colon)) = Append(u, Colon)
<1>1. TrimSpace(Append(u, Colon)) = Append(u, Colon)
  BY ColonStays
<1>2. TrimRight(u, Colon) = u
  BY NoColonTrimmed
<1>3. TrimRight(Append(u, Colon), Colon) = u
  BY <1>2, ColonTrimmed
<1> QED  BY <1>1, <1>3 DEF New

\* The normal form of any prefix is empty, or a prefix that New leaves as it is.
LEMMA NewForm ==
    ASSUME NEW C, Colon \in C, NEW p \in Seq(C)
    PROVE  \/ New(p) = <<>>
           \/ \E u \in Seq(C) : /\ u # <<>> /\ u[1] # Blank /\ u[Len(u)] # Colon
                                /\ New(p) = Append(u, Colon)
<1>1. CASE Kept(p, Blank) = {}
  <2>1. TrimSpace(p) = <<>>
    BY <1>1 DEF TrimSpace
  <2>2. TrimRight(TrimSpace(p), Colon) = <<>>
    <3>1. Kept(<<>>, Colon) = {}
      BY DEF Kept
    <3> QED  BY <2>1, <3>1 DEF TrimRight
  <2> QED  BY <2>2 DEF New
<1>2. CASE Kept(p, Blank) # {}
  <2>1. PICK f, l \in 1..Len(p) : Spans(p, f, l)
    BY <1>2, TrimSpaceSome
  <2>2. Len(p) \in Nat /\ f <= l /\ p[f] # Blank
    BY <2>1 DEF Spans
  <2> DEFINE t == SubSeq(p, f, l)
  <2>3. /\ t \in Seq(C) /\ Len(t) = l - f + 1
        /\ \A k \in 1..(l - f + 1) : t[k] = p[f - 1 + k]
    <3>1. f \in 1..(Len(p) + 1) /\ l \in (f - 1)..Len(p)
      BY <2>2
    <3> QED  BY <3>1, PartOf
  <2>4. TrimSpace(p) = t
    BY <2>1, TrimSpaceIs
  <2> HIDE DEF t
  <2>5. PICK m \in 0..Len(t) : Ends(t, Colon, m)
    BY <2>3, TrimRightSome
  <2>6. TrimRight(t, Colon) = SubSeq(t, 1, m)
    BY <2>3, <2>5, TrimRightIs
  <2> DEFINE u == SubSeq(t, 1, m)
  <2>7. u \in Seq(C) /\ Len(u) = m /\ \A k \in 1..m : u[k] = t[k]
    <3>1. /\ u \in Seq(C) /\ Len(u) = m - 1 + 1
          /\ \A k \in 1..(m - 1 + 1) : u[k] = t[1 - 1 + k]
      BY <2>2, <2>3, PartOf
    <3> HIDE DEF u
    <3> QED  BY <3>1
  <2> HIDE DEF u
  <2>8. New(p) = IF u = <<>> THEN <<>> ELSE Append(u, Colon)
    BY <2>4, <2>6 DEF New, u
  <2>9. ASSUME u # <<>>
        PROVE  u[1] # Blank /\ u[Len(u)] # Colon
    <3>1. m >= 1
      BY <2>7, <2>9, EmptySeq
    <3>2. u[1] = p[f]
      <4>1. 1 \in 1..m /\ 1 \in 1..(l - f + 1) /\ f - 1 + 1 = f
        BY <2>2, <2>3, <3>1
      <4> QED  BY <2>3, <2>7, <4>1
    <3>3. u[Len(u)] = t[m] /\ t[m] # Colon
      BY <2>5, <2>7, <3>1 DEF Ends
    <3> QED  BY <2>2, <3>2, <3>3
  <2> QED  BY <2>7, <2>8, <2>9
<1> QED  BY <1>1, <1>2

\* The form of a prefix depends on nothing but the space inside it.
LEMMA PrefixIsNormal ==
    ASSUME NEW C, Colon \in C, Blank \in C, NEW p \in Seq(C)
    PROVE  Normal(p)
<1> DEFINE new == New(p)
<1>1. New(<<Blank>> \o p \o <<Blank>>) = new
  BY SpaceTrimmed DEF New
<1>2. New(Append(TrimSpace(p), Colon)) = new
  <2>1. TrimSpace(p) \in Seq(C) /\ (TrimSpace(p) # <<>> => TrimSpace(p)[1] # Blank)
    BY TrimmedStart
  <2>2. TrimSpace(Append(TrimSpace(p), Colon)) = Append(TrimSpace(p), Colon)
    BY <2>1, ColonStays
  <2>3. TrimRight(Append(TrimSpace(p), Colon), Colon) = TrimRight(TrimSpace(p), Colon)
    BY <2>1, ColonTrimmed
  <2> QED  BY <2>2, <2>3 DEF New
<1>3. CASE new = <<>>
  <2>1. Kept(<<>>, Blank) = {} /\ Kept(<<>>, Colon) = {}
    BY DEF Kept
  <2>2. New(<<>>) = <<>>
    BY <2>1 DEF New, TrimSpace, TrimRight
  <2> QED  BY <1>1, <1>2, <1>3, <2>2 DEF Normal
<1>4. CASE new # <<>>
  <2>1. PICK u \in Seq(C) : /\ u # <<>> /\ u[1] # Blank /\ u[Len(u)] # Colon
                            /\ new = Append(u, Colon)
    BY <1>4, NewForm
  <2>2. Len(u) \in Nat /\ Len(u) >= 1
    BY <2>1, EmptySeq
  <2>3. New(new) = new
    BY <2>1, NewIsFixed
  <2>4. /\ Len(new) = Len(u) + 1 /\ new[Len(u) + 1] = Colon
        /\ new[Len(u)] = u[Len(u)]
    BY <2>1, <2>2, AppendProperties
  <2> HIDE DEF new
  <2>5. new[Len(new)] = Colon /\ Len(new) > 1 /\ new[Len(new) - 1] # Colon
    <3>1. Len(new) - 1 = Len(u) /\ Len(new) > 1
      BY <2>2, <2>4
    <3> QED  BY <2>1, <2>4, <3>1
  <2>6. SubSeq(new, 1, Len(new) - 1) = u
    <3>1. 0 + Len(u) <= Len(new) /\ Len(new) - 1 = 0 + Len(u)
      BY <2>2, <2>4
    <3>2. new \in Seq(C) /\ \A k \in 1..Len(u) : new[0 + k] = u[k]
      BY <2>1, <2>2, AppendProperties
    <3> QED  BY <3>1, <3>2, PartAt
  <2> DEFINE w == Append(u, Blank)
  <2>7. /\ w \in Seq(C) /\ Len(w) = Len(u) + 1 /\ w[Len(u) + 1] = Blank
        /\ \A k \in 1..Len(u) : w[k] = u[k]
    BY AppendProperties
  <2>8. New(Append(w, Colon)) = Append(w, Colon)
    <3> HIDE DEF w
    <3>1. w # <<>> /\ w[1] # Blank /\ w[Len(w)] # Colon
      BY <2>1, <2>2, <2>7, PrefixAssumption, EmptySeq
    <3> QED  BY <2>7, <3>1, NewIsFixed
  <2>9. Append(w, Colon) # new
    <3> HIDE DEF w
    <3>1. Len(Append(w, Colon)) = Len(w) + 1
      BY <2>7, AppendProperties
    <3> QED  BY <2>2, <2>4, <2>7, <3>1
  <2> QED  BY <1>1, <1>2, <2>3, <2>5, <2>6, <2>8, <2>9 DEF Normal, new
<1> QED  BY <1>3, <1>4
-----------------------------------------------------------------------------
(* The specification *)

\* What the rule in use was called with.
CallOK ==
    \/ call = NoCall
    \/ \E s \in Strings(Characters) : call = [rule |-> "Parse", key |-> s]
    \/ \E p \in Strings(PrefixCharacters) :
          call = [rule |-> "New", prefix |-> p]
    \/ \E r \in Replies : call = [rule |-> "Call", reply |-> r]
    \/ \E a, b \in Claims, c \in Registered(2), d \in Registered(1), i \in UseIds :
          call = [rule |-> "Scope", query |-> {a, b}, id |-> i,
                  uses |-> <<[id |-> "u1", credentials |-> {c}],
                             [id |-> "u2", credentials |-> {d}]>>]
    \/ \E r \in Rows : \E p \in PayloadsOf(r) :
          call = [rule |-> "View", row |-> r, payload |-> p]

LEMMA CallsOK == Spec => []CallOK
<1>1. Init => CallOK
  BY DEF Init, CallOK
<1>2. CallOK /\ [Next]_call => CallOK'
  <2> SUFFICES ASSUME CallOK, [Next]_call
               PROVE  CallOK'
    OBVIOUS
  <2>1. CASE PresentKey
    BY <2>1 DEF PresentKey, CallOK
  <2>2. CASE ConfigurePrefix
    BY <2>2 DEF ConfigurePrefix, CallOK
  <2>3. CASE CallProcedure
    BY <2>3 DEF CallProcedure, CallOK
  <2>4. CASE CheckScope
    BY <2>4 DEF CheckScope, CallOK
  <2>5. CASE FinishSession
    BY <2>5 DEF FinishSession, CallOK
  <2>6. CASE Return
    BY <2>6 DEF Return, CallOK
  <2>7. CASE UNCHANGED call
    BY <2>7 DEF CallOK
  <2> QED  BY <2>1, <2>2, <2>3, <2>4, <2>5, <2>6, <2>7 DEF Next
<1> QED  BY <1>1, <1>2, PTL DEF Spec

LEMMA StringsAreSeqs ==
    ASSUME NEW A, NEW s \in Strings(A)
    PROVE  s \in Seq(A)
<1>1. PICK n \in 0..MaxLength : s \in [1..n -> A]
  BY DEF Strings
<1>2. n \in Nat
  OBVIOUS
<1> QED  BY <1>1, <1>2

LEMMA ShortAreSeqs ==
    ASSUME NEW A
    PROVE  {<<>>} \cup {<<a>> : a \in A} \in SUBSET Seq(A)
<1>1. \A a \in A : <<a>> \in Seq(A)
  OBVIOUS
<1>2. <<>> \in Seq(A)
  OBVIOUS
<1> QED  BY <1>1, <1>2

LEMMA RegisteredAreCredentials ==
    ASSUME NEW n, NEW c \in Registered(n)
    PROVE  c \in AnyCredential
<1>1. JsonPaths \in SUBSET Seq(JsonElements)
  <2>1. ASSUME NEW path \in JsonPaths
        PROVE  \E e \in JsonElements : path = <<e>>
    BY DEF JsonPaths, JsonElements
  <2>2. \A e \in JsonElements : <<e>> \in Seq(JsonElements)
    OBVIOUS
  <2> QED  BY <2>1, <2>2
<1>2. c.claims \in SUBSET JsonPaths
  BY DEF Registered, kSubset
<1>3. c \in [types : SUBSET Types, all : BOOLEAN, claims : SUBSET JsonPaths]
  BY DEF Registered, kSubset
<1> QED  BY <1>1, <1>3 DEF AnyCredential

\* The stores turn no refusal and no failure of a procedure into a success, for
\* any codes and any data.
THEOREM RefusalsReachTheCaller == Spec => []NoErrorLost
<1>1. CallOK => NoErrorLost
  <2> SUFFICES ASSUME CallOK, call.rule = "Call"
               PROVE  FaithfulTo(call.reply)
    BY DEF NoErrorLost
  <2>1. PICK r \in Replies : call = [rule |-> "Call", reply |-> r]
    BY DEF CallOK, NoCall
  <2> QED  BY <2>1, StoresFaithful
<1> QED  BY <1>1, CallsOK, PTL

\* A poll and the webhook of one session agree, for any credentials and failure
\* codes.
THEOREM OneViewOfAResult == Spec => []PollAndWebhookAgree
<1>1. CallOK => PollAndWebhookAgree
  <2> SUFFICES ASSUME CallOK, call.rule = "View"
               PROVE  SameView(call.row, call.payload)
    BY DEF PollAndWebhookAgree
  <2> PICK r \in Rows : \E p \in PayloadsOf(r) :
               call = [rule |-> "View", row |-> r, payload |-> p]
    BY DEF CallOK, NoCall
  <2>1. PICK p \in PayloadsOf(r) : call = [rule |-> "View", row |-> r, payload |-> p]
    OBVIOUS
  <2>2. Reports \in SUBSET ({None, Malformed} \cup RawReports)
    <3> DEFINE Checks == [check : CheckNames, outcome : Outcomes]
    <3>1. {<<>>} \cup {<<c>> : c \in Checks} \in SUBSET Seq(Checks)
      BY ShortAreSeqs
    <3> QED  BY <3>1 DEF Reports, RawReports
  <2>3. r \in AnyRow /\ r.status \in {"verified", "failed"} /\ r.report \in Reports
    BY <2>2 DEF Rows, AnyRow
  <2>4. {<<>>} \cup UNION {[1..n -> Credentials] : n \in 1..2} \in SUBSET Seq(Credentials)
    <3>1. \A n \in 1..2 : n \in Nat
      OBVIOUS
    <3>2. ASSUME NEW n \in Nat, NEW f \in [1..n -> Credentials]
          PROVE  f \in Seq(Credentials)
      OBVIOUS
    <3>3. <<>> \in Seq(Credentials)
      OBVIOUS
    <3>4. ASSUME NEW f \in UNION {[1..n -> Credentials] : n \in 1..2}
          PROVE  f \in Seq(Credentials)
      <4>1. PICK n \in 1..2 : f \in [1..n -> Credentials]
        BY <3>4
      <4> QED  BY <3>1, <3>2, <4>1
    <3> QED  BY <3>3, <3>4
  <2>5. p # Malformed => p.outcome = r.status /\ p.report = r.report
    BY <2>1 DEF PayloadsOf
  <2>6. p \in {Malformed} \cup RawPayloads
    BY <2>1, <2>2, <2>3, <2>4 DEF PayloadsOf, RawPayloads
  <2>7. SameView(r, p)
    BY <2>3, <2>5, <2>6, ViewsAgree
  <2> QED  BY <2>1, <2>7
<1> QED  BY <1>1, CallsOK, PTL

\* The scope check is exact, for any names and credential types.
THEOREM ScopeIsTheRegistered == Spec => []ScopeMatchesRegistry
<1>1. CallOK => ScopeMatchesRegistry
  <2> SUFFICES ASSUME CallOK, call.rule = "Scope"
               PROVE  ScopeExact(call.query, call.uses, call.id)
    BY DEF ScopeMatchesRegistry
  <2>1. PICK a \in Claims, b \in Claims, c \in Registered(2), d \in Registered(1),
             i \in UseIds :
          call = [rule |-> "Scope", query |-> {a, b}, id |-> i,
                  uses |-> <<[id |-> "u1", credentials |-> {c}],
                             [id |-> "u2", credentials |-> {d}]>>]
    BY DEF CallOK, NoCall
  <2> DEFINE uses == <<[id |-> "u1", credentials |-> {c}],
                       [id |-> "u2", credentials |-> {d}]>>
             Uses == [id : {"u1", "u2"}, credentials : SUBSET AnyCredential]
  <2>2. {a, b} \in SUBSET [type : Types, path : Seq(PathElements)]
    <3>1. Claims \in SUBSET [type : Types, path : {<<e>> : e \in PathElements}]
      BY DEF Claims, PathElements
    <3>2. {<<e>> : e \in PathElements} \in SUBSET Seq(PathElements)
      BY ShortAreSeqs
    <3> QED  BY <3>1, <3>2
  <2>3. c \in AnyCredential /\ d \in AnyCredential
    BY RegisteredAreCredentials
  <2>4. uses \in Seq(Uses)
    BY <2>3
  <2>5. \A j, k \in 1..Len(uses) : uses[j].id = uses[k].id => j = k
    OBVIOUS
  <2> HIDE DEF uses
  <2>6. ScopeExact({a, b}, uses, i)
    BY <2>2, <2>4, <2>5, ScopeIsExact
  <2> QED  BY <2>1, <2>6 DEF uses
<1> QED  BY <1>1, CallsOK, PTL

\* Parse accepts the displayed keys and no other, for any lengths and alphabets
\* whose prefixes have no separator.
THEOREM ParserInverts == Spec => []ParseInvertsMint
<1>1. CallOK => ParseInvertsMint
  <2> SUFFICES ASSUME CallOK, call.rule = "Parse"
               PROVE  Inverts(call.key)
    BY DEF ParseInvertsMint
  <2>1. PICK s \in Strings(Characters) : call = [rule |-> "Parse", key |-> s]
    BY DEF CallOK, NoCall
  <2> QED  BY <2>1, StringsAreSeqs, ParseInverts
<1> QED  BY <1>1, CallsOK, PTL

\* The same of prefixes of any length.
THEOREM PrefixesNormal == Spec => []PrefixNormal
<1>1. CallOK => PrefixNormal
  <2> SUFFICES ASSUME CallOK, call.rule = "New"
               PROVE  Normal(call.prefix)
    BY DEF PrefixNormal
  <2>1. PICK p \in Strings(PrefixCharacters) :
               call = [rule |-> "New", prefix |-> p]
    BY DEF CallOK, NoCall
  <2> DEFINE A == PrefixCharacters
  <2>2. p \in Seq(A) /\ Colon \in A /\ Blank \in A
    BY StringsAreSeqs DEF PrefixCharacters
  <2> HIDE DEF A
  <2> QED  BY <2>1, <2>2, PrefixIsNormal
<1> QED  BY <1>1, CallsOK, PTL
=============================================================================
