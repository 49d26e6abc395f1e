----------------------------- MODULE ScopeCheck -----------------------------
(***************************************************************************)
(* internal/scope: whether a query asks for no more than an intended use   *)
(* registers.  The registry gives claim paths as JSON, whose elements are  *)
(* keys, numbers, nulls or something else; go-dcql compares typed paths.   *)
(*                                                                         *)
(* A query is a set of [type, path]: one claim of a credential, of the     *)
(* format and doctype or vct that "type" stands for.  A registered         *)
(* credential is [types, all, claims] with JSON paths; an intended use is  *)
(* [id, credentials], and a client's uses are a sequence of them.          *)
(***************************************************************************)
EXTENDS Integers, Sequences, FiniteSetsExt

\* JSON elements: a number counts halves, so that fractions are told from whole
\* numbers.
JsonKey(k)    == [json |-> "string", value |-> k]
JsonNumber(h) == [json |-> "number", value |-> h]
JsonNull      == [json |-> "null", value |-> 0]
JsonOther     == [json |-> "other", value |-> 0]

\* The typed elements of go-dcql.
Key(k)   == [is |-> "key", value |-> k]
Index(n) == [is |-> "index", value |-> n]
Wildcard == [is |-> "wildcard", value |-> 0]
Refused  == [is |-> "refused", value |-> 0]

\* Mutant: the element is taken for what it prints as.
ToPathElementPrinted(e) ==
    IF e.json \in {"string", "number"} THEN Key(e.value) ELSE Wildcard

\* int(v) cuts a fraction off.
ToPathElement(e) ==
    CASE e.json = "null"   -> Wildcard
      [] e.json = "string" -> Key(e.value)
      [] e.json = "number" /\ e.value >= 0 -> Index(e.value \div 2)
      [] OTHER -> Refused

ToClaimPath(path) == [i \in 1..Len(path) |-> ToPathElement(path[i])]

\* One element that does not convert fails the whole conversion.
Converts(credential) ==
    \A path \in credential.claims :
        \A i \in 1..Len(path) : ToPathElement(path[i]) # Refused

\* registeredCredentials: those of the first use with this id.
CredentialsOf(uses, id) == uses[Min({i \in 1..Len(uses) : uses[i].id = id})].credentials

\* Query.WithinScope (external): every claim is covered by one registered
\* credential of its type.
WithinScope(query, credentials) ==
    \A claim \in query : \E c \in credentials :
        /\ claim.type \in c.types
        /\ c.all \/ claim.path \in {ToClaimPath(path) : path \in c.claims}

\* CheckWithinScope of a query that parses and validates
Accepts(query, uses, id) ==
    /\ \E i \in 1..Len(uses) : uses[i].id = id
    /\ \A c \in CredentialsOf(uses, id) : Converts(c)
    /\ WithinScope(query, CredentialsOf(uses, id))
-----------------------------------------------------------------------------
\* The JSON path a typed path is written as.
WrittenElement(e) ==
    CASE e.is = "key"   -> JsonKey(e.value)
      [] e.is = "index" -> JsonNumber(2 * e.value)
      [] OTHER          -> JsonNull

Written(path) == [i \in 1..Len(path) |-> WrittenElement(path[i])]

\* What a claim path may hold: keys, nulls and whole numbers from 0 on.
Valid(e) ==
    \/ e.json \in {"string", "null"}
    \/ e.json = "number" /\ e.value >= 0

Fraction(e) == e.json = "number" /\ e.value % 2 # 0

Elements(use) ==
    UNION {UNION {{path[i] : i \in 1..Len(path)} : path \in c.claims}
              : c \in use.credentials}

\* Unless a path holds a fraction, the accepted queries are those whose claims
\* are all registered, as written, for the intended use the query names, and no
\* other: whatever other uses cover, and a key "0" is not the index 0.
ScopeExact(query, uses, id) ==
    LET named == {uses[i] : i \in {j \in 1..Len(uses) : uses[j].id = id}}
        Registered(claim, use) ==
            \E c \in use.credentials :
                claim.type \in c.types /\ (c.all \/ Written(claim.path) \in c.claims)
    IN (\A use \in named : \A e \in Elements(use) : ~Fraction(e)) =>
           (Accepts(query, uses, id) <=>
               \E use \in named : /\ \A e \in Elements(use) : Valid(e)
                                  /\ \A claim \in query : Registered(claim, use))
=============================================================================
