---------------------------- MODULE ApiKeyFormat ----------------------------
(***************************************************************************)
(* The display form of an API key, "vk_<prefix>_<secret>", and the parser  *)
(* of presented keys in internal/apikeys.  A string is the sequence of its *)
(* characters; the separator is also a character a secret may contain.     *)
(***************************************************************************)
EXTENDS Integers, Sequences, FiniteSetsExt

CONSTANTS
    Sep,         \* the separator "_"
    KeyScheme,   \* keyScheme, a sequence of characters
    Crockford,   \* the characters of a prefix
    Base64URL,   \* the characters of a secret
    PrefixLen, SecretLen

ASSUME FormatAssumption ==
    /\ Sep \notin Crockford /\ Sep \in Base64URL
    /\ KeyScheme \in Seq(Crockford \cup Base64URL)
    /\ \A i \in 1..Len(KeyScheme) : KeyScheme[i] # Sep
    /\ PrefixLen \in Nat /\ SecretLen \in Nat

Prefixes == [1..PrefixLen -> Crockford]
Secrets  == [1..SecretLen -> Base64URL]

\* The key Mint displays once.
DisplayKey(prefix, secret) == KeyScheme \o <<Sep>> \o prefix \o <<Sep>> \o secret

ErrFormat == [ok |-> FALSE, prefix |-> <<>>, secret |-> <<>>]

Seps(s) == {i \in 1..Len(s) : s[i] = Sep}

\* Mutant: a split at every separator that wants exactly three parts.
SplitAll(s) ==
    IF Cardinality(Seps(s)) # 2 THEN <<>>
    ELSE LET i == Min(Seps(s))
             j == Max(Seps(s))
         IN <<SubSeq(s, 1, i - 1), SubSeq(s, i + 1, j - 1), SubSeq(s, j + 1, Len(s))>>

\* strings.SplitN(s, "_", 3) when it has three parts, else nothing.
Split(s) ==
    IF Cardinality(Seps(s)) < 2 THEN <<>>
    ELSE LET i == Min(Seps(s))
             j == Min(Seps(s) \ {i})
         IN <<SubSeq(s, 1, i - 1), SubSeq(s, i + 1, j - 1), SubSeq(s, j + 1, Len(s))>>

Parse(presented) ==
    LET parts == Split(presented) IN
    IF /\ parts # <<>>
       /\ parts[1] = KeyScheme
       /\ parts[2] \in Prefixes
       /\ parts[3] \in Secrets
    THEN [ok |-> TRUE, prefix |-> parts[2], secret |-> parts[3]]
    ELSE ErrFormat
-----------------------------------------------------------------------------
\* Parse accepts the displayed keys and nothing else, and gives back the prefix
\* and the secret they were displayed from, separators inside the secret
\* included ("a naive split-and-count-parts ... would misparse").
Inverts(s) ==
    /\ Parse(s).ok =>
          /\ Parse(s).prefix \in Prefixes /\ Parse(s).secret \in Secrets
          /\ s = DisplayKey(Parse(s).prefix, Parse(s).secret)
    /\ \A p \in Prefixes, x \in Secrets :
          s = DisplayKey(p, x) => Parse(s) = [ok |-> TRUE, prefix |-> p, secret |-> x]
=============================================================================
