----------------------------- MODULE KeyPrefix -----------------------------
(***************************************************************************)
(* internal/keyspace: the configured prefix every Valkey key is put under. *)
(* The service and verifier-core share queue, payloads and codes only if   *)
(* they come to the same prefix.  A string is the sequence of its          *)
(* characters.                                                             *)
(***************************************************************************)
EXTENDS Integers, Sequences, FiniteSetsExt

CONSTANTS Colon, Blank

ASSUME PrefixAssumption == Colon # Blank

\* The positions of s that do not hold c.
Kept(s, c) == {i \in 1..Len(s) : s[i] # c}

TrimRight(s, c) == IF Kept(s, c) = {} THEN <<>> ELSE SubSeq(s, 1, Max(Kept(s, c)))

TrimSpace(s) ==
    IF Kept(s, Blank) = {} THEN <<>>
    ELSE SubSeq(s, Min(Kept(s, Blank)), Max(Kept(s, Blank)))

\* Mutant: the colons are trimmed before the space around them.
NewColonsFirst(p) ==
    LET trimmed == TrimSpace(TrimRight(p, Colon))
    IN IF trimmed = <<>> THEN <<>> ELSE Append(trimmed, Colon)

New(p) ==
    LET trimmed == TrimRight(TrimSpace(p), Colon)
    IN IF trimmed = <<>> THEN <<>> ELSE Append(trimmed, Colon)
-----------------------------------------------------------------------------
\* "Trims whitespace and any trailing ':', then appends exactly one ':'.  Empty
\* stays empty": a normalized prefix is empty or has one closing colon, does not
\* change when it is normalized again, and depends neither on space around what
\* is configured nor on a colon put directly after it.  Space is trimmed once,
\* before the colons: a space between a prefix and its colon is kept, so "a :"
\* and "a" are two prefixes, "a :" and "a:", and not two spellings of one.
Normal(p) ==
    LET new     == New(p)
        Unended == SubSeq(new, 1, Len(new) - 1)
    IN
    /\ new # <<>> => /\ new[Len(new)] = Colon
                     /\ Len(new) > 1 /\ new[Len(new) - 1] # Colon
    /\ New(new) = new
    /\ New(<<Blank>> \o p \o <<Blank>>) = new
    /\ New(Append(TrimSpace(p), Colon)) = new
    /\ new # <<>> => New(Append(Append(Unended, Blank), Colon)) # new
=============================================================================
