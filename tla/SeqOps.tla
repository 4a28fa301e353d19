------------------------------- MODULE SeqOps -------------------------------
(***************************************************************************)
(* Operators on sequences, which have the names and the meaning they have  *)
(* in SequencesExt.  That module is not extended here because it extends   *)
(* Bags: with Bags in its context, every step of a proof takes the prover  *)
(* ten times as long.                                                      *)
(***************************************************************************)
EXTENDS Integers, Sequences, FiniteSetsExt

ToSet(s) == {s[i] : i \in DOMAIN s}

Last(s) == s[Len(s)]

BoundedSeq(S, n) == UNION {[1 .. m -> S] : m \in 0 .. n}

Contains(s, e) == \E i \in 1 .. Len(s) : s[i] = e

(* The first index from which on, up to to, is an element that passes the  *)
(* test, or 0.                                                             *)
SelectInSubSeq(s, from, to, Test(_)) ==
  LET found == {i \in from .. to : Test(s[i])}
  IN  IF found # {} THEN Min(found) ELSE 0

SelectInSeq(s, Test(_)) == SelectInSubSeq(s, 1, Len(s), Test)

RemoveAt(s, i) == SubSeq(s, 1, i - 1) \o SubSeq(s, i + 1, Len(s))

RemoveFirst(s, e) ==
  IF Contains(s, e) THEN RemoveAt(s, SelectInSeq(s, LAMBDA x : x = e)) ELSE s
=============================================================================
