---------------------------- MODULE MCAnswerPath ----------------------------
(* Small instances of AnswerPath.                                          *)
EXTENDS AnswerPath, TLC

CONSTANTS u1, u2, w1, w2, v1, v2, b1, b2, q1, q2

\* Two catalogued stops, and with MCStrays two private ones that share a key:
\* their names find different rows.
MCStrays == {b1, b2}
MCRowNamed == (v1 :> v1) @@ (v2 :> v2) @@ (b1 :> v1) @@ (b2 :> v2)
MCRowsNamed == (v1 :> v1) @@ (v2 :> v2)
MCIntentOf == (q1 :> "fact") @@ (q2 :> "change")
MCChainLength == [t \in Tiers |-> IF t = "heavy" THEN 2 ELSE 1]

Interchangeable == Permutations({u1, u2}) \cup Permutations({w1, w2})
=============================================================================
