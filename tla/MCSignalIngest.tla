--------------------------- MODULE MCSignalIngest ---------------------------
(* A trip of two or three stops; visits of two of them are the signals that  *)
(* count, and a skip far from its place is refused unless it cannot be measured.  *)
EXTENDS SignalIngest, TLC

Instances == Permutations(Workers)

Signal(t, r, p, g) == [type |-> t, trip |-> r, place |-> p, sound |-> TRUE, gps |-> g]

MCInputs ==
    {Signal("visited_confirmed", "mine", "temple", "near"),
     Signal("visited_confirmed", "mine", "market", "none"),
     Signal("node_skipped", "mine", "market", "far")}

Stop(i, p, t) == [id |-> i, place |-> p, at |-> t]

\* As created; and after two edits: the second stop swapped for another, the
\* market put in again between the two, at the end of the list.
MCFirstPlan == <<Stop(1, "temple", 1), Stop(2, "market", 3)>>
MCEdited == <<Stop(1, "temple", 1), Stop(2, "museum", 3), Stop(3, "market", 2)>>
MCPlans == {MCFirstPlan, MCEdited}
=============================================================================
