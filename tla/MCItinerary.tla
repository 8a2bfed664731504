----------------------------- MODULE MCItinerary -----------------------------
(* A two-day trip from Vientiane to Luang Prabang, in half hours.           *)
EXTENDS Itinerary

MCOffset == [r \in Regions |-> 14]
MCWalk == [pq \in Places \X Places |-> IF pq[1] = pq[2] THEN 1 ELSE 2]
Opens(o, c) == {[open |-> o, close |-> c]}

MCCatalog == [v \in Venues |->
    CASE v = "temple"  -> [region |-> "VTE", place |-> "old_town", dwell |-> 4, food |-> FALSE, hours |-> Opens(16, 34)]
      [] v = "gallery" -> [region |-> "VTE", place |-> "river", dwell |-> 5, food |-> FALSE, hours |-> Opens(30, 44)]
      [] v = "bar"     -> [region |-> "VTE", place |-> "river", dwell |-> 6, food |-> TRUE, hours |-> Opens(34, 2)]
      [] v = "falls"   -> [region |-> "LPQ", place |-> "old_town", dwell |-> 6, food |-> FALSE, hours |-> NoHours]]

MCCity == [d \in 0 .. 1 |-> IF d = 0 THEN "VTE" ELSE "LPQ"]

Stop(i, start, v, slot) ==
    [id |-> i, kind |-> "activity", skipped |-> FALSE, start |-> start, dur |-> MCCatalog[v].dwell,
     region |-> MCCatalog[v].region, place |-> MCCatalog[v].place, venue |-> v, slot |-> slot]

\* One stop on the first day; two on it and one on the second.
MCCreated == {<<Stop(1, 4, "temple", "morning_tour")>>,
              <<Stop(1, 4, "temple", "morning_tour"), Stop(2, 20, "bar", "dinner"),
                Stop(3, 52, "falls", "morning_tour")>>}

MCBookings ==
    {[kind |-> "train", wall |-> 29, dur |-> 4, region |-> "none", place |-> "river"],
     [kind |-> "flight", wall |-> 48, dur |-> 4, region |-> "VTE", place |-> NoPlace],
     [kind |-> "hotel", wall |-> 28, dur |-> 44, region |-> "VTE", place |-> "old_town"]}

MCEdits == {{"wall"}, {"kind", "place"}, {"name", "dur"}, {"region"}}
=============================================================================
