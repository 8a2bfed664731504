---------------------------- MODULE MCCatalogPlan ----------------------------
(* Two cities, in half hours; a week of two days.  Two stops fill a day.    *)
EXTENDS CatalogPlan

MCOffset == [r \in Regions |-> 14]
MCSpot == [p \in Places |-> CASE p = "old_town" -> 0 [] p = "river" -> 2 [] p = "hills" -> 7]
MCWalk == [pq \in Places \X Places |-> LET x == MCSpot[pq[1]] - MCSpot[pq[2]] IN 1 + IF x < 0 THEN -x ELSE x]

Row(r, p, dwell, food) == [region |-> r, place |-> p, dwell |-> dwell, food |-> food, hours |-> NoHours]
MCCatalog == [v \in Venues |->
    CASE v \in {"temple", "temple_closed"} -> Row("LPQ", "old_town", 4, FALSE)
      [] v = "market" -> Row("LPQ", "river", 3, FALSE)
      [] v = "falls"  -> Row("LPQ", "hills", 12, FALSE)
      [] v = "cafe"   -> Row("LPQ", "old_town", 3, TRUE)
      [] v = "noodle" -> Row("LPQ", "river", 2, TRUE)
      [] v \in {"bar", "bar_closed"} -> Row("LPQ", "river", 4, TRUE)
      [] v = "clinic" -> Row("LPQ", "river", 4, FALSE)
      [] v = "stupa"  -> Row("VTE", "old_town", 4, FALSE)
      [] v = "grill"  -> Row("VTE", "river", 3, TRUE)]

Daily(o, c) == [d \in 0 .. 1 |-> {[open |-> o, close |-> c]}]
MCHoursOn == [v \in Venues |->
    CASE v = "temple" -> Daily(16, 34)
      [] v = "temple_closed" -> [d \in 0 .. 1 |-> IF d = 1 THEN {} ELSE {[open |-> 16, close |-> 34]}]
      [] v = "market" -> [d \in 0 .. 1 |-> {[open |-> 18, close |-> 22], [open |-> 30, close |-> 40]}]
      [] v = "bar_closed" -> [d \in 0 .. 1 |-> {}]
      [] v = "cafe"   -> Daily(14, 28)
      [] v = "bar"    -> Daily(34, 2)
      [] v = "stupa"  -> Daily(16, 24)
      [] v = "grill"  -> [d \in 0 .. 1 |-> IF d = 1 THEN {[open |-> 34, close |-> 44]}
                                                    ELSE {[open |-> 22, close |-> 27]}]
      [] OTHER -> [d \in 0 .. 1 |-> NoHours]]

MCVenueId == [v \in Venues |->
    CASE v \in {"temple", "temple_closed"} -> 1 [] v = "market" -> 2 [] v = "falls" -> 3 [] v = "cafe" -> 4
      [] v = "noodle" -> 5 [] v \in {"bar", "bar_closed"} -> 6 [] v = "clinic" -> 7 [] v = "stupa" -> 8 [] v = "grill" -> 9]
MCName == [v \in Venues |-> 10 - MCVenueId[v]]
MCBucket == [v \in Venues |-> CASE v \in {"temple", "temple_closed", "stupa"} -> 0
                                [] v \in {"cafe", "noodle", "bar", "bar_closed", "grill"} -> 1
                                [] OTHER -> 2]
\* No interests, or food: which the bar matches by category and by tag.
MCTags == [v \in Venues |->
    CASE v \in {"bar", "bar_closed"} -> {<<"food", "restaurant">>, <<"food", "street">>, <<"nature", "river">>}
      [] v = "cafe" -> {<<"food", "restaurant">>}
      [] OTHER -> {}]
MCProfiles == {{}, {<<"food", "restaurant">>, <<"food", "cafe">>, <<"food", "street">>}}

LPQ == {"temple", "market", "falls", "cafe", "noodle", "bar", "clinic"}
\* The whole catalog; one whose temple and bar have other hours, without the
\* falls; and one with the second's venues but not VTE's.
MCCatalogs == {LPQ \cup {"stupa", "grill"},
               (LPQ \ {"temple", "bar", "falls"}) \cup {"temple_closed", "bar_closed", "stupa", "grill"},
               LPQ \ {"falls"}}

MCPreferred == <<"LPQ", "VTE">>
MCCorridors == {<<"VTE", "LPQ">>}
Leg(r, a, b) == [region |-> r, first |-> a, last |-> b]
MCItineraries == {<<Leg("VTE", 0, 0), Leg("LPQ", 1, 2)>>, <<Leg("VTE", 1, 1), Leg("LPQ", 1, 1)>>,
                  <<Leg("VTE", 0, 0), Leg("LPQ", 4, 8)>>}
MCRanges == {<<0, 1>>, <<1, 1>>, <<0, 4>>, <<2, 1>>, <<0, 7>>}
MCMoments == {0, 63}

\* The plans of every catalog; TLC evaluates each table once, here.
ASSUME PlansAreVisits ==
    /\ PoolIn \in [Catalogs -> [Regions -> SUBSET Venues]]
    /\ MaxDays \in [Catalogs -> [Regions -> 0 .. Ceiling]]
    /\ Fingerprint \in [Catalogs -> [Regions -> Catalogs]]
    /\ DayPlan \in [Catalogs -> [Regions -> [{p[1] : p \in Ranges} -> Seq(Visit)]]]
    /\ RangePlan \in [Catalogs -> [Regions -> [Ranges -> [Profiles -> Seq(Visit)]]]]
    /\ CorridorPlan \in [Catalogs -> [Itineraries -> Seq(Visit)]]
=============================================================================
