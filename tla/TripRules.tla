------------------------------ MODULE TripRules ------------------------------
(***************************************************************************)
(* The rules of an itinerary that every edit shares: local days and named  *)
(* slots, opening hours, walking, flights and hotels, and when a venue can *)
(* be reached between its neighbours.                                      *)
(*                                                                         *)
(* Time is counted in ticks of UTC; Hour ticks make an hour.  A region's   *)
(* local clock is Offset[r] ticks ahead.  A venue's hours are the same     *)
(* every day.                                                              *)
(***************************************************************************)
EXTENDS Integers, Sequences, FiniteSets

CONSTANTS
    Hour,      \* ticks in an hour
    Regions,   \* geo_region codes
    Offset,    \* local time minus UTC of each region, in ticks
    Places,    \* coordinates
    NoPlace,   \* lat and lng missing
    Walk,      \* walking_minutes between two places, in ticks
    Venues,    \* catalog rows
    Catalog,   \* region, place, typical dwell, opening hours and type of each
    NoVenue, NoHours

Kinds == {"activity", "flight", "train", "hotel"}
Slots == {"morning_tour", "lunch", "afternoon_evening_tour", "dinner"}
Window == [open : Nat, close : Nat]

ASSUME RulesAssumption ==
    /\ Hour \in Nat \ {0} /\ Hour % 2 = 0
    /\ Offset \in [Regions -> Nat]
    /\ Walk \in [Places \X Places -> Nat \ {0}]
    /\ NoPlace \notin Places
    /\ NoVenue \notin Venues
    /\ \A v \in Venues :
        /\ Catalog[v].region \in Regions
        /\ Catalog[v].place \in Places
        /\ Catalog[v].dwell \in Nat \ {0}
        /\ Catalog[v].food \in BOOLEAN
        /\ Catalog[v].hours \in (SUBSET Window) \cup {NoHours}

\* A TripNode.  Everything that is not an activity is a locked booking.
Node == [id : Nat, kind : Kinds, skipped : BOOLEAN, start : Int, dur : Nat,
         region : Regions, place : Places \cup {NoPlace},
         venue : Venues \cup {NoVenue}, slot : Slots \cup {"none"}]

Locked(n) == n.kind # "activity"
Flexible(n) == n.kind = "activity"
Hotel(n) == n.kind = "hotel"
End(n) == n.start + n.dur

-----------------------------------------------------------------------------
(* Local days, slots and opening hours *)

Day == 24 * Hour
LocalDay(t, r) == (t + Offset[r]) \div Day
LocalTime(t, r) == (t + Offset[r]) % Day
Instant(d, clock, r) == d * Day + clock - Offset[r]

DayOf(n) == LocalDay(n.start, n.region)
SameRegionAndDay(m, n) == m.region = n.region /\ DayOf(m) = DayOf(n)

SlotFloor == [s \in Slots |-> CASE s = "morning_tour" -> 9 * Hour
                                [] s = "lunch" -> 11 * Hour
                                [] s = "afternoon_evening_tour" -> 14 * Hour
                                [] s = "dinner" -> 17 * Hour]

SlotAccepts(s, clock) ==
    CASE s = "morning_tour" -> clock < 11 * Hour
      [] s = "lunch" -> clock \in 11 * Hour .. 14 * Hour - 1
      [] s = "afternoon_evening_tour" -> clock >= 14 * Hour
      [] s = "dinner" -> clock >= 17 * Hour

SlotOf(food) == IF food THEN {"lunch", "dinner"} ELSE {"morning_tour", "afternoon_evening_tour"}

HoursOf(v) == IF v = NoVenue THEN NoHours ELSE Catalog[v].hours

\* check_slot on one window: a close at or before its open is tomorrow's, and
\* yesterday's such window reaches into today.
Fits(w, clock, dur) ==
    IF w.open < w.close
    THEN w.open <= clock /\ clock + dur <= w.close
    ELSE \/ w.open <= clock /\ clock + dur <= w.close + Day
         \/ clock + dur <= w.close

Closed(h, t, dur, r) == h # NoHours /\ \A w \in h : ~Fits(w, LocalTime(t, r), dur)

\* The starts next_slot_start weighs on day d, no earlier than the cursor.
OpenStarts(h, cursor, dur, r, d) ==
    LET midnight == Instant(d, 0, r)
        At(t) == IF cursor > t THEN cursor ELSE t
        closing(w) == IF w.open < w.close THEN midnight + w.close ELSE midnight + Day
    IN  {t \in IF h = NoHours THEN {At(midnight)}
               ELSE {At(midnight + w.open) : w \in {w \in h : At(midnight + w.open) + dur <= closing(w)}} :
            t + dur <= midnight + Day}

Earliest(S) == {t \in S : \A u \in S : t <= u}

-----------------------------------------------------------------------------
(* Walking, flights and hotels *)

\* Node i of ns starts before node j, or with it and stands before it.  (Where
\* the code tells equal starts apart by the random node_id, so does this order.)
NoLater(ns, i, j) == ns[i].start < ns[j].start \/ (ns[i].start = ns[j].start /\ i <= j)

\* Among the indices S of ns, the one whose node starts last, or first.  (A set,
\* like whatever else may be missing: empty if S is.)
Latest(ns, S) == {i \in S : \A j \in S : NoLater(ns, j, i)}
Soonest(ns, S) == {i \in S : \A j \in S : NoLater(ns, i, j)}

\* find_constraining_flight: the locked flights after t, today or tomorrow.
FlightsAfter(ns, t, r) ==
    {j \in DOMAIN ns : /\ ns[j].kind = "flight" /\ ns[j].region = r /\ ns[j].start > t
                       /\ DayOf(ns[j]) - LocalDay(t, r) \in {0, 1}}

\* 150 minutes before the flight, or the walk to it when that is longer.
BreaksCutoff(t, dur, p, f) ==
    \/ t + dur > f.start - (5 * Hour) \div 2
    \/ p # NoPlace /\ f.place # NoPlace /\ t + dur + Walk[<<p, f.place>>] > f.start

MissesFlight(ns, t, dur, p, r) ==
    \E j \in Soonest(ns, FlightsAfter(ns, t, r)) : BreaksCutoff(t, dur, p, ns[j])

\* find_covering_hotel: of the hotels whose nights include day d, the last.
CoveringHotel(ns, r, d) ==
    Latest(ns, {j \in DOMAIN ns : /\ Hotel(ns[j]) /\ ns[j].region = r
                                  /\ d \in DayOf(ns[j]) .. LocalDay(End(ns[j]), r) - 1})

ActivitiesOn(ns, r, d) ==
    {j \in DOMAIN ns : ~ns[j].skipped /\ Flexible(ns[j]) /\ ns[j].region = r /\ DayOf(ns[j]) = d}

IsFirstActivity(ns, i) == \A j \in ActivitiesOn(ns, ns[i].region, DayOf(ns[i])) : i <= j
IsLastActivity(ns, i) ==
    LET S == ActivitiesOn(ns, ns[i].region, DayOf(ns[i])) IN i \in S /\ \A j \in S : j <= i

\* hotel_morning_origin: the traveller sets out at check-in on the first day, at
\* 09:00 on later ones.
SetOut(hotel, n) ==
    IF DayOf(hotel) = DayOf(n) THEN hotel.start ELSE Instant(DayOf(n), 9 * Hour, n.region)

\* The hotel that the first activity of a day sets out from.
MorningHotel(ns, i) ==
    {h \in {ns[j] : j \in CoveringHotel(ns, ns[i].region, DayOf(ns[i]))} :
        IsFirstActivity(ns, i) /\ h.place # NoPlace /\ ns[i].start >= SetOut(h, ns[i])}

\* violates_hotel_return: back at the hotel by 21:00.
MissesReturn(t, dur, p, h, r, d) ==
    \/ p = NoPlace \/ h.place = NoPlace
    \/ t + dur + Walk[<<p, h.place>>] > Instant(d, 21 * Hour, r)

\* fits_next_lock, for an activity in region r.
FitsLock(t, dur, p, r, lock) ==
    \/ Hotel(lock) \/ lock.region # r \/ LocalDay(lock.start, r) # LocalDay(t, r)
    \/ lock.kind = "flight" /\ ~BreaksCutoff(t, dur, p, lock)
    \/ /\ lock.kind # "flight" /\ lock.place # NoPlace /\ p # NoPlace
       /\ t + dur + Walk[<<p, lock.place>>] <= lock.start

-----------------------------------------------------------------------------
(* _is_swap_reachable: can venue v take the place of node i? *)

Stops(ns) == {j \in DOMAIN ns : ~ns[j].skipped /\ ~Hotel(ns[j])}

ReachableFromBefore(ns, i, p) ==
    LET n == ns[i]
        before == {j \in Stops(ns) : j < i}
    IN  IF MorningHotel(ns, i) # {}
        THEN \A h \in MorningHotel(ns, i) : SetOut(h, n) + Walk[<<h.place, p>>] <= n.start
        ELSE \A j \in before : (\A k \in before : k <= j) /\ SameRegionAndDay(ns[j], n) =>
                ns[j].place # NoPlace /\ End(ns[j]) + Walk[<<ns[j].place, p>>] <= n.start

\* The next booking on the list, unless a stop of another city or day comes first.
ReachesNextLock(ns, i, p, dur) ==
    LET n == ns[i]
        ahead == {j \in Stops(ns) : j > i /\ (Locked(ns[j]) \/ ~SameRegionAndDay(ns[j], n))}
    IN  \A j \in ahead : (\A k \in ahead : j <= k) /\ SameRegionAndDay(ns[j], n) =>
            ns[j].place # NoPlace /\ n.start + dur + Walk[<<p, ns[j].place>>] <= ns[j].start

ReturnsToHotel(ns, i, p, dur) ==
    LET n == ns[i]
    IN  IsLastActivity(ns, i) =>
            \A j \in CoveringHotel(ns, n.region, DayOf(n)) :
                ~MissesReturn(n.start, dur, p, ns[j], n.region, DayOf(n))

SwapReachable(ns, i, v) ==
    LET p == Catalog[v].place
        dur == Catalog[v].dwell
    IN  /\ ReachableFromBefore(ns, i, p)
        /\ ReachesNextLock(ns, i, p, dur)
        /\ ~MissesFlight(ns, ns[i].start, dur, p, ns[i].region)
        /\ ReturnsToHotel(ns, i, p, dur)

=============================================================================
