----------------------------- MODULE CatalogPlan -----------------------------
(***************************************************************************)
(* How POST /trip/create plans a trip from the catalog (one day, a range   *)
(* of days with starter days spread over it, a corridor of cities), and    *)
(* what GET /trips advertises of it beside the stop it features.           *)
(*                                                                         *)
(* Each request is one handler without an await, so requests do not        *)
(* interleave; the catalog, the clock and the trips change between them.   *)
(* The commit of the planned trip is TripCommand's, what becomes of its    *)
(* stops Itinerary's.  Days are numbered from a Monday, Week to a week; a  *)
(* coordinate is its position on a line.                                   *)
(***************************************************************************)
EXTENDS TripRules, SequencesExt

CONSTANTS
    Week,          \* days of a week
    HoursOn,       \* opening hours of each row on each weekday, or NoHours
    Unseedable,    \* rows without coordinates, name or id, and infrastructure
    WholeDay,      \* excursions that take morning, lunch and afternoon
    VenueId, Name, \* the venue each row describes; its place in the order of names
    Bucket,        \* category bucket of each row
    Tags,          \* what each row scores by: its category and tags, each with an
                   \* interest that looks for it
    Spot,          \* position of each place
    Profiles,      \* what the interests a traveller may choose look for, as in Tags
    Catalogs,      \* the sets of rows there may be (bound)
    Preferred,     \* the regions in the order they are advertised
    Corridors,     \* the sequences of regions one trip may follow
    PerDay,        \* VENUES_PER_DAY and CORRIDOR_STOPS_PER_DAY
    MinStops, TargetStops,  \* of a one-day trip
    MaxStarters,   \* MAX_AUTO_POPULATED_DAYS
    Ceiling,       \* MAX_DAYS_CEILING
    MaxSpan,       \* TRIP_SPAN_SANITY_DAYS
    CacheSize,     \* _CAPACITY_CACHE_MAX_SIZE
    Ranges,        \* <<first, last>> days a client may ask for
    Itineraries,   \* sequences of segments a client may ask for
    Moments,       \* instants at which a client calls (bound)
    NotLoaded,     \* no answer of GET /trips yet, or no featured stop in it
    MaxTrips, MaxChanges, MaxSkips  \* bounds

Segment == [region : Regions, first : Nat, last : Nat]

ASSUME PlanAssumption ==
    /\ Week \in Nat \ {0} /\ {MaxTrips, MaxChanges, MaxSkips} \subseteq Nat
    /\ IsFiniteSet(Venues) /\ Profiles # {} /\ \A f \in Profiles : IsFiniteSet(f)
    /\ HoursOn \in [Venues -> [0 .. Week - 1 -> (SUBSET Window) \cup {NoHours}]]
    /\ Unseedable \subseteq Venues /\ WholeDay \subseteq Venues
    /\ {VenueId, Name, Bucket} \subseteq [Venues -> Nat] /\ Spot \in [Places -> Nat]
    /\ \A C \in Catalogs : C \subseteq Venues /\ \A u, v \in C : VenueId[u] = VenueId[v] => u = v
    /\ {PerDay, MinStops, TargetStops, MaxStarters, Ceiling, MaxSpan, CacheSize} \subseteq Nat \ {0}
    /\ Ceiling <= MaxStarters
    /\ Preferred \in Seq(Regions) /\ Corridors \subseteq Seq(Regions)
    /\ \A c \in Corridors : c # <<>> /\ \A i, j \in DOMAIN c : c[i] = c[j] => i = j
    /\ Itineraries \subseteq Seq(Segment) \ {<<>>} /\ Ranges \subseteq Nat \X Nat
    /\ Moments # {} /\ Moments \subseteq Nat

VARIABLES
    rows,      \* the catalog
    now,       \* the clock
    trips,     \* the trips created
    home,      \* the last answer of GET /trips
    capacity,  \* the capacity cache, oldest entry first
    changes    \* changes of the catalog so far

vars == <<rows, now, trips, home, capacity, changes>>

Visit == [venue : Venues, region : Regions, day : Nat, slot : Slots, start : Int, skipped : BOOLEAN]
VisitEnd(v) == v.start + Catalog[v.venue].dwell

\* A trip remembers the catalog it was planned from, for the properties.
Trip == [legs : Seq(Segment), kind : {"day", "range", "corridor"}, visits : Seq(Visit), from : SUBSET Venues]

Home == [days : UNION {[R -> 0 .. Ceiling] : R \in SUBSET Regions}, corridors : SUBSET Corridors,
         featured : 0 .. MaxTrips, stop : Visit \cup {NotLoaded}, from : SUBSET Venues]

TypeOK ==
    /\ rows \in Catalogs /\ now \in Moments
    /\ trips \in Seq(Trip) /\ Len(trips) <= MaxTrips
    /\ home = NotLoaded \/ home \in Home
    /\ Len(capacity) <= CacheSize
    /\ \A i, j \in DOMAIN capacity : capacity[i].region = capacity[j].region
                                     /\ capacity[i].print = capacity[j].print => i = j
    /\ changes \in 0 .. MaxChanges

-----------------------------------------------------------------------------
(* pack_day: the slots of a day in order, each with the row that can start  *)
(* first                                                                    *)

WholeDaySlots == {"morning_tour", "lunch", "afternoon_evening_tour"}

\* How far a row is from the centre of the pool, times the size of the pool; the
\* positions of the pool are added up by counting.
FromCentre(v, pool) ==
    LET total == Cardinality(UNION {{w} \X (1 .. Spot[Catalog[w].place]) : w \in pool})
        x == Cardinality(pool) * Spot[Catalog[v].place] - total
    IN  IF x < 0 THEN -x ELSE x

Lowest(S, key) == {c \in S : \A o \in S : key[c.venue] <= key[o.venue]}

\* The order that breaks ties: _interest_score, one for each thing looked for
\* that the row has (so the fewest missed), nearness to the centre, name, venue.
FirstInOrder(S, pool, f) ==
    LET missed == [v \in Venues |-> Cardinality(f \ Tags[v])]
        off == [v \in Venues |-> FromCentre(v, pool)]
    IN  Lowest(Lowest(Lowest(Lowest(S, missed), off), Name), VenueId)

FitsSlot(v, s, open) ==
    IF v \in WholeDay THEN s = "morning_tour" /\ WholeDaySlots \subseteq open
                      ELSE s \in SlotOf(Catalog[v].food)

\* Mutant: without the walk.
ArrivalAtOnce(visits, v, d, r) ==
    IF visits = <<>> THEN Instant(d, 9 * Hour, r) ELSE VisitEnd(Last(visits))

\* Where the traveller can be at v: at nine, or after the walk from the last stop.
Arrival(visits, v, d, r) ==
    IF visits = <<>> THEN Instant(d, 9 * Hour, r)
    ELSE VisitEnd(Last(visits)) + Walk[<<Catalog[Last(visits).venue].place, Catalog[v].place>>]

\* The start of v in slot s of day d, if it has one (a set).
StartIn(v, s, visits, d, r) ==
    LET cursor == Max({Arrival(visits, v, d, r), Instant(d, SlotFloor[s], r)})
    IN  {t \in Earliest(OpenStarts(HoursOn[v][d % Week], cursor, Catalog[v].dwell, r, d)) :
            SlotAccepts(s, LocalTime(t, r))}

\* Of the rows that can start first, one of a bucket the day does not have yet
\* if there is any, and of those the one ahead in the order.
Choice(starts, visits, pool, f) ==
    LET first == {c \in starts : \A o \in starts : c.start <= o.start}
        fresh == {c \in first : \A i \in DOMAIN visits : Bucket[visits[i].venue] # Bucket[c.venue]}
        rivals == IF fresh # {} THEN fresh ELSE first
    IN  CHOOSE c \in FirstInOrder(rivals, pool, f) : TRUE

Planned(today, c, s, d, r) ==
    [visits |-> Append(today.visits, [venue |-> c.venue, region |-> r, day |-> d, slot |-> s,
                                      start |-> c.start, skipped |-> FALSE]),
     open |-> today.open \ (IF c.venue \in WholeDay THEN WholeDaySlots ELSE {s})]

\* A slot that no row can start in stays empty.
FillFrom(starts, today, s, pool, d, r, f) ==
    IF starts = {} THEN today ELSE Planned(today, Choice(starts, today.visits, pool, f), s, d, r)

IdsOf(visits) == {VenueId[visits[i].venue] : i \in DOMAIN visits}

\* The rows that fit slot s, each with its start.
Starts(today, s, pool, d, r, used) ==
    UNION {{[venue |-> v, start |-> t] : t \in StartIn(v, s, today.visits, d, r)} :
             v \in {v \in pool : VenueId[v] \notin used \cup IdsOf(today.visits) /\ FitsSlot(v, s, today.open)}}

Fill(today, s, pool, target, d, r, used, f) ==
    IF s \notin today.open \/ Len(today.visits) >= target THEN today
    ELSE FillFrom(Starts(today, s, pool, d, r, used), today, s, pool, d, r, f)

PackDay(pool, target, d, r, used, f) ==
    LET then(today, s) == Fill(today, s, pool, target, d, r, used, f)
        morning == then([visits |-> <<>>, open |-> Slots], "morning_tour")
        noon == then(morning, "lunch")
        evening == then(noon, "afternoon_evening_tour")
    IN  then(evening, "dinner").visits

\* A day to pack: the city, its rows, and the stops without which the packing
\* ends.  On a day off nothing is planned.
CityDay(r, pool, least) == [region |-> r, pool |-> pool, least |-> least]
DayOff(r) == CityDay(r, {}, 0)

UsedIn(r, visits) == {VenueId[visits[i].venue] : i \in {i \in DOMAIN visits : visits[i].region = r}}

AppendIfFull(done, today, least) ==
    IF Len(today) >= least THEN [visits |-> done.visits \o today, days |-> done.days + 1] ELSE done

\* Day n, unless an earlier one ended the packing.
PackNext(done, n, first, c, f) ==
    IF done.days # n - 1 THEN done
    ELSE AppendIfFull(done, PackDay(c.pool, PerDay, first + n - 1, c.region, UsedIn(c.region, done.visits), f),
                      c.least)

\* The days from `first` on, packed one after the other, no venue twice in a city.
PackDays(first, days, f) ==
    LET packed[n \in 0 .. Len(days)] ==
            IF n = 0 THEN [visits |-> <<>>, days |-> 0] ELSE PackNext(packed[n - 1], n, first, days[n], f)
    IN  packed[Len(days)]

-----------------------------------------------------------------------------
(* What is advertised *)

\* What is planned and advertised depends on the catalog alone: functions of it,
\* each evaluated once.
PoolIn == [C \in Catalogs |-> [r \in Regions |-> {v \in C : Catalog[v].region = r /\ v \notin Unseedable}]]
Pool(r) == PoolIn[rows][r]

\* select_day_venues takes a name only once.
Ready(C, r) == Cardinality({Name[v] : v \in PoolIn[C][r]}) >= MinStops
Advertised == {Preferred[i] : i \in {i \in DOMAIN Preferred : Ready(rows, Preferred[i])}}
FirstAdvertised ==
    {Preferred[i] : i \in {i \in DOMAIN Preferred :
                            Ready(rows, Preferred[i]) /\ \A j \in 1 .. i - 1 : ~Ready(rows, Preferred[j])}}

\* The days a region can fill whatever the first weekday and the interests.
MaxDays == [C \in Catalogs |-> [r \in Regions |->
    Min({PackDays(first, [i \in 1 .. Ceiling |-> CityDay(r, PoolIn[C][r], PerDay)], f).days :
            first \in 0 .. Week - 1, f \in Profiles})]]

\* What _catalog_fingerprint takes of a row; category and tags also say whether
\* it is food, an excursion or infrastructure.
Facts(v) == <<VenueId[v], Name[v], Catalog[v].place, v \in Unseedable, Bucket[v], Catalog[v].food,
              Tags[v], v \in WholeDay, HoursOn[v], Catalog[v].dwell>>

\* Mutant: without the hours.
FieldsOfPlaces(C, r) ==
    {<<VenueId[v], Name[v], Catalog[v].place, Bucket[v], Tags[v], Catalog[v].dwell>> :
        v \in {v \in C : Catalog[v].region = r}}

\* Every field of the region's rows the planner reads.
Fields(C, r) == {Facts(v) : v \in {v \in C : Catalog[v].region = r}}

\* _catalog_fingerprint, a digest: catalogs with the same fields have the same.
Fingerprint ==
    [C \in Catalogs |-> [r \in Regions |-> CHOOSE D \in Catalogs : Fields(D, r) = Fields(C, r)]]

Cached(cache, r) == {i \in DOMAIN cache : cache[i].region = r /\ cache[i].print = Fingerprint[rows][r]}

\* Mutant: nothing is evicted.
RememberAll(cache, r) ==
    IF Cardinality(Pool(r)) < PerDay \/ Cached(cache, r) # {} THEN cache
    ELSE Append(cache, [region |-> r, print |-> Fingerprint[rows][r], days |-> MaxDays[rows][r]])

Remember(cache, r) ==
    IF Cardinality(Pool(r)) < PerDay \/ Cached(cache, r) # {} THEN cache
    ELSE Append(IF Len(cache) >= CacheSize THEN Tail(cache) ELSE cache,
                [region |-> r, print |-> Fingerprint[rows][r], days |-> MaxDays[rows][r]])

\* The days advertised for a region: none if not even one is sure.
DaysFor(cache, r) ==
    IF Cardinality(Pool(r)) < PerDay THEN 0
    ELSE IF Cached(cache, r) = {} THEN MaxDays[rows][r] ELSE cache[CHOOSE i \in Cached(cache, r) : TRUE].days

\* A region at a time, the cache carried along: an entry may be evicted by the
\* next region of the same answer, so each takes its number as it goes.
AddRegion(acc, r) ==
    IF ~Ready(rows, r) THEN acc
    ELSE [cache |-> Remember(acc.cache, r),
          days |-> [x \in DOMAIN acc.days \cup {r} |-> IF x = r THEN DaysFor(acc.cache, r) ELSE acc.days[x]]]

Capacities ==
    LET listed[n \in 0 .. Len(Preferred)] ==
            IF n = 0 THEN [cache |-> capacity, days |-> [x \in {} |-> 0]]
                     ELSE AddRegion(listed[n - 1], Preferred[n])
    IN  listed[Len(Preferred)]

AdvertisedCorridors == {c \in Corridors : \A i \in DOMAIN c : Pool(c[i]) # {}}

\* _featured_trip: of the trips with a stop still to finish, the one under way
\* that started last, or else the one that starts first.  (A set: of equal
\* starts the list's order by updated_at decides.)
StopsLeft(t) == {i \in DOMAIN t.visits : ~t.visits[i].skipped /\ VisitEnd(t.visits[i]) > now}
StartsAt(t) == Min({t.visits[i].start : i \in DOMAIN t.visits})
\* Mutant: a trip ends when its last stop begins.
EndsAtLast(t) == Max({t.visits[i].start : i \in DOMAIN t.visits})

EndsAt(t) == Max({VisitEnd(t.visits[i]) : i \in DOMAIN t.visits})

Featured ==
    LET left == {i \in DOMAIN trips : StopsLeft(trips[i]) # {}}
        active == {i \in left : StartsAt(trips[i]) <= now /\ now < EndsAt(trips[i])}
        upcoming == {i \in left : StartsAt(trips[i]) > now}
    IN  IF active # {} THEN {i \in active : \A j \in active : StartsAt(trips[j]) <= StartsAt(trips[i])}
        ELSE {i \in upcoming : \A j \in upcoming : StartsAt(trips[i]) <= StartsAt(trips[j])}

FeaturedStop(t) ==
    t.visits[CHOOSE i \in StopsLeft(t) : \A j \in StopsLeft(t) : t.visits[i].start <= t.visits[j].start]

\* GET /trips
ListTrips ==
    /\ home' \in {[days |-> Capacities.days, corridors |-> AdvertisedCorridors, featured |-> i,
                   stop |-> IF i = 0 THEN NotLoaded ELSE FeaturedStop(trips[i]), from |-> rows] :
                  i \in IF Featured = {} THEN {0} ELSE Featured}
    /\ capacity' = Capacities.cache
    /\ UNCHANGED <<rows, now, trips, changes>>

-----------------------------------------------------------------------------
(* POST /trip/create.  What it refuses (422) changes nothing.               *)

Create(kind, legs, visits) ==
    /\ Len(trips) < MaxTrips
    /\ trips' = Append(trips, [legs |-> legs, kind |-> kind, visits |-> visits, from |-> rows])
    /\ UNCHANGED <<rows, now, home, capacity, changes>>

\* The region asked for, or the first that is ready, if it is one of those.
Chosen(r) == IF r = "any" THEN FirstAdvertised ELSE {r} \cap Advertised

DayPlan == [C \in Catalogs |-> [r \in Regions |-> [d \in {p[1] : p \in Ranges} |->
    PackDay(PoolIn[C][r], TargetStops, d, r, {}, {})]]]

CreateDay(r, d) ==
    \E region \in Chosen(r) :
        /\ Cardinality(Pool(region)) >= MinStops
        /\ Len(DayPlan[rows][region][d]) >= MinStops
        /\ Create("day", <<[region |-> region, first |-> d, last |-> d]>>, DayPlan[rows][region][d])

\* Half to even, like round().
Rounded(a, b) == LET q == a \div b
                     twice == 2 * (a % b)
                 IN  IF twice < b \/ (twice = b /\ q % 2 = 0) THEN q ELSE q + 1

\* The offsets of the starter days among n: the first, the last, and the rest
\* spread between them.
StarterDays(n, feasible) ==
    LET k == Min({MaxStarters, n, feasible})
    IN  IF k = 1 THEN {0} ELSE {Rounded(i * (n - 1), k - 1) : i \in 0 .. k - 1}

RangePlan == [C \in Catalogs |-> [r \in Regions |-> [p \in Ranges |-> [f \in Profiles |->
    LET n == p[2] - p[1] + 1
        full == CityDay(r, PoolIn[C][r], PerDay)
        probed == PackDays(p[1], [i \in 1 .. Min({MaxStarters, n}) |-> full], f).days
        starters == StarterDays(n, probed)
    IN  PackDays(p[1], [i \in 1 .. n |-> IF i - 1 \in starters THEN full ELSE DayOff(r)], f).visits]]]]

CreateRange(r, first, last, f) ==
    \E region \in Chosen(r) :
        /\ first <= last /\ last - first + 1 <= MaxSpan
        /\ first >= LocalDay(now, region)
        /\ Create("range", <<[region |-> region, first |-> first, last |-> last]>>,
                  RangePlan[rows][region][<<first, last>>][f])

ValidSegments(legs) ==
    /\ [i \in DOMAIN legs |-> legs[i].region] \in Corridors
    /\ \A i \in DOMAIN legs : legs[i].first <= legs[i].last
    /\ \A i \in DOMAIN legs : i > 1 => legs[i - 1].last < legs[i].first
    /\ legs[Len(legs)].last - legs[1].first + 1 <= MaxSpan

\* The segments one after the other, each day in the city it belongs to.  A venue
\* is used once in its city.
CorridorPlan == [C \in Catalogs |-> [legs \in Itineraries |->
    LET first == legs[1].first
        legOn(d) == {k \in DOMAIN legs : d \in legs[k].first .. legs[k].last}
        cityOn(d) == IF legOn(d) = {} THEN DayOff(legs[1].region)
                     ELSE LET r == legs[CHOOSE k \in legOn(d) : TRUE].region IN CityDay(r, PoolIn[C][r], 0)
    IN  PackDays(first, [i \in 1 .. legs[Len(legs)].last - first + 1 |-> cityOn(first + i - 1)], {}).visits]]

\* The warnings of build_corridor_nodes.
EmptyDays(leg, visits) ==
    {d \in leg.first .. leg.last : Pool(leg.region) # {} /\ \A i \in DOMAIN visits : visits[i].day # d}

CreateCorridor(legs) ==
    /\ ValidSegments(legs)
    /\ \A i \in DOMAIN legs : EmptyDays(legs[i], CorridorPlan[rows][legs]) = {}
    /\ Create("corridor", legs, CorridorPlan[rows][legs])

-----------------------------------------------------------------------------
(* What goes on around them *)

\* The catalog is loaded anew.
ChangeCatalog ==
    /\ changes < MaxChanges /\ changes' = changes + 1
    /\ rows' \in Catalogs \ {rows}
    /\ UNCHANGED <<now, trips, home, capacity>>

\* A stop is cancelled or completed.
Skip(i, j) ==
    /\ ~trips[i].visits[j].skipped
    /\ MapThenSumSet(LAMBDA k : Cardinality({v \in ToSet(trips[k].visits) : v.skipped}), DOMAIN trips) < MaxSkips
    /\ trips' = [trips EXCEPT ![i].visits[j].skipped = TRUE]
    /\ UNCHANGED <<rows, now, home, capacity, changes>>

Wait ==
    /\ now' \in {t \in Moments : t > now}
    /\ UNCHANGED <<rows, trips, home, capacity, changes>>

Init ==
    /\ rows \in Catalogs
    /\ now = Min(Moments)
    /\ trips = <<>> /\ home = NotLoaded /\ capacity = <<>> /\ changes = 0

Next ==
    \/ ListTrips
    \/ \E r \in Regions \cup {"any"}, p \in Ranges : CreateDay(r, p[1])
    \/ \E r \in Regions \cup {"any"}, p \in Ranges, f \in Profiles : CreateRange(r, p[1], p[2], f)
    \/ \E legs \in Itineraries : CreateCorridor(legs)
    \/ ChangeCatalog
    \/ \E i \in DOMAIN trips : \E j \in DOMAIN trips[i].visits : Skip(i, j)
    \/ Wait

Spec == Init /\ [][Next]_vars

-----------------------------------------------------------------------------
(* Properties *)

\* A planned stop can be visited as planned: the venue is open on that weekday
\* for the whole stay, which ends that day; it is of the kind its slot takes and
\* starts inside it; the walk from the stop before it fits; the slots of a day
\* are used in order, an excursion leaves only dinner; and no venue comes twice
\* in a city (pack_day and its callers).
OpenThroughout(v) ==
    LET clock == LocalTime(v.start, v.region)
        dwell == Catalog[v.venue].dwell
        hours == HoursOn[v.venue][v.day % Week]
    IN  /\ LocalDay(v.start, v.region) = v.day /\ clock + dwell <= Day
        /\ hours = NoHours \/ \E w \in hours :
                w.open <= clock /\ (w.close > w.open => clock + dwell <= w.close)

SlotKept(v) ==
    /\ SlotAccepts(v.slot, LocalTime(v.start, v.region))
    /\ IF v.venue \in WholeDay THEN v.slot = "morning_tour" ELSE v.slot \in SlotOf(Catalog[v.venue].food)

Reaches(u, v) ==
    u.region = v.region /\ u.day = v.day =>
        /\ SlotFloor[u.slot] < SlotFloor[v.slot]
        /\ VisitEnd(u) + Walk[<<Catalog[u.venue].place, Catalog[v.venue].place>>] <= v.start
        /\ u.venue \in WholeDay => v.slot = "dinner"

PlanHolds ==
    \A t \in DOMAIN trips : LET S == trips[t].visits IN
        /\ \A i \in DOMAIN S : OpenThroughout(S[i]) /\ SlotKept(S[i])
        /\ \A i \in DOMAIN S : i > 1 => Reaches(S[i - 1], S[i])
        /\ \A i, j \in DOMAIN S :
               S[i].region = S[j].region /\ VenueId[S[i].venue] = VenueId[S[j].venue] => i = j

FilledBy(t, d, least) == Cardinality({i \in DOMAIN t.visits : t.visits[i].day = d}) >= least

\* "Advertise only the largest span that succeeds for every weekday and every
\* valid set of interests": a trip over no more days than the home screen
\* advertised has every day full, as long as the catalog is the one the answer
\* was made from, whatever the cache held then (compute_max_days_for_region,
\* range_nodes_from_catalog).
AdvertisedIsKept ==
    home # NotLoaded => \A t \in ToSet(trips) :
        LET leg == t.legs[1]
        IN  /\ t.kind = "range" /\ t.from = home.from /\ leg.region \in DOMAIN home.days
            /\ leg.last - leg.first + 1 <= home.days[leg.region]
            => \A d \in leg.first .. leg.last : FilledBy(t, d, PerDay)

\* The home screen features a trip exactly when a stop of some trip is still to
\* come or under way: a trip between two of its stops, or whose next stops are
\* cancelled, is not lost (_featured_trip).
HomeNeverBlank ==
    [][home' # home =>
        (home'.featured # 0 <=> \E t \in ToSet(trips) : \E v \in ToSet(t.visits) : ~v.skipped /\ VisitEnd(v) > now)]_vars

\* "If any requested day packed zero venues, fail honestly": a corridor trip that
\* was created has a stop on every day (_create_corridor_trip).
CorridorDaysFilled ==
    \A t \in ToSet(trips) : t.kind = "corridor" =>
        \A i \in DOMAIN t.legs : \A d \in t.legs[i].first .. t.legs[i].last : FilledBy(t, d, 1)
=============================================================================
