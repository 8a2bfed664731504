------------------------------ MODULE Itinerary ------------------------------
(***************************************************************************)
(* One trip's itinerary under the events of POST /trip/event: the state    *)
(* machine's handlers and the scheduler's forward pass they end in.        *)
(*                                                                         *)
(* An event that reschedules copies the nodes into a draft, edits it and   *)
(* walks over it node by node; a swap or a reroute walks once per          *)
(* candidate and is only accepted without a hard conflict, the other       *)
(* events keep what the pass made of them.  Events of one trip do not      *)
(* overlap: TripCommand shows that the trip's version serialises them.     *)
(***************************************************************************)
EXTENDS TripRules

CONSTANTS
    City,         \* the region of each day of the trip: its segments
    Corridor,     \* whether the trip has segments at all
    Home,         \* the trip's own geo_region
    Created,      \* the itineraries POST /trip/create may have made
    Bookings,     \* what a traveller may enter of a booking (bound)
    Edits,        \* the sets of fields an edit_booking may carry (bound)
    Dwells,       \* dwell times of uncatalogued places (bound)
    Nows,         \* instants at which an Ask-to-Add may come (bound)
    MaxNodes,     \* nodes ever made (bound)
    MaxEvents,    \* events (bound)
    MaxTries      \* max_loop_depth

ASSUME ItineraryAssumption ==
    /\ City \in [0 .. Cardinality(DOMAIN City) - 1 -> Regions] /\ DOMAIN City \subseteq Nat
    /\ Corridor \in BOOLEAN /\ Home \in Regions
    /\ ~Corridor => \A d \in DOMAIN City : City[d] = Home
    /\ \A ns \in Created : /\ ns \in Seq(Node)
                           /\ \A i \in DOMAIN ns : ns[i].id = i /\ ~ns[i].skipped
    /\ \A b \in Bookings : /\ b.kind \in Kinds \ {"activity"} /\ b.wall \in Nat /\ b.dur \in Nat
                           /\ b.region \in Regions \cup {"none"}
                           /\ b.place \in Places \cup {NoPlace}
    /\ Edits \subseteq SUBSET {"name", "kind", "dur", "region", "wall", "place"}
    /\ Dwells \subseteq Nat \ {0} /\ Nows \subseteq Int
    /\ MaxNodes \in Nat /\ MaxEvents \in Nat /\ MaxTries \in Nat \ {0}

VARIABLES
    nodes,   \* trip_state.nodes
    made,    \* node ids given so far
    events,  \* events so far
    job      \* the event whose draft is being rescheduled

vars == <<nodes, made, events, job>>

Passes == {"cancel", "swap", "reroute", "add_booking", "edit_booking", "delete_booking"}

NoJob == [kind |-> "none", target |-> 0, draft |-> <<>>, mutated |-> {}, next |-> 1,
          prev |-> 0, until |-> 0, clash |-> FALSE, venues |-> <<>>, tries |-> 0]

Ids(ns) == {ns[i].id : i \in DOMAIN ns}
Distinct(ns) == \A i, j \in DOMAIN ns : ns[i].id = ns[j].id => i = j

TypeOK ==
    /\ nodes \in Seq(Node) /\ Distinct(nodes) /\ Ids(nodes) \subseteq 1 .. made
    /\ made \in Nat /\ events \in 0 .. MaxEvents
    /\ job.kind \in Passes \cup {"none"} /\ job.target \in Nat
    /\ job.draft \in Seq(Node) /\ Distinct(job.draft) /\ Ids(job.draft) \subseteq 1 .. made
    /\ job.mutated \subseteq Nat
    /\ job.next \in 1 .. Len(job.draft) + 1 /\ job.prev \in 0 .. job.next - 1
    /\ job.until \in Int /\ job.clash \in BOOLEAN
    /\ job.venues \in Seq(Venues) /\ job.tries \in Nat

Init ==
    /\ nodes \in Created
    /\ made = Len(nodes)
    /\ events = 0
    /\ job = NoJob

Idle == job.kind = "none"

-----------------------------------------------------------------------------
(* reschedule_and_validate: the forward pass, one node a step *)

Pass(kind, target, draft, mutated) ==
    [NoJob EXCEPT !.kind = kind, !.target = target, !.draft = draft, !.mutated = mutated]

KnownWalk(p, q) == p # NoPlace /\ q # NoPlace
WalkOrNone(p, q) == IF KnownWalk(p, q) THEN Walk[<<p, q>>] ELSE 0

\* [mutant of PushedTo] takes the bound even where it is earlier.
PulledTo(t, bounds) == IF bounds = {} THEN {t} ELSE {u \in bounds : \A b \in bounds : b <= u}

\* [mutant of StopBound] no bound from a stop whose place is not known.
StopBoundOfKnown(ns, i) ==
    IF job.prev = 0 \/ ~KnownWalk(ns[job.prev].place, ns[i].place) THEN {}
    ELSE {job.until + IF SameRegionAndDay(ns[job.prev], ns[i])
                      THEN WalkOrNone(ns[job.prev].place, ns[i].place) ELSE 0}

\* Not before the previous stop is over and walked away from; the first
\* activity of a day not before the walk from the hotel.
StopBound(ns, i) ==
    IF job.prev = 0 THEN {}
    ELSE {job.until + IF SameRegionAndDay(ns[job.prev], ns[i])
                      THEN WalkOrNone(ns[job.prev].place, ns[i].place) ELSE 0}
HotelBound(ns, i) ==
    IF ns[i].place = NoPlace THEN {}
    ELSE {SetOut(h, ns[i]) + Walk[<<h.place, ns[i].place>>] : h \in MorningHotel(ns, i)}

\* t, or the latest of the bounds if that is later.
PushedTo(t, bounds) == {u \in bounds \cup {t} : \A b \in bounds \cup {t} : b <= u}

\* What makes a placed activity a hard conflict.
LateForHotel(ns, i) ==
    LET n == ns[i]
    IN  IsLastActivity(ns, i) /\ n.place # NoPlace
        /\ \E j \in CoveringHotel(ns, n.region, DayOf(n)) :
              ns[j].place # NoPlace /\ MissesReturn(n.start, n.dur, n.place, ns[j], n.region, DayOf(n))
ClosedThen(ns, i, shifted) ==
    /\ ns[i].id \in job.mutated \/ shifted
    /\ Closed(HoursOf(ns[i].venue), ns[i].start, ns[i].dur, ns[i].region)
\* [mutant of Clashes] flights are only looked at for the nodes the event changed.
ClashesIfMutated(ns, i, shifted) ==
    \/ ns[i].id \in job.mutated /\ MissesFlight(ns, ns[i].start, ns[i].dur, ns[i].place, ns[i].region)
    \/ LateForHotel(ns, i)
    \/ ClosedThen(ns, i, shifted)
Clashes(ns, i, shifted) ==
    \/ MissesFlight(ns, ns[i].start, ns[i].dur, ns[i].place, ns[i].region)
    \/ LateForHotel(ns, i)
    \/ ClosedThen(ns, i, shifted)

\* A hotel holds a place in the calendar, not the traveller.
BusyUntil(n) == IF Hotel(n) THEN n.start ELSE End(n)

Walking == ~Idle /\ job.next <= Len(job.draft)

PassSkipped ==
    /\ Walking /\ job.draft[job.next].skipped
    /\ job' = [job EXCEPT !.next = @ + 1]
    /\ UNCHANGED <<nodes, made, events>>

PassBooking ==
    LET n == job.draft[job.next]
    IN  /\ Walking /\ ~n.skipped /\ Locked(n)
        /\ job' = [job EXCEPT !.next = @ + 1, !.prev = job.next, !.until = BusyUntil(n),
                              !.clash = @ \/ \E b \in StopBound(job.draft, job.next) : b > n.start]
        /\ UNCHANGED <<nodes, made, events>>

PassActivity ==
    /\ Walking
    /\ LET i == job.next
           n == job.draft[i]
       IN  /\ ~n.skipped /\ Flexible(n)
           /\ \E start \in PushedTo(n.start, StopBound(job.draft, i) \cup HotelBound(job.draft, i)) :
                LET draft == [job.draft EXCEPT ![i].start = start]
                IN  job' = [job EXCEPT !.draft = draft, !.next = @ + 1, !.prev = i,
                                       !.until = BusyUntil(draft[i]),
                                       !.clash = @ \/ Clashes(draft, i, start # n.start)]
    /\ UNCHANGED <<nodes, made, events>>

-----------------------------------------------------------------------------
(* How an event ends *)

Judged == job.kind \in {"swap", "reroute"}
Passed == ~Idle /\ job.next > Len(job.draft)

\* The draft becomes the itinerary.
Keep ==
    /\ Passed /\ (Judged => ~job.clash)
    /\ nodes' = job.draft /\ job' = NoJob
    /\ UNCHANGED <<made, events>>

FromVenue(n, v, dur, slot) ==
    [id |-> n.id, kind |-> "activity", skipped |-> FALSE, start |-> n.start, dur |-> dur,
     region |-> Catalog[v].region, place |-> Catalog[v].place, venue |-> v, slot |-> slot]

SwapDraft(target, v) ==
    [i \in DOMAIN nodes |-> IF nodes[i].id = target
                            THEN FromVenue(nodes[i], v, Catalog[v].dwell, nodes[i].slot)
                            ELSE nodes[i]]

\* [mutant of RerouteDraft] takes bookings for activities.
RerouteDraftOfAll(venues) ==
    LET rank(i) == Cardinality({j \in 1 .. i : ~nodes[j].skipped})
    IN  [i \in DOMAIN nodes |-> IF ~nodes[i].skipped /\ rank(i) <= Len(venues)
                                THEN FromVenue(nodes[i], venues[rank(i)], nodes[i].dur, "none")
                                ELSE nodes[i]]

\* [mutant of RerouteDraft] brings cancelled activities back.
RerouteDraftOfSkipped(venues) ==
    LET rank(i) == Cardinality({j \in 1 .. i : Flexible(nodes[j])})
    IN  [i \in DOMAIN nodes |-> IF Flexible(nodes[i]) /\ rank(i) <= Len(venues)
                                THEN FromVenue(nodes[i], venues[rank(i)], nodes[i].dur, "none")
                                ELSE nodes[i]]

\* The pending activities take the venues in order, as far as these go.
RerouteDraft(venues) ==
    LET open(i) == Flexible(nodes[i]) /\ ~nodes[i].skipped
        rank(i) == Cardinality({j \in 1 .. i : open(j)})
    IN  [i \in DOMAIN nodes |-> IF open(i) /\ rank(i) <= Len(venues)
                                THEN FromVenue(nodes[i], venues[rank(i)], nodes[i].dur, "none")
                                ELSE nodes[i]]

Changed(draft) == {draft[i].id : i \in {i \in DOMAIN nodes : draft[i].venue # nodes[i].venue
                                                             \/ draft[i].dur # nodes[i].dur}}

\* One attempt of the circuit breaker's loop.
Attempt(kind, target, venues, tries) ==
    LET draft == IF kind = "swap" THEN SwapDraft(target, Head(venues)) ELSE RerouteDraft(venues)
    IN  [Pass(kind, target, draft, Changed(draft)) EXCEPT !.venues = venues, !.tries = tries]

\* A hard conflict: the next candidate, on a fresh copy.
TryNext ==
    /\ Passed /\ Judged /\ job.clash
    /\ job.tries + 1 < MaxTries /\ Tail(job.venues) # <<>>
    /\ job' = Attempt(job.kind, job.target, Tail(job.venues), job.tries + 1)
    /\ UNCHANGED <<nodes, made, events>>

\* The breaker trips: nothing is changed.
GiveUp ==
    /\ Passed /\ Judged /\ job.clash
    /\ job.tries + 1 >= MaxTries \/ Tail(job.venues) = <<>>
    /\ job' = NoJob
    /\ UNCHANGED <<nodes, made, events>>

-----------------------------------------------------------------------------
(* Events that end in a forward pass *)

Event == Idle /\ events < MaxEvents /\ events' = events + 1
RoomForNode == made < MaxNodes

\* cancel_activity; the target may be gone.  A locked one is refused.
Cancel ==
    /\ Event
    /\ \/ \E i \in DOMAIN nodes :
            /\ Flexible(nodes[i])
            /\ job' = Pass("cancel", nodes[i].id, [nodes EXCEPT ![i].skipped = TRUE], {nodes[i].id})
       \/ job' = Pass("cancel", 0, nodes, {0})
    /\ UNCHANGED <<nodes, made>>

\* The candidates of a search, best first, in an order the model leaves open.
Orderings(S) ==
    UNION {{q \in [1 .. k -> S] : \A a, b \in 1 .. k : q[a] = q[b] => a = b} : k \in 1 .. Cardinality(S)}

SwapEligible(i) ==
    {v \in Venues :
        /\ v # nodes[i].venue /\ Catalog[v].region = nodes[i].region
        /\ nodes[i].slot = "none" \/ nodes[i].slot \in SlotOf(Catalog[v].food)
        /\ ~Closed(Catalog[v].hours, nodes[i].start, Catalog[v].dwell, nodes[i].region)
        /\ SwapReachable(nodes, i, v)}

\* swap_activity with the venue tapped in the sheet, or after a search.  Nothing
\* in it asks whether the target had been cancelled.
Swap ==
    /\ Event
    /\ \E i \in DOMAIN nodes :
        /\ Flexible(nodes[i])
        /\ \E venues \in Orderings(SwapEligible(i)) :
            job' = Attempt("swap", nodes[i].id, venues, 0)
    /\ UNCHANGED <<nodes, made>>

\* reroute: the search has no target, so it looks in the trip's own region.
Reroute ==
    /\ Event
    /\ \E venues \in Orderings({v \in Venues : Catalog[v].region = Home}) :
        job' = Attempt("reroute", 0, venues, 0)
    /\ UNCHANGED <<nodes, made>>

TripRegions == IF Corridor THEN {City[d] : d \in DOMAIN City} ELSE {}

\* _geo_region_for_booking: empty when the booking must be refused.
BookingRegion(region, wall) ==
    CASE ~Corridor -> {IF region = "none" THEN Home ELSE region}
      [] Corridor /\ region # "none" -> {region} \cap TripRegions
      [] OTHER -> {City[d] : d \in {wall \div Day} \cap DOMAIN City}

\* In front of the first node that starts later.
InsertByStart(ns, n) ==
    {[k \in 1 .. Len(ns) + 1 |-> CASE k < at -> ns[k] [] k = at -> n [] k > at -> ns[k - 1]] : at \in
        {at \in 1 .. Len(ns) + 1 : /\ \A i \in 1 .. at - 1 : ns[i].start <= n.start
                                   /\ at <= Len(ns) => ns[at].start > n.start}}

\* [mutant of Without] the edited booking is also left where it was.
WithoutNone(ns, i) == ns

Without(ns, i) == [k \in 1 .. Len(ns) - 1 |-> IF k < i THEN ns[k] ELSE ns[k + 1]]

AddBooking ==
    /\ Event /\ RoomForNode
    /\ \E b \in Bookings : \E r \in BookingRegion(b.region, b.wall) :
        LET n == [id |-> made + 1, kind |-> b.kind, skipped |-> FALSE, start |-> b.wall - Offset[r],
                  dur |-> b.dur, region |-> r, place |-> b.place, venue |-> NoVenue, slot |-> "none"]
        IN  \E draft \in InsertByStart(nodes, n) : job' = Pass("add_booking", n.id, draft, {n.id})
    /\ made' = made + 1
    /\ UNCHANGED nodes

\* The fields F of booking n take their values from b; r is the city in effect.
Patched(n, b, F, r) ==
    LET kind == IF "kind" \in F THEN b.kind ELSE n.kind
        moved == "name" \in F \/ r # n.region
    IN  [n EXCEPT !.kind = kind,
                  !.dur = IF "dur" \in F THEN b.dur ELSE @,
                  !.start = IF "wall" \in F THEN b.wall - Offset[r] ELSE @,
                  !.region = r,
                  !.place = CASE moved -> IF kind = "hotel" THEN b.place ELSE NoPlace
                              [] ~moved /\ "place" \in F -> b.place
                              [] OTHER -> @]

Reschedules(m, n) == m.start # n.start \/ m.dur # n.dur \/ m.region # n.region

\* The city after an edit of booking n: empty when the edit must be refused, an
\* edit to no city included where the trip has several.
EditedRegion(n, b, F) ==
    IF "region" \notin F THEN {n.region}
    ELSE {b.region} \cap (IF Corridor THEN TripRegions ELSE Regions)

\* edit_booking: refused without effect when its city is not on the trip; only
\* a new time, length or city reschedules.
EditBooking ==
    /\ Event
    /\ \E i \in DOMAIN nodes : \E b \in Bookings : \E F \in Edits :
        \E r \in EditedRegion(nodes[i], b, F) :
            LET n == Patched(nodes[i], b, F, r)
            IN  /\ Locked(nodes[i])
                /\ \/ /\ Reschedules(n, nodes[i])
                      /\ \E draft \in InsertByStart(Without(nodes, i), n) :
                            job' = Pass("edit_booking", n.id, draft, {n.id})
                      /\ UNCHANGED nodes
                   \/ /\ ~Reschedules(n, nodes[i])
                      /\ nodes' = [nodes EXCEPT ![i] = n]
                      /\ UNCHANGED job
    /\ UNCHANGED made

DeleteBooking ==
    /\ Event
    /\ \E i \in DOMAIN nodes :
        /\ Locked(nodes[i])
        /\ job' = Pass("delete_booking", nodes[i].id, Without(nodes, i), {})
    /\ UNCHANGED <<nodes, made>>

-----------------------------------------------------------------------------
(* Events that place one node and touch no other *)

\* The stable sort by start: of the orders of the indices, the sorted one.
SortedByStart(ns) ==
    {[k \in DOMAIN ns |-> ns[order[k]]] : order \in
        {f \in [DOMAIN ns -> DOMAIN ns] :
            /\ \A i \in DOMAIN ns : \E k \in DOMAIN ns : \A j \in DOMAIN ns : f[j] = i <=> j = k
            /\ \A j, k \in DOMAIN ns : j < k => NoLater(ns, f[j], f[k])}}

DayStops(r, d) == {j \in Stops(nodes) : nodes[j].region = r /\ DayOf(nodes[j]) = d}
FreeSlot(r, d, s, others) == \A j \in ActivitiesOn(nodes, r, d) \cap others : nodes[j].slot # s

\* The next locked booking that is no hotel, on any day, can be reached.
ReachesLock(t, dur, p, r, others) ==
    LET locks == {j \in others : Locked(nodes[j]) /\ ~Hotel(nodes[j]) /\ nodes[j].start >= t}
    IN  \A j \in Soonest(nodes, locks) : FitsLock(t, dur, p, r, nodes[j])

\* The stop of S that starts last at or before t.
StopAt(S, t) == Latest(nodes, {j \in S : nodes[j].start <= t})

\* The starts that hours h leave after the slot's floor and the walk from prev.
StartsAfter(prev, p, dur, h, r, d, s) ==
    LET cursors == PushedTo(Instant(d, SlotFloor[s], r),
                            {End(nodes[j]) + WalkOrNone(nodes[j].place, p) : j \in prev})
    IN  {t \in UNION {Earliest(OpenStarts(h, c, dur, r, d)) : c \in cursors} :
            SlotAccepts(s, LocalTime(t, r)) /\ ~Closed(h, t, dur, r)}

\* apply_move, rules 8 to 10: the new start of node i, if it has one.
MoveStart(i, d, s) ==
    LET n == nodes[i]
        stops == DayStops(n.region, d) \ {i}
        prev == StopAt(stops, Instant(d, SlotFloor[s], n.region))
    IN  {t \in StartsAfter(prev, n.place, n.dur, HoursOf(n.venue), n.region, d, s) :
            /\ \A j \in Soonest(nodes, {j \in stops \ prev : nodes[j].start >= t}) :
                  Flexible(nodes[j]) => t + n.dur + WalkOrNone(n.place, nodes[j].place) <= nodes[j].start
            /\ ReachesLock(t, n.dur, n.place, n.region, DOMAIN nodes \ {i})}

\* The slots an activity may be moved to: by its venue's type, or else by the
\* slot it is in; one that has neither cannot be moved.
SlotsFor(n) ==
    IF n.venue # NoVenue THEN SlotOf(Catalog[n.venue].food)
    ELSE {s \in Slots : n.slot # "none" /\ \E food \in BOOLEAN : {s, n.slot} \subseteq SlotOf(food)}

\* A trip of several cities only moves to a day its city has a node on.
SameCityDay(n, d) ==
    Cardinality(TripRegions \cup {nodes[j].region : j \in DOMAIN nodes}) > 1 =>
        \E j \in DOMAIN nodes : nodes[j].region = n.region /\ DayOf(nodes[j]) = d

Move ==
    /\ Event
    /\ \E i \in DOMAIN nodes : \E d \in DOMAIN City : \E s \in SlotsFor(nodes[i]) :
        /\ Flexible(nodes[i]) /\ ~nodes[i].skipped
        /\ SameCityDay(nodes[i], d)
        /\ ~(DayOf(nodes[i]) = d /\ nodes[i].slot = s)
        /\ FreeSlot(nodes[i].region, d, s, DOMAIN nodes \ {i})
        /\ \E t \in MoveStart(i, d, s) :
            nodes' \in SortedByStart([nodes EXCEPT ![i].start = t, ![i].slot = s])
    /\ UNCHANGED <<made, job>>

\* place_timing: the start of a new place p on day d, if it fits.
AddStart(p, dur, h, r, d, s) ==
    LET stops == DayStops(r, d)
        prev == StopAt(stops, Instant(d, SlotFloor[s], r))
    IN  {t \in StartsAfter(prev, p, dur, h, r, d, s) :
            /\ \A j \in prev : KnownWalk(nodes[j].place, p)
            /\ \A j \in stops : ~(nodes[j].start < t + dur /\ t < End(nodes[j]))
            /\ \A j \in StopAt(stops, t - 1) \ prev :
                  KnownWalk(nodes[j].place, p) /\ End(nodes[j]) + Walk[<<nodes[j].place, p>>] <= t
            /\ \A j \in Soonest(nodes, {j \in stops : nodes[j].start >= t + dur}) : Flexible(nodes[j]) =>
                  KnownWalk(p, nodes[j].place) /\ t + dur + Walk[<<p, nodes[j].place>>] <= nodes[j].start
            /\ ReachesLock(t, dur, p, r, DOMAIN nodes)}

NewActivity(t, dur, r, p, v, s) ==
    [id |-> made + 1, kind |-> "activity", skipped |-> FALSE, start |-> t, dur |-> dur,
     region |-> r, place |-> p, venue |-> v, slot |-> s]

Unused(v) == \A j \in DOMAIN nodes : nodes[j].venue # v

\* add_activity, mode direct_add: a catalog venue into a free slot.
DirectAdd ==
    /\ Event /\ RoomForNode
    /\ \E v \in Venues : \E d \in DOMAIN City : \E s \in SlotOf(Catalog[v].food) :
        LET c == Catalog[v]
        IN  /\ c.region = City[d] /\ Unused(v) /\ FreeSlot(City[d], d, s, DOMAIN nodes)
            /\ \E t \in AddStart(c.place, c.dwell, c.hours, City[d], d, s) :
                nodes' \in SortedByStart(Append(nodes, NewActivity(t, c.dwell, City[d], c.place, v, s)))
    /\ made' = made + 1
    /\ UNCHANGED job

\* add_activity, mode uncatalogued_add: a place of the traveller's own.
UncataloguedAdd ==
    /\ Event /\ RoomForNode
    /\ \E p \in Places \cup {NoPlace} : \E dur \in Dwells : \E d \in DOMAIN City : \E s \in Slots :
        /\ FreeSlot(City[d], d, s, DOMAIN nodes)
        /\ \E t \in AddStart(p, dur, NoHours, City[d], d, s) :
            nodes' \in SortedByStart(Append(nodes, NewActivity(t, dur, City[d], p, NoVenue, s)))
    /\ made' = made + 1
    /\ UNCHANGED job

\* The first locked booking after now, hotels apart, leaves room for the venue.
SparesNextBooking(now, t, c) ==
    LET locks == {j \in DOMAIN nodes : Locked(nodes[j]) /\ ~Hotel(nodes[j]) /\ nodes[j].start > now}
    IN  \A j \in Soonest(nodes, locks) : FitsLock(t, c.dwell, c.place, Home, nodes[j])

\* add_activity, mode ask_to_add: the start What Now proposed, or the end of the
\* plan; the node goes to the end of the list, which is not sorted.
AskToAdd ==
    /\ Event /\ RoomForNode
    /\ \E v \in Venues : \E now \in Nows :
        \E t \in Nows \cup PushedTo(now, {End(nodes[j]) : j \in DOMAIN nodes}) :
            LET c == Catalog[v]
            IN  /\ c.region = Home /\ Unused(v)
                /\ ~Closed(c.hours, t, c.dwell, Home)
                /\ SparesNextBooking(now, t, c)
                /\ nodes' = Append(nodes, NewActivity(t, c.dwell, c.region, c.place, v, "none"))
    /\ made' = made + 1
    /\ UNCHANGED job

Next ==
    \/ PassSkipped \/ PassBooking \/ PassActivity \/ Keep \/ TryNext \/ GiveUp
    \/ Cancel \/ Swap \/ Reroute \/ AddBooking \/ EditBooking \/ DeleteBooking
    \/ Move \/ DirectAdd \/ UncataloguedAdd \/ AskToAdd

Spec == Init /\ [][Next]_vars

-----------------------------------------------------------------------------
(* Properties *)

ByItself(id) ==
    job.kind \in {"edit_booking", "delete_booking"} /\ job.target = id

(***************************************************************************)
(* Locked nodes are fixed anchors (scheduler.py:6): whatever is cancelled, *)
(* swapped, rerouted, added or moved around it, a booking stays as it is   *)
(* until it is itself edited or deleted.                                   *)
(***************************************************************************)
BookingsStand ==
    [][\A i \in DOMAIN nodes : Locked(nodes[i]) =>
          \/ \E j \in DOMAIN nodes' : nodes'[j] = nodes[i]
          \/ Keep /\ ByItself(nodes[i].id)
          \/ EditBooking /\ \A j \in DOMAIN nodes \ {i} : nodes'[j] = nodes[j]]_vars

(***************************************************************************)
(* Activities are only ever pushed later (scheduler.py:7): no event takes  *)
(* an activity off the list, and none but a move puts it earlier.          *)
(***************************************************************************)
OnlyPushedLater ==
    [][\A i \in DOMAIN nodes : Flexible(nodes[i]) =>
          \E j \in DOMAIN nodes' :
              /\ nodes'[j].id = nodes[i].id /\ Flexible(nodes'[j])
              /\ nodes'[j].start >= nodes[i].start \/ Move]_vars

\* A cancelled activity comes back by a swap and by nothing else, and keeps its
\* time until then (scheduler.py:16).
CancelledKeepsItsPlace ==
    [][\A i \in DOMAIN nodes : nodes[i].skipped =>
          \/ \E j \in DOMAIN nodes' : nodes'[j] = nodes[i]
          \/ Keep /\ job.kind = "swap" /\ job.target = nodes[i].id]_vars

Active(ns, i) == i \in DOMAIN ns /\ ~ns[i].skipped

\* Over all of ns, each stop is over before any later one begins.
InOrder(ns) ==
    \A i, j \in DOMAIN ns : Active(ns, i) /\ Active(ns, j) /\ i < j => BusyUntil(ns[i]) <= ns[j].start

\* No activity ends within 150 minutes of a flight that day or the next.
ClearsFlights(ns) ==
    \A i, j \in DOMAIN ns :
        Active(ns, i) /\ Flexible(ns[i]) /\ j \in FlightsAfter(ns, ns[i].start, ns[i].region) =>
            End(ns[i]) <= ns[j].start - (5 * Hour) \div 2

(***************************************************************************)
(* A swap or reroute that is accepted leaves an itinerary that can be      *)
(* lived: every stop is over before the next begins, locked ones included, *)
(* and every flight keeps its 150 minutes, also where the pass pushed the  *)
(* nodes behind the one that was swapped.                                  *)
(***************************************************************************)
AcceptedIsFeasible == [][Keep /\ Judged => InOrder(nodes') /\ ClearsFlights(nodes')]_vars

\* The stop in front of stop j.
InFront(ns, i, j) ==
    Active(ns, i) /\ Active(ns, j) /\ i < j /\ \A k \in i + 1 .. j - 1 : ~Active(ns, k)

\* Activity n, planned for instant t, is of stop m's city and day.
OnDayOf(m, t, n) == m.region = n.region /\ DayOf(m) = LocalDay(t, n.region)

(***************************************************************************)
(* After every rescheduling event, accepted with conflicts or not, an      *)
(* activity planned for the city and day of the stop in front of it, as    *)
(* that now stands, does not begin before that stop is over and the walk   *)
(* from it is done (scheduler.py:8-9).                                     *)
(***************************************************************************)
ActivitiesWait ==
    [][Keep => \A i, j \in DOMAIN nodes' : \A p \in DOMAIN nodes :
          /\ InFront(nodes', i, j) /\ Flexible(nodes'[j])
          /\ nodes[p].id = nodes'[j].id /\ OnDayOf(nodes'[i], nodes[p].start, nodes'[j])
          => BusyUntil(nodes'[i]) + WalkOrNone(nodes'[i].place, nodes'[j].place) <= nodes'[j].start]_vars

(***************************************************************************)
(* An activity with a stop of another city or day in front of it, and no   *)
(* hotel to set out from, keeps its planned start (scheduler.py:56-57,     *)
(* "must preserve the next node's planned start instead of pushing it").   *)
(***************************************************************************)
OtherDaysStand ==
    [][Keep => \A i, j \in DOMAIN nodes' : \A p \in DOMAIN nodes :
          /\ InFront(nodes', i, j) /\ Flexible(nodes'[j]) /\ HotelBound(nodes', j) = {}
          /\ nodes[p].id = nodes'[j].id /\ ~OnDayOf(nodes'[i], nodes[p].start, nodes'[j])
          => nodes'[j].start = nodes[p].start]_vars

Overlap(m, n) == m.start < End(n) /\ n.start < End(m)

(***************************************************************************)
(* A move does not put an activity on top of a locked booking              *)
(* (SPEC-41:81 "does not move or overlap a locked booking", which SPEC-42: *)
(* 219 asks of Move; rule 9 of the move brief has the previous neighbour,  *)
(* "flexible or locked", fit).                                             *)
(***************************************************************************)
MovesClearOfBookings ==
    [][Move => \A i, j \in DOMAIN nodes' :
          /\ \A k \in DOMAIN nodes : nodes[k] # nodes'[i]
          /\ Locked(nodes'[j]) /\ ~Hotel(nodes'[j])
          => ~Overlap(nodes'[i], nodes'[j])]_vars

=============================================================================
