--------------------------- MODULE ItineraryProofs ---------------------------
(***************************************************************************)
(* Proofs about Itinerary, for every catalog, trip, set of bookings and    *)
(* number of events.                                                       *)
(***************************************************************************)
EXTENDS Itinerary, FiniteSetTheorems, WellFoundedInduction, TLAPS

\* A set of naturals has a least element.
LEMMA Least ==
    ASSUME NEW T \in SUBSET Nat, T # {}
    PROVE  \E m \in T : \A n \in T : m <= n
  <1> DEFINE R == {p \in Nat \X Nat : p[1] < p[2]}
  <1>1. IsWellFoundedOn(R, Nat)
    BY NatLessThanWellFounded DEF OpToRel
  <1>2. PICK m \in T : \A n \in T : <<n, m>> \notin R
    <2> HIDE DEF R
    <2> QED BY <1>1, WFMin
  <1>3. ASSUME NEW n \in T PROVE m <= n
    <2>1. ~ (n < m)
      BY <1>2, n \in Nat, m \in Nat
    <2> QED BY <2>1
  <1> QED BY <1>3

\* A list of nodes of which m have been made; only activities are cancelled.
Listed(ns, m) ==
    /\ ns \in Seq(Node) /\ Distinct(ns) /\ Ids(ns) \subseteq 1 .. m
    /\ \A i \in DOMAIN ns : ns[i].skipped => Flexible(ns[i])

Job ==
    [kind : Passes \cup {"none"}, target : Nat, draft : Seq(Node), mutated : SUBSET Nat,
     next : Nat, prev : Nat, until : Int, clash : BOOLEAN, venues : Seq(Venues), tries : Nat]

\* What an event of this kind and target may make of the nodes ns.
Carried(ns, d, kind, target) ==
    \A i \in DOMAIN ns :
        /\ Locked(ns[i]) =>
             \/ \E j \in DOMAIN d : d[j] = ns[i]
             \/ kind \in {"edit_booking", "delete_booking"} /\ target = ns[i].id
        /\ Flexible(ns[i]) =>
             \E j \in DOMAIN d : d[j].id = ns[i].id /\ Flexible(d[j]) /\ d[j].start >= ns[i].start
        /\ ns[i].skipped =>
             \/ \E j \in DOMAIN d : d[j] = ns[i]
             \/ kind = "swap" /\ target = ns[i].id

\* Ahead of the pass, activities stand as the itinerary ns has them planned.
Planned(ns, d, n) ==
    \A i \in n .. Len(d) : \A p \in DOMAIN ns :
        Flexible(d[i]) /\ ns[p].id = d[i].id => ns[p].start = d[i].start

\* Behind it, they are where the walk from the stop in front has ended.
Walked(ns, d, n) ==
    \A i, k \in 1 .. n - 1 : \A p \in DOMAIN ns :
        /\ InFront(d, i, k) /\ Flexible(d[k])
        /\ ns[p].id = d[k].id /\ OnDayOf(d[i], ns[p].start, d[k])
        => BusyUntil(d[i]) + WalkOrNone(d[i].place, d[k].place) <= d[k].start

\* What the pass has established of the first n - 1 nodes of the draft.
Orderly(d, n) ==
    \A i, k \in 1 .. n - 1 : Active(d, i) /\ Active(d, k) /\ i < k => BusyUntil(d[i]) <= d[k].start

Clears(d, i) ==
    \A f \in FlightsAfter(d, d[i].start, d[i].region) : End(d[i]) <= d[f].start - (5 * Hour) \div 2

Unclashed(d, n) ==
    Orderly(d, n) /\ \A i \in 1 .. n - 1 : Active(d, i) /\ Flexible(d[i]) => Clears(d, i)

\* Where the pass stands: prev is the last stop behind it.
Standing(j) ==
    /\ j.next \in 1 .. Len(j.draft) + 1 /\ j.prev \in 0 .. j.next - 1
    /\ \A i \in 1 .. j.next - 1 : Active(j.draft, i) => i <= j.prev
    /\ j.prev # 0 => Active(j.draft, j.prev) /\ j.until = BusyUntil(j.draft[j.prev])

HasActivity(ns, id) == \E i \in DOMAIN ns : Flexible(ns[i]) /\ ns[i].id = id

JobOK(j, ns, m) ==
    /\ j \in Job /\ Listed(j.draft, m) /\ Standing(j)
    /\ j.kind # "none" => /\ Carried(ns, j.draft, j.kind, j.target)
                          /\ Planned(ns, j.draft, j.next) /\ Walked(ns, j.draft, j.next)
    /\ ~j.clash => Unclashed(j.draft, j.next)
    /\ j.kind \in {"swap", "reroute"} => j.venues # <<>>
    /\ j.kind = "swap" => HasActivity(ns, j.target)

ItineraryInv ==
    /\ made \in Nat /\ events \in 0 .. MaxEvents
    /\ Listed(nodes, made) /\ JobOK(job, nodes, made)

-----------------------------------------------------------------------------
(* Numbers: clocks, walks and bounds *)

LEMMA DivIsInt == ASSUME NEW a \in Int, NEW b \in Nat \ {0} PROVE a \div b \in Int
  OBVIOUS

LEMMA DayIsPositive == Hour \in Nat \ {0} /\ Day \in Nat \ {0}
  BY RulesAssumption DEF Day

LEMMA LocalDayIsInt == ASSUME NEW t \in Int, NEW r \in Regions PROVE LocalDay(t, r) \in Int
  BY DayIsPositive, DivIsInt, RulesAssumption DEF LocalDay

LEMMA InstantIsInt ==
    ASSUME NEW d \in Int, NEW clock \in Int, NEW r \in Regions
    PROVE  Instant(d, clock, r) \in Int
  BY DayIsPositive, RulesAssumption DEF Instant

LEMMA WalkIsNat ==
    ASSUME NEW p \in Places \cup {NoPlace}, NEW q \in Places \cup {NoPlace}
    PROVE  /\ WalkOrNone(p, q) \in Nat
           /\ p # NoPlace /\ q # NoPlace => Walk[<<p, q>>] \in Nat
  <1>1. p # NoPlace /\ q # NoPlace => <<p, q>> \in Places \X Places
    OBVIOUS
  <1>2. p # NoPlace /\ q # NoPlace => Walk[<<p, q>>] \in Nat
    BY <1>1, RulesAssumption
  <1> QED BY <1>2 DEF WalkOrNone, KnownWalk

LEMMA NodeTimes ==
    ASSUME NEW n \in Node
    PROVE  /\ n.start \in Int /\ n.dur \in Nat /\ End(n) \in Int /\ BusyUntil(n) \in Int
           /\ n.start <= BusyUntil(n) /\ DayOf(n) \in Int
           /\ n.region \in Regions /\ n.place \in Places \cup {NoPlace}
  <1>1. n.start \in Int /\ n.dur \in Nat /\ n.region \in Regions /\ n.place \in Places \cup {NoPlace}
    BY DEF Node
  <1> QED BY <1>1, LocalDayIsInt DEF End, BusyUntil, DayOf

\* A start that is pushed by integer bounds is one of them or itself, and none is later.
LEMMA PushedIsLatest ==
    ASSUME NEW t \in Int, NEW B \in SUBSET Int, NEW u \in PushedTo(t, B)
    PROVE  u \in Int /\ u >= t /\ \A b \in B : b <= u
  BY DEF PushedTo

LEMMA SetOutIsInt ==
    ASSUME NEW h \in Node, NEW n \in Node
    PROVE  SetOut(h, n) \in Int
  <1>1. 9 * Hour \in Int
    BY DayIsPositive
  <1> QED BY <1>1, NodeTimes, InstantIsInt DEF SetOut

LEMMA BoundsAreInts ==
    ASSUME NEW m, JobOK(job, nodes, m), NEW i \in DOMAIN job.draft
    PROVE  /\ StopBound(job.draft, i) \in SUBSET Int /\ HotelBound(job.draft, i) \in SUBSET Int
           /\ job.prev # 0 => \E b \in StopBound(job.draft, i) : b >= job.until
  <1> DEFINE ns == job.draft
  <1>1. ns \in Seq(Node) /\ ns[i] \in Node /\ job.until \in Int
    BY DEF JobOK, Job, Listed
  <1>2. ASSUME job.prev # 0
        PROVE  ns[job.prev] \in Node /\ WalkOrNone(ns[job.prev].place, ns[i].place) \in Nat
    <2>1. job.prev \in DOMAIN ns
      BY <1>1, <1>2 DEF JobOK, Standing, Active
    <2>2. ns[job.prev] \in Node
      BY <1>1, <2>1
    <2>3. ns[job.prev].place \in Places \cup {NoPlace} /\ ns[i].place \in Places \cup {NoPlace}
      BY <1>1, <2>2, NodeTimes
    <2> QED BY <2>2, <2>3, WalkIsNat
  <1>3. /\ StopBound(ns, i) \in SUBSET Int
        /\ job.prev # 0 => \E b \in StopBound(ns, i) : b >= job.until
    BY <1>1, <1>2 DEF StopBound
  <1>4. ASSUME NEW h \in MorningHotel(ns, i), ns[i].place # NoPlace
        PROVE  SetOut(h, ns[i]) + Walk[<<h.place, ns[i].place>>] \in Int
    <2>1. h \in Node /\ h.place # NoPlace
      BY <1>1, <1>4 DEF MorningHotel, CoveringHotel, Latest
    <2>2. SetOut(h, ns[i]) \in Int /\ Walk[<<h.place, ns[i].place>>] \in Nat
      BY <1>1, <1>4, <2>1, NodeTimes, SetOutIsInt, WalkIsNat
    <2> QED BY <2>2
  <1>5. HotelBound(ns, i) \in SUBSET Int
    BY <1>4 DEF HotelBound
  <1> QED BY <1>3, <1>5

-----------------------------------------------------------------------------
(* The soonest of some nodes *)

\* Of the nodes that start after an instant, one is the soonest.
LEMMA SoonestThereIs ==
    ASSUME NEW ns \in Seq(Node), NEW S \in SUBSET DOMAIN ns, S # {}, NEW t \in Int,
           \A j \in S : ns[j].start > t
    PROVE  \E j \in Soonest(ns, S) : \A k \in S : ns[j].start <= ns[k].start
  <1> DEFINE Gaps == {ns[j].start - t : j \in S}
  <1>1. \A j \in S : ns[j].start \in Int /\ ns[j].start - t \in Nat
    <2> SUFFICES ASSUME NEW j \in S PROVE ns[j].start \in Int /\ ns[j].start - t \in Nat
      OBVIOUS
    <2>1. ns[j].start \in Int
      BY NodeTimes
    <2> QED BY <2>1
  <1>2. PICK w \in Gaps : \A v \in Gaps : w <= v
    <2>1. Gaps \in SUBSET Nat /\ Gaps # {}
      BY <1>1
    <2> HIDE DEF Gaps
    <2> QED BY <2>1, Least
  <1> DEFINE F == {j \in S : ns[j].start - t = w}
  <1>3. F # {} /\ F \in SUBSET Nat /\ F \subseteq S
    BY <1>2
  <1>4. PICK j \in F : \A k \in F : j <= k
    BY <1>3, Least
  <1>5. j \in S /\ \A k \in S : ns[j].start <= ns[k].start
    <2> SUFFICES ASSUME NEW k \in S PROVE ns[j].start <= ns[k].start
      BY <1>3
    <2>1. ns[j].start - t <= ns[k].start - t
      BY <1>2
    <2> QED BY <1>1, <1>3, <2>1
  <1>6. ASSUME NEW k \in S PROVE NoLater(ns, j, k)
    <2>1. CASE ns[j].start < ns[k].start
      BY <2>1 DEF NoLater
    <2>2. CASE ~(ns[j].start < ns[k].start)
      <3>1. ns[j].start = ns[k].start
        BY <1>1, <1>5, <2>2
      <3>2. k \in F
        BY <1>3, <3>1
      <3> QED BY <1>4, <3>1, <3>2 DEF NoLater
    <2> QED BY <2>1, <2>2
  <1> QED BY <1>5, <1>6 DEF Soonest

LEMMA CutoffIsInt == (5 * Hour) \div 2 \in Int
  BY DayIsPositive, DivIsInt

LEMMA FlightsAreIndices ==
    ASSUME NEW ns \in Seq(Node), NEW t \in Int, NEW r \in Regions
    PROVE  /\ FlightsAfter(ns, t, r) \in SUBSET DOMAIN ns
           /\ \A j \in FlightsAfter(ns, t, r) : ns[j].start > t /\ Locked(ns[j])
  BY DEF FlightsAfter, Locked

\* What clears the soonest flight clears the later ones.
LEMMA SoonestIsEnough ==
    ASSUME NEW ns \in Seq(Node), NEW i \in DOMAIN ns,
           ~MissesFlight(ns, ns[i].start, ns[i].dur, ns[i].place, ns[i].region)
    PROVE  Clears(ns, i)
  <1> DEFINE F == FlightsAfter(ns, ns[i].start, ns[i].region)
             cut == (5 * Hour) \div 2
  <1>1. ns[i] \in Node /\ ns[i].start \in Int /\ End(ns[i]) \in Int /\ ns[i].region \in Regions
    BY NodeTimes
  <1>2. F \in SUBSET DOMAIN ns /\ \A j \in F : ns[j].start > ns[i].start
    BY <1>1, FlightsAreIndices
  <1> HIDE DEF F
  <1> SUFFICES ASSUME NEW f \in F PROVE End(ns[i]) <= ns[f].start - cut
    BY DEF Clears, F
  <1>3. PICK j \in Soonest(ns, F) : ns[j].start <= ns[f].start
    BY <1>1, <1>2, SoonestThereIs
  <1>4. ~BreaksCutoff(ns[i].start, ns[i].dur, ns[i].place, ns[j])
    BY <1>3 DEF MissesFlight, F
  <1>5. ~(End(ns[i]) > ns[j].start - cut)
    BY <1>4 DEF BreaksCutoff, End
  <1>6. j \in F /\ ns[j].start \in Int /\ ns[f].start \in Int /\ cut \in Int
    BY <1>2, NodeTimes, CutoffIsInt DEF Soonest
  <1> HIDE DEF cut
  <1> QED BY <1>1, <1>3, <1>5, <1>6

-----------------------------------------------------------------------------
(* One step of the pass *)

\* Changing an activity alters nothing about flights or about other nodes.
LEMMA BehindStays ==
    ASSUME NEW d \in Seq(Node), NEW e \in Seq(Node), DOMAIN e = DOMAIN d, NEW i \in DOMAIN d,
           \A k \in DOMAIN d \ {i} : e[k] = d[k],
           e[i] = d[i] \/ (Flexible(d[i]) /\ Flexible(e[i]))
    PROVE  /\ Unclashed(d, i) => Unclashed(e, i)
           /\ \A ns : Walked(ns, d, i) => Walked(ns, e, i)
  <1>1. \A k \in 1 .. i - 1 : k \in DOMAIN d \ {i} /\ e[k] = d[k]
    OBVIOUS
  <1>2. \A k \in 1 .. i - 1 : Active(e, k) <=> Active(d, k)
    BY <1>1 DEF Active
  <1>4. Orderly(d, i) => Orderly(e, i)
    BY <1>1, <1>2 DEF Orderly
  <1>5. ASSUME NEW t, NEW r PROVE FlightsAfter(e, t, r) = FlightsAfter(d, t, r)
    <2>1. \A j \in DOMAIN d : e[j] = d[j] \/ (e[j].kind # "flight" /\ d[j].kind # "flight")
      BY DEF Flexible
    <2> QED BY <2>1 DEF FlightsAfter
  <1>6. ASSUME NEW k \in 1 .. i - 1, Clears(d, k) PROVE Clears(e, k)
    <2>1. \A f \in FlightsAfter(d, d[k].start, d[k].region) : e[f] = d[f]
      BY DEF FlightsAfter, Flexible
    <2> QED BY <1>1, <1>5, <1>6, <2>1 DEF Clears
  <1>7. ASSUME NEW ns, Walked(ns, d, i) PROVE Walked(ns, e, i)
    <2> SUFFICES ASSUME NEW j \in 1 .. i - 1, NEW k \in 1 .. i - 1, NEW p \in DOMAIN ns,
                        InFront(e, j, k), Flexible(e[k]),
                        ns[p].id = e[k].id, OnDayOf(e[j], ns[p].start, e[k])
                 PROVE  BusyUntil(e[j]) + WalkOrNone(e[j].place, e[k].place) <= e[k].start
      BY DEF Walked
    <2>1. \A l \in j + 1 .. k - 1 : l \in 1 .. i - 1
      OBVIOUS
    <2>2. InFront(d, j, k) /\ e[j] = d[j] /\ e[k] = d[k]
      BY <1>1, <1>2, <2>1 DEF InFront
    <2> QED BY <1>7, <2>2 DEF Walked
  <1>8. Unclashed(d, i) => Unclashed(e, i)
    BY <1>1, <1>2, <1>4, <1>6 DEF Unclashed
  <1> QED BY <1>7, <1>8

\* Where the pass stands before node i of the draft e.
StandsBefore(e, i, prev, until) ==
    /\ prev \in 0 .. i - 1
    /\ \A k \in 1 .. i - 1 : Active(e, k) => k <= prev
    /\ prev # 0 => Active(e, prev) /\ until = BusyUntil(e[prev])

LEMMA WalkedOneMore ==
    ASSUME NEW ns, NEW e \in Seq(Node), NEW i \in DOMAIN e, NEW prev, NEW until,
           StandsBefore(e, i, prev, until), Walked(ns, e, i),
           Active(e, i) /\ Flexible(e[i]) /\ prev # 0 =>
              \A p \in DOMAIN ns :
                 ns[p].id = e[i].id /\ OnDayOf(e[prev], ns[p].start, e[i]) =>
                    until + WalkOrNone(e[prev].place, e[i].place) <= e[i].start
    PROVE  Walked(ns, e, i + 1)
  <1>0. 1 .. (i + 1) - 1 = 1 .. i
    OBVIOUS
  <1> SUFFICES ASSUME NEW j \in 1 .. i, NEW k \in 1 .. i, NEW p \in DOMAIN ns,
                      InFront(e, j, k), Flexible(e[k]),
                      ns[p].id = e[k].id, OnDayOf(e[j], ns[p].start, e[k])
               PROVE  BusyUntil(e[j]) + WalkOrNone(e[j].place, e[k].place) <= e[k].start
    BY <1>0 DEF Walked
  <1>1. CASE k < i
    <2>1. j \in 1 .. i - 1 /\ k \in 1 .. i - 1
      BY <1>1 DEF InFront
    <2> QED BY <2>1 DEF Walked
  <1>2. CASE k = i
    <2>0. Active(e, j) /\ Active(e, k) /\ j < k /\ \A l \in j + 1 .. k - 1 : ~Active(e, l)
      BY DEF InFront
    <2>1. j <= prev /\ prev < i
      BY <1>2, <2>0 DEF StandsBefore
    <2>2. prev # 0 /\ Active(e, prev) /\ prev \in 1 .. i - 1 /\ until = BusyUntil(e[prev])
      BY <2>1 DEF StandsBefore
    <2>3. j = prev
      BY <1>2, <2>0, <2>1, <2>2
    <2> QED BY <1>2, <2>0, <2>2, <2>3
  <1> QED BY <1>1, <1>2

LEMMA OrderlyOneMore ==
    ASSUME NEW e \in Seq(Node), NEW i \in DOMAIN e, NEW prev, NEW until,
           StandsBefore(e, i, prev, until), Orderly(e, i),
           Active(e, i) /\ prev # 0 => until <= e[i].start
    PROVE  Orderly(e, i + 1)
  <1> SUFFICES ASSUME NEW j \in 1 .. i, NEW k \in 1 .. i, Active(e, j), Active(e, k), j < k
               PROVE  BusyUntil(e[j]) <= e[k].start
    BY DEF Orderly
  <1>1. CASE k < i
    BY <1>1 DEF Orderly
  <1>2. CASE k = i
    <2>1. j <= prev /\ prev \in 1 .. i - 1 /\ Active(e, prev) /\ until = BusyUntil(e[prev])
      BY <1>2 DEF StandsBefore
    <2>2. until <= e[k].start
      BY <1>2, <2>1
    <2>3. CASE j = prev
      BY <2>1, <2>2, <2>3
    <2>4. CASE j < prev
      <3>1. BusyUntil(e[j]) <= e[prev].start
        BY <2>1, <2>4 DEF Orderly
      <3>2. /\ BusyUntil(e[j]) \in Int /\ e[prev].start \in Int /\ until \in Int /\ e[k].start \in Int
            /\ e[prev].start <= until
        <4>1. e[j] \in Node /\ e[prev] \in Node /\ e[k] \in Node
          BY <2>1
        <4> QED BY <2>1, <4>1, NodeTimes
      <3> QED BY <2>2, <3>1, <3>2
    <2> QED BY <2>1, <2>3, <2>4
  <1> QED BY <1>1, <1>2

LEMMA JobFields ==
    ASSUME NEW m, JobOK(job, nodes, m)
    PROVE  /\ job \in Job /\ job.draft \in Seq(Node) /\ job.until \in Int
           /\ job.kind # "none" => Planned(nodes, job.draft, job.next) /\ Walked(nodes, job.draft, job.next)
           /\ job.next \in 1 .. Len(job.draft) + 1 /\ DOMAIN job.draft = 1 .. Len(job.draft)
           /\ StandsBefore(job.draft, job.next, job.prev, job.until)
           /\ ~job.clash => Unclashed(job.draft, job.next)
  BY DEF JobOK, Job, Standing, StandsBefore

LEMMA UpTo == ASSUME NEW i \in Nat \ {0} PROVE 1 .. (i + 1) - 1 = 1 .. i - 1 \cup {i}
  OBVIOUS

LEMMA PlannedLess ==
    ASSUME NEW ns, NEW d \in Seq(Node), NEW i \in Nat \ {0}, Planned(ns, d, i)
    PROVE  Planned(ns, d, i + 1)
  <1>1. \A k \in i + 1 .. Len(d) : k \in i .. Len(d)
    OBVIOUS
  <1> QED BY <1>1 DEF Planned

LEMMA SkippedKeeps ==
    ASSUME NEW m, JobOK(job, nodes, m), PassSkipped
    PROVE  JobOK(job', nodes, m)
  <1> DEFINE d == job.draft
             i == job.next
  <1>1. i \in DOMAIN d /\ ~Active(d, i) /\ job' = [job EXCEPT !.next = i + 1]
    BY JobFields DEF PassSkipped, Walking, Active
  <1>0. job \in Job /\ i \in Nat \ {0} /\ i + 1 \in Nat
    BY JobFields
  <1>2. /\ job' \in Job /\ job'.draft = d /\ job'.next = i + 1 /\ job'.prev = job.prev
        /\ job'.until = job.until /\ job'.clash = job.clash /\ job'.kind = job.kind
        /\ job'.target = job.target /\ job'.venues = job.venues
    BY <1>0, <1>1 DEF Job
  <1>3. ~job.clash => Unclashed(d, i + 1)
    <2>2. ~job.clash => Orderly(d, i + 1)
      BY <1>1, JobFields, OrderlyOneMore DEF Unclashed
    <2>3. 1 .. (i + 1) - 1 = 1 .. i - 1 \cup {i}
      BY <1>0, UpTo
    <2>4. ~job.clash => \A k \in 1 .. i - 1 : Active(d, k) /\ Flexible(d[k]) => Clears(d, k)
      BY JobFields DEF Unclashed
    <2> QED BY <1>1, <2>2, <2>3, <2>4 DEF Unclashed
  <1>4. Standing(job')
    BY <1>1, <1>2, JobFields DEF Standing, StandsBefore
  <1>5. job.kind # "none" => Planned(nodes, d, i + 1) /\ Walked(nodes, d, i + 1)
    <2>1. job.kind # "none" => Walked(nodes, d, i + 1)
      BY <1>1, JobFields, WalkedOneMore
    <2> QED BY <2>1, JobFields, PlannedLess
  <1> QED BY <1>2, <1>3, <1>4, <1>5 DEF JobOK

LEMMA BookingKeeps ==
    ASSUME NEW m, JobOK(job, nodes, m), PassBooking
    PROVE  JobOK(job', nodes, m)
  <1> DEFINE d == job.draft
             i == job.next
             late == \E b \in StopBound(d, i) : b > d[i].start
  <1>1. /\ i \in DOMAIN d /\ Active(d, i) /\ Locked(d[i])
        /\ job' = [job EXCEPT !.next = i + 1, !.prev = i, !.until = BusyUntil(d[i]), !.clash = job.clash \/ late]
    BY JobFields DEF PassBooking, Walking, Active
  <1>2. d[i] \in Node /\ BusyUntil(d[i]) \in Int /\ d[i].start \in Int /\ late \in BOOLEAN
    BY <1>1, JobFields, NodeTimes
  <1>0. job \in Job /\ i \in Nat \ {0} /\ i + 1 \in Nat
    BY JobFields
  <1> HIDE DEF late
  <1>3. /\ job' \in Job /\ job'.draft = d /\ job'.next = i + 1 /\ job'.prev = i
        /\ job'.until = BusyUntil(d[i]) /\ job'.clash = (job.clash \/ late) /\ job'.kind = job.kind
        /\ job'.target = job.target /\ job'.venues = job.venues
    <2>1. (job.clash \/ late) \in BOOLEAN
      BY <1>2, JobFields DEF Job
    <2> QED BY <1>0, <1>1, <1>2, <2>1 DEF Job
  <1>4. ~Flexible(d[i])
    BY <1>1 DEF Flexible, Locked
  <1>5. ~late /\ job.prev # 0 => job.until <= d[i].start
    <2> SUFFICES ASSUME ~late, job.prev # 0 PROVE job.until <= d[i].start
      OBVIOUS
    <2>1. PICK b \in StopBound(d, i) : b >= job.until
      BY <1>1, BoundsAreInts
    <2>2. b \in Int /\ ~(b > d[i].start)
      BY <1>1, BoundsAreInts DEF late
    <2> QED BY <1>2, <2>1, <2>2, JobFields
  <1>7. ~job.clash /\ ~late => Unclashed(d, i + 1)
    <2>1. ~job.clash /\ ~late => Orderly(d, i + 1)
      BY <1>1, <1>5, JobFields, OrderlyOneMore DEF Unclashed
    <2>2. 1 .. (i + 1) - 1 = 1 .. i - 1 \cup {i}
      BY <1>0, UpTo
    <2> QED BY <1>4, <2>1, <2>2, JobFields DEF Unclashed
  <1>8. Standing(job')
    <2>1. \A k \in 1 .. (i + 1) - 1 : k <= i
      BY <1>0
    <2> QED BY <1>1, <1>3, <2>1, JobFields DEF Standing
  <1>9. job.kind # "none" => Planned(nodes, d, i + 1) /\ Walked(nodes, d, i + 1)
    <2>1. job.kind # "none" => Walked(nodes, d, i + 1)
      BY <1>1, <1>4, JobFields, WalkedOneMore
    <2> QED BY <2>1, JobFields, PlannedLess
  <1> QED BY <1>3, <1>7, <1>8, <1>9 DEF JobOK

LEMMA CarriedLater ==
    ASSUME NEW ns \in Seq(Node), NEW d \in Seq(Node), NEW e \in Seq(Node), NEW kind, NEW target,
           Carried(ns, d, kind, target), DOMAIN e = DOMAIN d, NEW i \in DOMAIN d,
           \A k \in DOMAIN d \ {i} : e[k] = d[k],
           Flexible(d[i]), ~d[i].skipped,
           e[i].id = d[i].id, Flexible(e[i]), e[i].start >= d[i].start
    PROVE  Carried(ns, e, kind, target)
  <1> SUFFICES ASSUME NEW k \in DOMAIN ns
               PROVE  /\ (\E j \in DOMAIN d : d[j] = ns[k]) /\ (Locked(ns[k]) \/ ns[k].skipped) =>
                            \E j \in DOMAIN e : e[j] = ns[k]
                      /\ Flexible(ns[k]) => \E j \in DOMAIN e : /\ e[j].id = ns[k].id /\ Flexible(e[j])
                                                                 /\ e[j].start >= ns[k].start
    BY DEF Carried
  <1>1. ASSUME NEW j \in DOMAIN d, d[j] = ns[k], Locked(ns[k]) \/ ns[k].skipped
        PROVE  \E l \in DOMAIN e : e[l] = ns[k]
    <2>1. j # i
      BY <1>1 DEF Locked, Flexible
    <2> QED BY <1>1, <2>1
  <1>2. ASSUME Flexible(ns[k])
        PROVE  \E j \in DOMAIN e : e[j].id = ns[k].id /\ Flexible(e[j]) /\ e[j].start >= ns[k].start
    <2>1. PICK j \in DOMAIN d : d[j].id = ns[k].id /\ Flexible(d[j]) /\ d[j].start >= ns[k].start
      BY <1>2 DEF Carried
    <2>2. d[j] \in Node /\ e[j] \in Node /\ ns[k] \in Node
      OBVIOUS
    <2>3. d[j].start \in Int /\ e[j].start \in Int /\ ns[k].start \in Int
      BY <2>2, NodeTimes
    <2>4. e[j].id = ns[k].id /\ Flexible(e[j]) /\ e[j].start >= ns[k].start
      <3>1. CASE j = i
        BY <2>1, <2>3, <3>1
      <3>2. CASE j # i
        BY <2>1, <3>2
      <3> QED BY <3>1, <3>2
    <2> QED BY <2>4
  <1> QED BY <1>1, <1>2

LEMMA ActivityKeeps ==
    ASSUME NEW m, Listed(nodes, m), JobOK(job, nodes, m), PassActivity
    PROVE  JobOK(job', nodes, m)
  <1> DEFINE d == job.draft
             i == job.next
  <1>0. job \in Job /\ i \in Nat \ {0} /\ i + 1 \in Nat /\ d \in Seq(Node)
    BY JobFields
  <1>1. i \in DOMAIN d /\ Active(d, i) /\ Flexible(d[i]) /\ ~d[i].skipped /\ job.kind # "none"
    BY JobFields DEF PassActivity, Walking, Active, Idle
  <1>2. PICK start \in PushedTo(d[i].start, StopBound(d, i) \cup HotelBound(d, i)) :
           LET draft == [d EXCEPT ![i].start = start]
           IN  job' = [job EXCEPT !.draft = draft, !.next = @ + 1, !.prev = i,
                                  !.until = BusyUntil(draft[i]),
                                  !.clash = @ \/ Clashes(draft, i, start # d[i].start)]
    BY DEF PassActivity
  <1> DEFINE e == [d EXCEPT ![i].start = start]
             clash == Clashes(e, i, start # d[i].start)
  <1>3. /\ start \in Int /\ start >= d[i].start /\ (job.prev # 0 => start >= job.until)
        /\ \A b \in StopBound(d, i) : b <= start
    <2>1. d[i].start \in Int
      <3>1. d[i] \in Node
        BY <1>0, <1>1
      <3> QED BY <3>1, NodeTimes
    <2>2. StopBound(d, i) \cup HotelBound(d, i) \in SUBSET Int
      BY <1>1, BoundsAreInts
    <2>3. start \in Int /\ start >= d[i].start /\ \A b \in StopBound(d, i) \cup HotelBound(d, i) : b <= start
      BY <2>1, <2>2, PushedIsLatest
    <2>4. ASSUME job.prev # 0 PROVE start >= job.until
      <3>1. PICK b \in StopBound(d, i) : b >= job.until
        BY <1>1, <2>4, BoundsAreInts
      <3>2. b \in Int /\ b <= start
        BY <2>2, <2>3
      <3> QED BY <2>3, <3>1, <3>2, JobFields
    <2>5. \A b \in StopBound(d, i) : b <= start
      BY <2>3
    <2> QED BY <2>3, <2>4, <2>5
  <1>4. /\ e \in Seq(Node) /\ DOMAIN e = DOMAIN d /\ Len(e) = Len(d) /\ \A k \in DOMAIN d \ {i} : e[k] = d[k]
        /\ e[i] = [d[i] EXCEPT !.start = start] /\ e[i] \in Node
        /\ e[i].id = d[i].id /\ Flexible(e[i]) /\ e[i].start = start /\ ~e[i].skipped
        /\ e[i].region = d[i].region /\ e[i].place = d[i].place
    <2>3. d[i] \in Node
      BY <1>0, <1>1
    <2>1. [d[i] EXCEPT !.start = start] \in Node
      BY <1>3, <2>3 DEF Node
    <2>2. e = [d EXCEPT ![i] = [d[i] EXCEPT !.start = start]]
      BY <1>0, <1>1
    <2>4. [d[i] EXCEPT !.start = start].id = d[i].id /\ [d[i] EXCEPT !.start = start].kind = d[i].kind
          /\ [d[i] EXCEPT !.start = start].start = start /\ [d[i] EXCEPT !.start = start].skipped = d[i].skipped
          /\ [d[i] EXCEPT !.start = start].region = d[i].region /\ [d[i] EXCEPT !.start = start].place = d[i].place
      BY <2>3 DEF Node
    <2>5. /\ e \in Seq(Node) /\ DOMAIN e = DOMAIN d /\ Len(e) = Len(d)
          /\ \A k \in DOMAIN d \ {i} : e[k] = d[k]
          /\ e[i] = [d[i] EXCEPT !.start = start]
      <3> HIDE DEF e
      <3> QED BY <1>0, <1>1, <2>1, <2>2
    <2> HIDE DEF e
    <2> QED BY <1>1, <2>1, <2>4, <2>5 DEF Flexible
  <1>5. clash \in BOOLEAN /\ BusyUntil(e[i]) \in Int
    BY <1>4, NodeTimes DEF Clashes
  <1>6. job' = [job EXCEPT !.draft = e, !.next = i + 1, !.prev = i,
                           !.until = BusyUntil(e[i]), !.clash = job.clash \/ clash]
    BY <1>2
  <1> HIDE DEF e, clash
  <1>7. /\ job' \in Job /\ job'.draft = e /\ job'.next = i + 1 /\ job'.prev = i
        /\ job'.until = BusyUntil(e[i]) /\ job'.clash = (job.clash \/ clash) /\ job'.kind = job.kind
        /\ job'.target = job.target /\ job'.venues = job.venues
    <2>1. (job.clash \/ clash) \in BOOLEAN
      BY <1>0, <1>5 DEF Job
    <2> QED BY <1>0, <1>4, <1>5, <1>6, <2>1 DEF Job
  <1>8. Listed(e, m)
    <2>0. \A k \in DOMAIN d : e[k].id = d[k].id
      BY <1>4
    <2>1. Listed(d, m)
      BY DEF JobOK
    <2>2. Ids(e) = Ids(d) /\ Distinct(e)
      <3>1. DOMAIN e = DOMAIN d
        BY <1>4
      <3> QED BY <2>0, <2>1, <3>1 DEF Listed, Ids, Distinct
    <2> QED BY <1>1, <1>4, <2>1, <2>2 DEF Listed
  <1>9. Carried(nodes, e, job.kind, job.target)
    <2>1. Carried(nodes, d, job.kind, job.target) /\ nodes \in Seq(Node)
      BY <1>1 DEF JobOK, Listed
    <2> QED BY <1>0, <1>1, <1>3, <1>4, <2>1, CarriedLater
  <1>10. StandsBefore(e, i, job.prev, job.until) /\ (~job.clash => Unclashed(e, i))
    <2>1. ~job.clash => Unclashed(e, i)
      BY <1>0, <1>1, <1>4, JobFields, BehindStays
    <2>2. StandsBefore(e, i, job.prev, job.until)
      <3>0. \A k \in 1 .. i - 1 : k \in DOMAIN d \ {i}
        BY <1>0, <1>1
      <3>1. \A k \in 1 .. i - 1 : e[k] = d[k] /\ (Active(e, k) <=> Active(d, k))
        BY <1>4, <3>0 DEF Active
      <3>2. job.prev # 0 => job.prev \in 1 .. i - 1
        BY JobFields DEF StandsBefore
      <3> QED BY <3>1, <3>2, JobFields DEF StandsBefore
    <2> QED BY <2>1, <2>2
  <1>12. ~job.clash /\ ~clash => Unclashed(e, i + 1)
    <2>1. ~job.clash => Orderly(e, i + 1)
      BY <1>1, <1>3, <1>4, <1>10, OrderlyOneMore DEF Unclashed
    <2>2. ~clash => Clears(e, i)
      <3>1. ~clash => ~MissesFlight(e, e[i].start, e[i].dur, e[i].place, e[i].region)
        BY DEF clash, Clashes
      <3> QED BY <1>1, <1>4, <3>1, SoonestIsEnough
    <2>3. 1 .. (i + 1) - 1 = 1 .. i - 1 \cup {i}
      BY <1>0, UpTo
    <2> QED BY <1>10, <2>1, <2>2, <2>3 DEF Unclashed
  <1>13. Standing(job')
    <2>1. \A k \in 1 .. (i + 1) - 1 : k <= i
      BY <1>0
    <2>2. Active(e, i) /\ i + 1 \in 1 .. Len(e) + 1
      BY <1>0, <1>1, <1>4 DEF Active
    <2> QED BY <1>0, <1>7, <2>1, <2>2 DEF Standing
  <1>14. Planned(nodes, e, i + 1)
    <2>1. \A k \in i + 1 .. Len(e) : k \in DOMAIN d \ {i} /\ k \in i .. Len(d)
      BY <1>0, <1>4
    <2> QED BY <1>1, <1>4, <2>1, JobFields DEF Planned
  <1>15. Walked(nodes, e, i + 1)
    <2>1. Walked(nodes, e, i)
      <3>1. Walked(nodes, d, i)
        BY <1>1, JobFields
      <3> QED BY <1>0, <1>1, <1>4, <3>1, BehindStays
    <2>2. ASSUME job.prev # 0, NEW p \in DOMAIN nodes,
                 nodes[p].id = e[i].id, OnDayOf(e[job.prev], nodes[p].start, e[i])
          PROVE  job.until + WalkOrNone(e[job.prev].place, e[i].place) <= e[i].start
      <3>1. job.prev \in DOMAIN d \ {i} /\ e[job.prev] = d[job.prev]
        <4>1. job.prev \in 1 .. i - 1
          BY <2>2, JobFields DEF StandsBefore
        <4> QED BY <1>0, <1>1, <1>4, <4>1
      <3>2. nodes[p].start = d[i].start
        <4>1. i \in i .. Len(d)
          BY <1>0, <1>1
        <4> QED BY <1>1, <1>4, <2>2, <4>1, JobFields DEF Planned
      <3>3. SameRegionAndDay(d[job.prev], d[i])
        BY <1>4, <2>2, <3>1, <3>2 DEF OnDayOf, SameRegionAndDay, DayOf
      <3>4. job.until + WalkOrNone(d[job.prev].place, d[i].place) \in StopBound(d, i)
        BY <2>2, <3>3 DEF StopBound
      <3>5. job.until + WalkOrNone(d[job.prev].place, d[i].place) <= start
        BY <1>3, <3>4
      <3> QED BY <1>4, <3>1, <3>5
    <2> QED BY <1>1, <1>4, <1>10, <2>1, <2>2, WalkedOneMore
  <1> QED BY <1>7, <1>8, <1>9, <1>12, <1>13, <1>14, <1>15 DEF JobOK

-----------------------------------------------------------------------------
(* What the events make of a list of nodes *)

\* A pass that begins.
LEMMA FreshJob ==
    ASSUME NEW j \in Job, NEW ns, NEW m, j.next = 1, j.prev = 0, Listed(j.draft, m),
           Carried(ns, j.draft, j.kind, j.target), Planned(ns, j.draft, 1),
           j.kind \in {"swap", "reroute"} => j.venues # <<>>,
           j.kind = "swap" => HasActivity(ns, j.target)
    PROVE  JobOK(j, ns, m)
  <1>1. j.draft \in Seq(Node) /\ Len(j.draft) \in Nat
    BY DEF Job
  <1>2. Standing(j)
    BY <1>1 DEF Standing
  <1>3. Unclashed(j.draft, 1)
    BY DEF Unclashed, Orderly
  <1>4. Walked(ns, j.draft, 1)
    BY DEF Walked
  <1> QED BY <1>2, <1>3, <1>4 DEF JobOK

\* A draft whose activities are the itinerary's is as planned.
LEMMA PlannedFrom ==
    ASSUME NEW ns, NEW m, Listed(ns, m), NEW d \in Seq(Node),
           \A k \in DOMAIN d : Flexible(d[k]) =>
              \E i \in DOMAIN ns : d[k].id = ns[i].id /\ d[k].start = ns[i].start
    PROVE  Planned(ns, d, 1)
  <1>1. \A i, p \in DOMAIN ns : ns[i].id = ns[p].id => i = p
    BY DEF Listed, Distinct
  <1>2. 1 .. Len(d) = DOMAIN d
    OBVIOUS
  <1> QED BY <1>1, <1>2 DEF Planned

LEMMA PassIsJob ==
    ASSUME NEW kind \in Passes, NEW target \in Nat, NEW draft \in Seq(Node), NEW mutated \in SUBSET Nat
    PROVE  LET j == Pass(kind, target, draft, mutated)
           IN  /\ j \in Job /\ j.next = 1 /\ j.prev = 0 /\ j.draft = draft /\ j.kind = kind
               /\ j.target = target
  <1>1. NoJob \in Job /\ NoJob.next = 1 /\ NoJob.prev = 0
    BY <<>> \in Seq(Node), <<>> \in Seq(Venues) DEF NoJob, Job
  <1> HIDE DEF NoJob
  <1> QED BY <1>1 DEF Pass, Job

\* A job with its candidates, as Attempt makes it.
WithVenuesOf(j, venues, tries) == [j EXCEPT !.venues = venues, !.tries = tries]

LEMMA WithVenues ==
    ASSUME NEW j \in Job, NEW venues \in Seq(Venues), NEW tries \in Nat
    PROVE  LET k == WithVenuesOf(j, venues, tries)
           IN  /\ k \in Job /\ k.next = j.next /\ k.prev = j.prev /\ k.draft = j.draft
               /\ k.kind = j.kind /\ k.target = j.target /\ k.venues = venues
  BY DEF Job, WithVenuesOf

\* Node by node: kept, or an activity in its place at its time.
LEMMA NodeByNode ==
    ASSUME NEW ns, NEW m, Listed(ns, m), NEW d \in Seq(Node), DOMAIN d = DOMAIN ns, NEW kind, NEW target,
           \A i \in DOMAIN ns :
              \/ d[i] = ns[i]
              \/ /\ Flexible(ns[i]) /\ Flexible(d[i]) /\ d[i].id = ns[i].id /\ d[i].start = ns[i].start
                 /\ ns[i].skipped => kind = "swap" /\ target = ns[i].id
    PROVE  Listed(d, m) /\ Carried(ns, d, kind, target) /\ Planned(ns, d, 1)
  <1>1. ns \in Seq(Node) /\ Distinct(ns) /\ Ids(ns) \subseteq 1 .. m
        /\ \A i \in DOMAIN ns : ns[i].skipped => Flexible(ns[i])
    BY DEF Listed
  <1>2. \A i \in DOMAIN ns : d[i].id = ns[i].id /\ (d[i].skipped => Flexible(d[i]))
    BY <1>1
  <1>3. Listed(d, m)
    BY <1>1, <1>2 DEF Listed, Distinct, Ids
  <1>4. ASSUME NEW i \in DOMAIN ns
        PROVE  /\ Locked(ns[i]) => d[i] = ns[i]
               /\ Flexible(ns[i]) => d[i].id = ns[i].id /\ Flexible(d[i]) /\ d[i].start >= ns[i].start
               /\ ns[i].skipped => d[i] = ns[i] \/ (kind = "swap" /\ target = ns[i].id)
    <2>1. ns[i].start \in Int
      BY <1>1, NodeTimes
    <2>2. CASE d[i] = ns[i]
      <3>1. Flexible(ns[i]) => d[i].id = ns[i].id /\ Flexible(d[i]) /\ d[i].start >= ns[i].start
        BY <2>1, <2>2 DEF Flexible
      <3>2. Locked(ns[i]) => d[i] = ns[i]
        BY <2>2
      <3>3. d[i] = ns[i] \/ (kind = "swap" /\ target = ns[i].id)
        BY <2>2
      <3> QED BY <3>1, <3>2, <3>3
    <2>3. CASE d[i] # ns[i]
      <3>1. Flexible(ns[i]) /\ ~Locked(ns[i])
        BY <2>3 DEF Flexible, Locked
      <3> QED BY <2>1, <2>3, <3>1
    <2> QED BY <2>2, <2>3
  <1>5. Carried(ns, d, kind, target)
    BY <1>4 DEF Carried
  <1>6. Planned(ns, d, 1)
    <2>1. \A i \in DOMAIN ns : d[i].id = ns[i].id /\ d[i].start = ns[i].start
      OBVIOUS
    <2> QED BY <2>1, PlannedFrom
  <1> QED BY <1>3, <1>5, <1>6

\* Node by node, in another place: only a booking that is its own target may go.
LEMMA NodesMoved ==
    ASSUME NEW ns \in Seq(Node), NEW d \in Seq(Node), NEW kind, NEW target,
           \A i \in DOMAIN ns :
              \/ \E j \in DOMAIN d : d[j] = ns[i]
              \/ /\ Locked(ns[i]) /\ ~ns[i].skipped
                 /\ kind \in {"edit_booking", "delete_booking"} /\ target = ns[i].id
    PROVE  Carried(ns, d, kind, target)
  <1> SUFFICES ASSUME NEW i \in DOMAIN ns
               PROVE  /\ Locked(ns[i]) =>
                           \/ \E j \in DOMAIN d : d[j] = ns[i]
                           \/ kind \in {"edit_booking", "delete_booking"} /\ target = ns[i].id
                      /\ Flexible(ns[i]) =>
                           \E j \in DOMAIN d : d[j].id = ns[i].id /\ Flexible(d[j]) /\ d[j].start >= ns[i].start
                      /\ ns[i].skipped => \E j \in DOMAIN d : d[j] = ns[i]
    BY DEF Carried
  <1>1. ns[i].start >= ns[i].start
    <2>1. ns[i].start \in Int
      BY NodeTimes
    <2> QED BY <2>1
  <1> QED BY <1>1 DEF Locked, Flexible

LEMMA VenueIsNode ==
    ASSUME NEW n \in Node, NEW v \in Venues, NEW dur \in Nat, NEW slot \in Slots \cup {"none"}
    PROVE  LET f == FromVenue(n, v, dur, slot)
           IN  f \in Node /\ f.id = n.id /\ Flexible(f) /\ f.start = n.start /\ ~f.skipped
  BY RulesAssumption DEF FromVenue, Node, Kinds, Flexible

LEMMA CancelDraft ==
    ASSUME NEW m, Listed(nodes, m), NEW i \in DOMAIN nodes, Flexible(nodes[i])
    PROVE  LET d == [nodes EXCEPT ![i].skipped = TRUE]
           IN  d \in Seq(Node) /\ Listed(d, m) /\ Carried(nodes, d, "cancel", nodes[i].id) /\ Planned(nodes, d, 1)
  <1> DEFINE n == [nodes[i] EXCEPT !.skipped = TRUE]
             d == [nodes EXCEPT ![i] = n]
  <1>1. nodes \in Seq(Node) /\ nodes[i] \in Node
    BY DEF Listed
  <1>2. n \in Node /\ n.id = nodes[i].id /\ n.start = nodes[i].start /\ n.kind = nodes[i].kind
    BY <1>1 DEF Node
  <1>3. nodes[i].skipped => n = nodes[i]
    BY <1>1 DEF Node
  <1> HIDE DEF n
  <1>4. d \in Seq(Node) /\ DOMAIN d = DOMAIN nodes /\ d[i] = n /\ \A k \in DOMAIN nodes \ {i} : d[k] = nodes[k]
    BY <1>1, <1>2
  <1>5. d = [nodes EXCEPT ![i].skipped = TRUE]
    BY <1>1 DEF n
  <1> HIDE DEF d
  <1>6. \A k \in DOMAIN nodes :
          \/ d[k] = nodes[k]
          \/ Flexible(nodes[k]) /\ Flexible(d[k]) /\ d[k].id = nodes[k].id /\ d[k].start = nodes[k].start
             /\ ~nodes[k].skipped
    BY <1>2, <1>3, <1>4 DEF Flexible
  <1>7. Listed(d, m) /\ Carried(nodes, d, "cancel", nodes[i].id) /\ Planned(nodes, d, 1)
    BY <1>4, <1>6, NodeByNode
  <1> QED BY <1>4, <1>5, <1>7

LEMMA SwapDraftHolds ==
    ASSUME NEW m, Listed(nodes, m), NEW i \in DOMAIN nodes, Flexible(nodes[i]), NEW v \in Venues
    PROVE  LET d == SwapDraft(nodes[i].id, v)
           IN  d \in Seq(Node) /\ Listed(d, m) /\ Carried(nodes, d, "swap", nodes[i].id) /\ Planned(nodes, d, 1)
  <1> DEFINE d == SwapDraft(nodes[i].id, v)
             f(k) == FromVenue(nodes[k], v, Catalog[v].dwell, nodes[k].slot)
  <1>1. nodes \in Seq(Node) /\ \A k \in DOMAIN nodes : nodes[k].id = nodes[i].id => k = i
    BY DEF Listed, Distinct
  <1>2. f(i) \in Node /\ f(i).id = nodes[i].id /\ Flexible(f(i)) /\ f(i).start = nodes[i].start
    <2>1. nodes[i] \in Node
      BY <1>1
    <2>2. nodes[i].slot \in Slots \cup {"none"}
      BY <2>1 DEF Node
    <2>3. Catalog[v].dwell \in Nat
      BY RulesAssumption
    <2> QED BY <2>1, <2>2, <2>3, VenueIsNode
  <1> HIDE DEF f
  <1>3. d = [k \in DOMAIN nodes |-> IF nodes[k].id = nodes[i].id THEN f(k) ELSE nodes[k]]
    BY DEF SwapDraft, f
  <1>4. DOMAIN d = DOMAIN nodes /\ d[i] = f(i) /\ \A k \in DOMAIN nodes \ {i} : d[k] = nodes[k]
    BY <1>1, <1>3
  <1>5. d \in Seq(Node)
    <2>1. DOMAIN nodes = 1 .. Len(nodes) /\ Len(nodes) \in Nat
      BY <1>1
    <2>2. \A k \in DOMAIN nodes : d[k] \in Node
      BY <1>1, <1>2, <1>4
    <2>3. d = [k \in 1 .. Len(nodes) |-> d[k]]
      BY <1>3, <2>1
    <2> HIDE DEF d
    <2> QED BY <1>4, <2>1, <2>2, <2>3
  <1> HIDE DEF d
  <1>6. \A k \in DOMAIN nodes :
          \/ d[k] = nodes[k]
          \/ Flexible(nodes[k]) /\ Flexible(d[k]) /\ d[k].id = nodes[k].id /\ d[k].start = nodes[k].start
             /\ nodes[k].id = nodes[i].id
    BY <1>2, <1>4
  <1>7. Listed(d, m) /\ Carried(nodes, d, "swap", nodes[i].id) /\ Planned(nodes, d, 1)
    BY <1>4, <1>5, <1>6, NodeByNode
  <1> QED BY <1>5, <1>7 DEF d

LEMMA RankIsPositive ==
    ASSUME NEW i \in Nat, NEW S \in SUBSET (1 .. i), i \in S
    PROVE  Cardinality(S) \in Nat \ {0}
  <1>1. IsFiniteSet(S) /\ S # {}
    <2>1. IsFiniteSet(1 .. i)
      BY FS_Interval
    <2> QED BY <2>1, FS_Subset
  <1>2. Cardinality(S) \in Nat /\ Cardinality(S) # 0
    BY <1>1, FS_CardinalityType, FS_EmptySet
  <1> QED BY <1>2

LEMMA RerouteDraftHolds ==
    ASSUME NEW m, Listed(nodes, m), NEW venues \in Seq(Venues), NEW target
    PROVE  LET d == RerouteDraft(venues)
           IN  d \in Seq(Node) /\ Listed(d, m) /\ Carried(nodes, d, "reroute", target) /\ Planned(nodes, d, 1)
  <1> DEFINE d == RerouteDraft(venues)
             open(i) == Flexible(nodes[i]) /\ ~nodes[i].skipped
             rank(i) == Cardinality({j \in 1 .. i : open(j)})
             f(i) == FromVenue(nodes[i], venues[rank(i)], nodes[i].dur, "none")
  <1>1. nodes \in Seq(Node) /\ DOMAIN nodes = 1 .. Len(nodes) /\ Len(nodes) \in Nat
    BY DEF Listed
  <1>2. d = [i \in DOMAIN nodes |-> IF open(i) /\ rank(i) <= Len(venues) THEN f(i) ELSE nodes[i]]
    BY DEF RerouteDraft
  <1>3. ASSUME NEW i \in DOMAIN nodes, open(i), rank(i) <= Len(venues)
        PROVE  f(i) \in Node /\ f(i).id = nodes[i].id /\ Flexible(f(i)) /\ f(i).start = nodes[i].start
    <2>1. rank(i) \in Nat \ {0}
      <3> DEFINE S == {j \in 1 .. i : open(j)}
      <3>1. i \in Nat /\ i \in 1 .. i
        BY <1>1
      <3>2. S \in SUBSET (1 .. i) /\ i \in S
        BY <1>3, <3>1
      <3> HIDE DEF S, open
      <3>3. Cardinality(S) \in Nat \ {0}
        BY <3>1, <3>2, RankIsPositive
      <3> QED BY <3>3 DEF S
    <2> HIDE DEF rank
    <2>2. venues[rank(i)] \in Venues
      BY <1>3, <2>1
    <2>3. nodes[i] \in Node
      BY <1>1
    <2>4. nodes[i].dur \in Nat
      BY <2>3, NodeTimes
    <2> QED BY <2>2, <2>3, <2>4, VenueIsNode
  <1> HIDE DEF f, rank
  <1>4. \A i \in DOMAIN nodes :
          /\ d[i] \in Node
          /\ \/ d[i] = nodes[i]
             \/ open(i) /\ d[i].id = nodes[i].id /\ Flexible(d[i]) /\ d[i].start = nodes[i].start
    <2> SUFFICES ASSUME NEW i \in DOMAIN nodes
                 PROVE  /\ d[i] \in Node
                        /\ \/ d[i] = nodes[i]
                           \/ open(i) /\ d[i].id = nodes[i].id /\ Flexible(d[i]) /\ d[i].start = nodes[i].start
      OBVIOUS
    <2>1. CASE open(i) /\ rank(i) <= Len(venues)
      <3>1. d[i] = f(i)
        BY <1>2, <2>1
      <3> HIDE DEF d
      <3> QED BY <1>3, <2>1, <3>1 DEF Flexible
    <2>2. CASE ~(open(i) /\ rank(i) <= Len(venues))
      <3>1. d[i] = nodes[i]
        BY <1>2, <2>2
      <3>2. nodes[i] \in Node
        BY <1>1
      <3>3. d[i] \in Node
        BY <3>1, <3>2
      <3> QED BY <3>1, <3>3
    <2> QED BY <2>1, <2>2
  <1>5. DOMAIN d = DOMAIN nodes /\ d = [i \in 1 .. Len(nodes) |-> d[i]]
    BY <1>1, <1>2
  <1> HIDE DEF d
  <1>6. d \in Seq(Node)
    BY <1>1, <1>4, <1>5
  <1>7. Listed(d, m) /\ Carried(nodes, d, "reroute", target) /\ Planned(nodes, d, 1)
    BY <1>4, <1>5, <1>6, NodeByNode
  <1> QED BY <1>6, <1>7 DEF d

LEMMA OrderingsAreVenues ==
    ASSUME NEW S \in SUBSET Venues, NEW q \in Orderings(S)
    PROVE  q \in Seq(Venues) /\ q # <<>>
  <1>1. PICK k \in 1 .. Cardinality(S) : q \in [1 .. k -> S]
    BY DEF Orderings
  <1>2. k \in Nat /\ k >= 1
    BY <1>1
  <1>3. q \in Seq(S) /\ Len(q) = k
    BY <1>1, <1>2
  <1> QED BY <1>2, <1>3

\* An attempt: the first candidate in place of the target, or all in order.
LEMMA AttemptStarts ==
    ASSUME NEW m, Listed(nodes, m), NEW venues \in Seq(Venues), venues # <<>>, NEW tries \in Nat,
           NEW kind, NEW target \in Nat,
           \/ kind = "reroute"
           \/ kind = "swap" /\ HasActivity(nodes, target)
    PROVE  JobOK(Attempt(kind, target, venues, tries), nodes, m)
  <1> DEFINE d == IF kind = "swap" THEN SwapDraft(target, Head(venues)) ELSE RerouteDraft(venues)
  <1>1. d \in Seq(Node) /\ Listed(d, m) /\ Carried(nodes, d, kind, target) /\ Planned(nodes, d, 1)
    <2>1. Head(venues) \in Venues
      OBVIOUS
    <2> QED BY <2>1, SwapDraftHolds, RerouteDraftHolds DEF HasActivity
  <1>2. Changed(d) \in SUBSET Nat
    <2>1. \A i \in DOMAIN nodes : d[i].id \in Nat
      <3>1. \A i \in DOMAIN nodes : i \in DOMAIN d
        BY DEF SwapDraft, RerouteDraft
      <3> HIDE DEF d
      <3>2. \A i \in DOMAIN d : d[i] \in Node
        BY <1>1
      <3> QED BY <3>1, <3>2 DEF Node
    <2> HIDE DEF d
    <2> QED BY <2>1 DEF Changed
  <1>3. Attempt(kind, target, venues, tries) =
          [Pass(kind, target, d, Changed(d)) EXCEPT !.venues = venues, !.tries = tries]
    BY DEF Attempt
  <1>4. kind \in Passes
    BY DEF Passes
  <1> HIDE DEF d
  <1> DEFINE k == Attempt(kind, target, venues, tries)
  <1>5. k \in Job /\ k.next = 1 /\ k.prev = 0 /\ k.draft = d /\ k.kind = kind /\ k.target = target /\ k.venues = venues
    <2>1. k = [Pass(kind, target, d, Changed(d)) EXCEPT !.venues = venues, !.tries = tries]
      BY <1>3
    <2> DEFINE j == Pass(kind, target, d, Changed(d))
    <2>2. j \in Job /\ j.next = 1 /\ j.prev = 0 /\ j.draft = d /\ j.kind = kind /\ j.target = target
      BY <1>1, <1>2, <1>4, PassIsJob
    <2>3. k = WithVenuesOf(j, venues, tries)
      BY <2>1, Zenon DEF WithVenuesOf
    <2> HIDE DEF j, k
    <2> QED BY <2>2, <2>3, WithVenues
  <1> HIDE DEF k
  <1>6. JobOK(k, nodes, m)
    BY <1>1, <1>5, FreshJob
  <1> QED BY <1>6 DEF k


\* One more node made makes no difference to the others.
LEMMA ListedLonger ==
    ASSUME NEW ns, NEW m \in Nat, Listed(ns, m)
    PROVE  Listed(ns, m + 1)
  BY DEF Listed

LEMMA Inserted ==
    ASSUME NEW ns, NEW m, Listed(ns, m), NEW n \in Node, n.id \in 1 .. m, n.id \notin Ids(ns), ~n.skipped,
           NEW d \in InsertByStart(ns, n)
    PROVE  /\ Listed(d, m) /\ \A i \in DOMAIN ns : \E j \in DOMAIN d : d[j] = ns[i]
           /\ \A k \in DOMAIN d : d[k] = n \/ \E i \in DOMAIN ns : d[k] = ns[i]
  <1>1. ns \in Seq(Node) /\ DOMAIN ns = 1 .. Len(ns) /\ Len(ns) \in Nat
    BY DEF Listed
  <1>2. PICK at \in 1 .. Len(ns) + 1 :
          d = [k \in 1 .. Len(ns) + 1 |-> CASE k < at -> ns[k] [] k = at -> n [] k > at -> ns[k - 1]]
    BY DEF InsertByStart
  <1>3. ASSUME NEW k \in 1 .. Len(ns) + 1
        PROVE  /\ k < at => k \in DOMAIN ns /\ d[k] = ns[k]
               /\ k = at => d[k] = n
               /\ k > at => k - 1 \in DOMAIN ns /\ d[k] = ns[k - 1]
    BY <1>1, <1>2
  <1>4. DOMAIN d = 1 .. Len(ns) + 1 /\ d = [k \in 1 .. Len(ns) + 1 |-> d[k]]
    BY <1>2
  <1>5. \A k \in 1 .. Len(ns) + 1 : d[k] \in Node
    BY <1>1, <1>3
  <1>6. d \in Seq(Node)
    BY <1>1, <1>4, <1>5
  <1>7. \A k \in DOMAIN d : d[k] = n \/ \E i \in DOMAIN ns : d[k] = ns[i]
    BY <1>1, <1>3, <1>4
  <1>8. Ids(d) \subseteq 1 .. m
    BY <1>7 DEF Ids, Listed
  <1>9. \A k \in DOMAIN d : d[k].skipped => Flexible(d[k])
    BY <1>7 DEF Listed
  <1>10. Distinct(d)
    <2> SUFFICES ASSUME NEW j \in DOMAIN d, NEW k \in DOMAIN d, d[j].id = d[k].id, j < k PROVE FALSE
      BY <1>4 DEF Distinct
    <2>1. \A i \in DOMAIN ns : ns[i].id # n.id
      BY DEF Ids
    <2>2. j # at /\ k # at
      BY <1>1, <1>3, <1>4, <2>1
    <2>3. \A a, b \in DOMAIN ns : ns[a].id = ns[b].id => a = b
      BY DEF Listed, Distinct
    <2>4. CASE k < at
      BY <1>1, <1>3, <1>4, <2>3, <2>4
    <2>5. CASE j < at /\ k > at
      BY <1>1, <1>3, <1>4, <2>3, <2>5
    <2>6. CASE j > at
      BY <1>1, <1>3, <1>4, <2>3, <2>6
    <2> QED BY <1>1, <1>4, <2>2, <2>4, <2>5, <2>6
  <1>11. ASSUME NEW i \in DOMAIN ns PROVE \E j \in DOMAIN d : d[j] = ns[i]
    <2>1. CASE i < at
      BY <1>1, <1>3, <1>4, <2>1
    <2>2. CASE ~(i < at)
      <3>1. i + 1 \in 1 .. Len(ns) + 1 /\ i + 1 > at /\ (i + 1) - 1 = i
        BY <1>1, <2>2
      <3>2. d[i + 1] = ns[i]
        BY <1>3, <3>1
      <3> QED BY <1>4, <3>1, <3>2
    <2> QED BY <2>1, <2>2
  <1> QED BY <1>6, <1>7, <1>8, <1>9, <1>10, <1>11 DEF Listed

LEMMA Removed ==
    ASSUME NEW ns, NEW m, Listed(ns, m), NEW i \in DOMAIN ns
    PROVE  LET d == Without(ns, i)
           IN  /\ d \in Seq(Node) /\ Listed(d, m) /\ ns[i].id \notin Ids(d)
               /\ \A k \in DOMAIN ns \ {i} : \E j \in DOMAIN d : d[j] = ns[k]
               /\ \A k \in DOMAIN d : \E l \in DOMAIN ns : d[k] = ns[l]
  <1> DEFINE d == Without(ns, i)
  <1>1. ns \in Seq(Node) /\ DOMAIN ns = 1 .. Len(ns) /\ Len(ns) \in Nat /\ Len(ns) - 1 \in Nat
    BY DEF Listed
  <1>2. d = [k \in 1 .. Len(ns) - 1 |-> IF k < i THEN ns[k] ELSE ns[k + 1]]
    BY DEF Without
  <1> HIDE DEF d
  <1>3. ASSUME NEW k \in 1 .. Len(ns) - 1
        PROVE  /\ k < i => k \in DOMAIN ns /\ d[k] = ns[k]
               /\ ~(k < i) => k + 1 \in DOMAIN ns /\ d[k] = ns[k + 1]
    BY <1>1, <1>2
  <1>4. DOMAIN d = 1 .. Len(ns) - 1 /\ d = [k \in 1 .. Len(ns) - 1 |-> d[k]]
    BY <1>2
  <1>5. \A k \in 1 .. Len(ns) - 1 : d[k] \in Node
    BY <1>1, <1>3
  <1>6. d \in Seq(Node)
    BY <1>1, <1>4, <1>5
  <1>7. \A k \in DOMAIN d : \E l \in DOMAIN ns : d[k] = ns[l] /\ l # i
    <2> SUFFICES ASSUME NEW k \in DOMAIN d PROVE \E l \in DOMAIN ns : d[k] = ns[l] /\ l # i
      OBVIOUS
    <2>1. CASE k < i
      BY <1>1, <1>3, <1>4, <2>1
    <2>2. CASE ~(k < i)
      <3>1. k + 1 # i
        BY <1>1, <1>4, <2>2
      <3> QED BY <1>3, <1>4, <2>2, <3>1
    <2> QED BY <2>1, <2>2
  <1>8. \A a, b \in DOMAIN ns : ns[a].id = ns[b].id => a = b
    BY DEF Listed, Distinct
  <1>9. Ids(d) \subseteq 1 .. m /\ ns[i].id \notin Ids(d)
    BY <1>7, <1>8 DEF Ids, Listed
  <1>10. \A k \in DOMAIN d : d[k].skipped => Flexible(d[k])
    BY <1>7 DEF Listed
  <1>11. Distinct(d)
    <2> SUFFICES ASSUME NEW j \in DOMAIN d, NEW k \in DOMAIN d, d[j].id = d[k].id, j < k PROVE FALSE
      BY <1>1, <1>4 DEF Distinct
    <2>1. CASE k < i
      BY <1>1, <1>3, <1>4, <1>8, <2>1
    <2>2. CASE j < i /\ ~(k < i)
      BY <1>1, <1>3, <1>4, <1>8, <2>2
    <2>3. CASE ~(j < i)
      BY <1>1, <1>3, <1>4, <1>8, <2>3
    <2> QED BY <1>1, <1>4, <2>1, <2>2, <2>3
  <1>12. ASSUME NEW k \in DOMAIN ns \ {i} PROVE \E j \in DOMAIN d : d[j] = ns[k]
    <2>1. CASE k < i
      BY <1>1, <1>3, <1>4, <2>1
    <2>2. CASE k > i
      <3>1. k - 1 \in 1 .. Len(ns) - 1 /\ ~(k - 1 < i) /\ (k - 1) + 1 = k
        BY <1>1, <2>2
      <3>2. d[k - 1] = ns[k]
        BY <1>3, <3>1
      <3> QED BY <1>4, <3>1, <3>2
    <2> QED BY <1>1, <2>1, <2>2
  <1>13. Listed(d, m)
    BY <1>6, <1>9, <1>10, <1>11 DEF Listed
  <1> QED BY <1>6, <1>7, <1>9, <1>12, <1>13 DEF d

LEMMA Sorted ==
    ASSUME NEW ns, NEW m, Listed(ns, m), NEW d \in SortedByStart(ns)
    PROVE  Listed(d, m) /\ \A i \in DOMAIN ns : \E j \in DOMAIN d : d[j] = ns[i]
  <1>1. ns \in Seq(Node) /\ DOMAIN ns = 1 .. Len(ns) /\ Len(ns) \in Nat
    BY DEF Listed
  <1>2. PICK f \in [DOMAIN ns -> DOMAIN ns] :
          /\ \A i \in DOMAIN ns : \E k \in DOMAIN ns : \A j \in DOMAIN ns : f[j] = i <=> j = k
          /\ d = [k \in DOMAIN ns |-> ns[f[k]]]
    BY DEF SortedByStart
  <1>3. DOMAIN d = DOMAIN ns /\ \A k \in DOMAIN ns : f[k] \in DOMAIN ns /\ d[k] = ns[f[k]]
    BY <1>2
  <1>4. \A i \in DOMAIN ns : \E k \in DOMAIN ns : f[k] = i
    BY <1>2
  <1>5. \A j, k \in DOMAIN ns : f[j] = f[k] => j = k
    BY <1>2
  <1>6. d = [k \in 1 .. Len(ns) |-> d[k]] /\ \A k \in 1 .. Len(ns) : d[k] \in Node
    BY <1>1, <1>2, <1>3
  <1>7. d \in Seq(Node)
    BY <1>1, <1>6
  <1>8. Ids(d) \subseteq 1 .. m /\ \A k \in DOMAIN d : d[k].skipped => Flexible(d[k])
    BY <1>3 DEF Listed, Ids
  <1>9. Distinct(d)
    BY <1>3, <1>5 DEF Listed, Distinct
  <1> QED BY <1>3, <1>4, <1>7, <1>8, <1>9 DEF Listed


-----------------------------------------------------------------------------
(* The nodes that events make, and when they start *)

LEMMA CityIsRegion == ASSUME NEW d \in DOMAIN City PROVE City[d] \in Regions /\ d \in Nat
  <1> DEFINE D == 0 .. Cardinality(DOMAIN City) - 1
  <1>1. City \in [D -> Regions] /\ DOMAIN City \subseteq Nat
    BY ItineraryAssumption
  <1> HIDE DEF D
  <1> QED BY <1>1

LEMMA BookingRegionIsRegion ==
    ASSUME NEW region \in Regions \cup {"none"}, NEW wall, NEW r \in BookingRegion(region, wall)
    PROVE  r \in Regions
  <1>1. CASE ~Corridor
    BY <1>1, ItineraryAssumption DEF BookingRegion
  <1>2. CASE Corridor /\ region # "none"
    BY <1>2 DEF BookingRegion
  <1>3. CASE Corridor /\ region = "none"
    BY <1>3, CityIsRegion DEF BookingRegion
  <1> QED BY <1>1, <1>2, <1>3, ItineraryAssumption

LEMMA BookingFields ==
    ASSUME NEW b \in Bookings
    PROVE  /\ b.kind \in Kinds /\ b.kind # "activity" /\ b.wall \in Nat /\ b.dur \in Nat
           /\ b.region \in Regions \cup {"none"} /\ b.place \in Places \cup {NoPlace}
  BY ItineraryAssumption

LEMMA ClockIsInt == ASSUME NEW t \in Int, NEW r \in Regions PROVE t - Offset[r] \in Int
  BY RulesAssumption

LEMMA BookingIsNode ==
    ASSUME NEW b \in Bookings, NEW r \in Regions, NEW id \in Nat
    PROVE  LET n == [id |-> id, kind |-> b.kind, skipped |-> FALSE, start |-> b.wall - Offset[r],
                     dur |-> b.dur, region |-> r, place |-> b.place, venue |-> NoVenue, slot |-> "none"]
           IN  n \in Node /\ n.id = id /\ ~n.skipped /\ ~Flexible(n)
  <1>1. b.wall - Offset[r] \in Int
    BY BookingFields, ClockIsInt
  <1> QED BY <1>1, BookingFields DEF Node, Flexible

LEMMA PatchedIsNode ==
    ASSUME NEW n \in Node, Locked(n), NEW b \in Bookings, NEW F, NEW r \in Regions
    PROVE  LET e == Patched(n, b, F, r)
           IN  e \in Node /\ e.id = n.id /\ e.skipped = n.skipped /\ Locked(e) /\ ~Flexible(e)
  <1> DEFINE kind == IF "kind" \in F THEN b.kind ELSE n.kind
             dur == IF "dur" \in F THEN b.dur ELSE n.dur
             start == IF "wall" \in F THEN b.wall - Offset[r] ELSE n.start
             moved == "name" \in F \/ r # n.region
             place == CASE moved -> IF kind = "hotel" THEN b.place ELSE NoPlace
                        [] ~moved /\ "place" \in F -> b.place
                        [] OTHER -> n.place
  <1>1. kind \in Kinds /\ kind # "activity"
    BY BookingFields DEF Locked, Node
  <1>2. dur \in Nat /\ start \in Int
    BY BookingFields, ClockIsInt, NodeTimes
  <1>3. place \in Places \cup {NoPlace}
    BY BookingFields, NodeTimes
  <1>4. Patched(n, b, F, r) =
          [n EXCEPT !.kind = kind, !.dur = dur, !.start = start, !.region = r, !.place = place]
    BY Zenon DEF Patched
  <1> HIDE DEF kind, dur, start, place
  <1> QED BY <1>1, <1>2, <1>3, <1>4 DEF Node, Locked, Flexible

LEMMA ActivityIsNode ==
    ASSUME made \in Nat, NEW t \in Int, NEW dur \in Nat, NEW r \in Regions, NEW p \in Places \cup {NoPlace},
           NEW v \in Venues \cup {NoVenue}, NEW s \in Slots \cup {"none"}
    PROVE  LET n == NewActivity(t, dur, r, p, v, s)
           IN  n \in Node /\ n.id = made + 1 /\ ~n.skipped
  BY DEF NewActivity, Node, Kinds

LEMMA OpenStartsAreInts ==
    ASSUME NEW h \in (SUBSET Window) \cup {NoHours}, NEW cursor \in Int, NEW dur, NEW r \in Regions,
           NEW d \in Nat, NEW t \in OpenStarts(h, cursor, dur, r, d)
    PROVE  t \in Int
  <1> DEFINE midnight == Instant(d, 0, r)
             At(u) == IF cursor > u THEN cursor ELSE u
  <1>1. midnight \in Int
    BY InstantIsInt
  <1> HIDE DEF midnight
  <1>2. \/ t = At(midnight)
        \/ h # NoHours /\ t \in {At(midnight + w.open) : w \in h}
    BY DEF OpenStarts, midnight
  <1>3. \A u \in Int : At(u) \in Int
    OBVIOUS
  <1>4. ASSUME h # NoHours, NEW w \in h PROVE midnight + w.open \in Int
    BY <1>1, <1>4 DEF Window
  <1> HIDE DEF At
  <1> QED BY <1>1, <1>2, <1>3, <1>4

LEMMA FloorIsInt == ASSUME NEW s \in Slots PROVE SlotFloor[s] \in Int
  BY DayIsPositive DEF SlotFloor, Slots

LEMMA StartsAreInts ==
    ASSUME nodes \in Seq(Node), NEW prev \in SUBSET DOMAIN nodes, NEW p \in Places \cup {NoPlace}, NEW dur,
           NEW h \in (SUBSET Window) \cup {NoHours}, NEW r \in Regions, NEW d \in Nat, NEW s \in Slots,
           NEW t \in StartsAfter(prev, p, dur, h, r, d, s)
    PROVE  t \in Int
  <1> DEFINE ends == {End(nodes[j]) + WalkOrNone(nodes[j].place, p) : j \in prev}
  <1>1. ends \in SUBSET Int
    <2>1. ASSUME NEW j \in prev PROVE End(nodes[j]) + WalkOrNone(nodes[j].place, p) \in Int
      <3>1. End(nodes[j]) \in Int /\ nodes[j].place \in Places \cup {NoPlace}
        BY NodeTimes
      <3>2. WalkOrNone(nodes[j].place, p) \in Nat
        BY <3>1, WalkIsNat
      <3> QED BY <3>1, <3>2
    <2> QED BY <2>1
  <1>2. Instant(d, SlotFloor[s], r) \in Int
    BY FloorIsInt, InstantIsInt
  <1> HIDE DEF ends
  <1>3. PICK c \in PushedTo(Instant(d, SlotFloor[s], r), ends) : t \in OpenStarts(h, c, dur, r, d)
    BY DEF StartsAfter, Earliest, ends
  <1>4. c \in Int
    BY <1>1, <1>2, <1>3, PushedIsLatest
  <1> QED BY <1>3, <1>4, OpenStartsAreInts

LEMMA HoursAreWindows ==
    /\ NoHours \in (SUBSET Window) \cup {NoHours}
    /\ \A v \in Venues \cup {NoVenue} : HoursOf(v) \in (SUBSET Window) \cup {NoHours}
  BY RulesAssumption DEF HoursOf

LEMMA MoveStartIsInt ==
    ASSUME nodes \in Seq(Node), NEW i \in DOMAIN nodes, NEW d \in DOMAIN City, NEW s \in Slots,
           NEW t \in MoveStart(i, d, s)
    PROVE  t \in Int
  <1> DEFINE stops == DayStops(nodes[i].region, d) \ {i}
             prev == StopAt(stops, Instant(d, SlotFloor[s], nodes[i].region))
             n == nodes[i]
  <1>1. prev \in SUBSET DOMAIN nodes
    BY DEF DayStops, Stops, StopAt, Latest
  <1>2. n.region \in Regions /\ n.place \in Places \cup {NoPlace} /\ n.venue \in Venues \cup {NoVenue}
    <2>1. n \in Node
      OBVIOUS
    <2> HIDE DEF n
    <2> QED BY <2>1 DEF Node
  <1>3. t \in StartsAfter(prev, n.place, n.dur, HoursOf(n.venue), n.region, d, s)
    BY DEF MoveStart
  <1> HIDE DEF prev, n
  <1> QED BY <1>1, <1>2, <1>3, CityIsRegion, HoursAreWindows, StartsAreInts

LEMMA AddStartIsInt ==
    ASSUME nodes \in Seq(Node), NEW p \in Places \cup {NoPlace}, NEW dur,
           NEW h \in (SUBSET Window) \cup {NoHours}, NEW d \in DOMAIN City, NEW s \in Slots,
           NEW t \in AddStart(p, dur, h, City[d], d, s)
    PROVE  t \in Int
  <1> DEFINE prev == StopAt(DayStops(City[d], d), Instant(d, SlotFloor[s], City[d]))
  <1>1. prev \in SUBSET DOMAIN nodes
    BY DEF DayStops, Stops, StopAt, Latest
  <1>2. t \in StartsAfter(prev, p, dur, h, City[d], d, s)
    BY DEF AddStart
  <1> HIDE DEF prev
  <1> QED BY <1>1, <1>2, CityIsRegion, StartsAreInts


-----------------------------------------------------------------------------
(* What each event makes of the itinerary *)

Kept(ns, d) == \A i \in DOMAIN ns : \E j \in DOMAIN d : d[j] = ns[i]

LEMMA Appended ==
    ASSUME NEW ns, NEW m \in Nat, Listed(ns, m), NEW n \in Node, n.id = m + 1, ~n.skipped
    PROVE  Listed(Append(ns, n), m + 1) /\ Kept(ns, Append(ns, n))
  <1> DEFINE d == Append(ns, n)
  <1>1. ns \in Seq(Node) /\ DOMAIN ns = 1 .. Len(ns) /\ Len(ns) \in Nat
    BY DEF Listed
  <1>2. /\ d \in Seq(Node) /\ DOMAIN d = DOMAIN ns \cup {Len(ns) + 1} /\ d[Len(ns) + 1] = n
        /\ \A k \in DOMAIN ns : d[k] = ns[k]
    BY <1>1
  <1> HIDE DEF d
  <1>3. \A k \in DOMAIN ns : ns[k].id \in 1 .. m
    BY DEF Listed, Ids
  <1>4. Ids(d) \subseteq 1 .. m + 1
    BY <1>2, <1>3 DEF Ids
  <1>5. \A j, k \in DOMAIN ns : ns[j].id = ns[k].id => j = k
    BY DEF Listed, Distinct
  <1>6. \A k \in DOMAIN ns : ns[k].id # n.id
    BY <1>3
  <1>7. Distinct(d)
    BY <1>2, <1>5, <1>6 DEF Distinct
  <1>8. \A k \in DOMAIN d : d[k].skipped => Flexible(d[k])
    BY <1>2 DEF Listed
  <1> QED BY <1>2, <1>4, <1>7, <1>8 DEF Listed, Kept, d

LEMMA AppendedAndSorted ==
    ASSUME NEW ns, NEW m \in Nat, Listed(ns, m), NEW n \in Node, n.id = m + 1, ~n.skipped,
           NEW d \in SortedByStart(Append(ns, n))
    PROVE  Listed(d, m + 1) /\ Kept(ns, d)
  <1> DEFINE a == Append(ns, n)
  <1>1. Listed(a, m + 1) /\ Kept(ns, a)
    BY Appended
  <1> HIDE DEF a
  <1>2. Listed(d, m + 1) /\ Kept(a, d)
    <2>1. d \in SortedByStart(a)
      BY DEF a
    <2> QED BY <1>1, <2>1, Sorted DEF Kept
  <1> QED BY <1>1, <1>2 DEF Kept

Adding == DirectAdd \/ UncataloguedAdd \/ AskToAdd

LEMMA AddingHolds ==
    ASSUME ItineraryInv, Adding
    PROVE  Listed(nodes', made + 1) /\ Kept(nodes, nodes') /\ made' = made + 1 /\ UNCHANGED job
  <1>1. made \in Nat /\ Listed(nodes, made) /\ nodes \in Seq(Node)
    BY DEF ItineraryInv, Listed
  <1>2. CASE DirectAdd
    <2>1. PICK v \in Venues, d \in DOMAIN City : \E s \in SlotOf(Catalog[v].food) :
            \E t \in AddStart(Catalog[v].place, Catalog[v].dwell, Catalog[v].hours, City[d], d, s) :
               nodes' \in SortedByStart(Append(nodes,
                            NewActivity(t, Catalog[v].dwell, City[d], Catalog[v].place, v, s)))
      BY <1>2 DEF DirectAdd
    <2>2. PICK s \in SlotOf(Catalog[v].food) :
            \E t \in AddStart(Catalog[v].place, Catalog[v].dwell, Catalog[v].hours, City[d], d, s) :
               nodes' \in SortedByStart(Append(nodes,
                            NewActivity(t, Catalog[v].dwell, City[d], Catalog[v].place, v, s)))
      BY <2>1
    <2>8. PICK t \in AddStart(Catalog[v].place, Catalog[v].dwell, Catalog[v].hours, City[d], d, s) :
            nodes' \in SortedByStart(Append(nodes,
                            NewActivity(t, Catalog[v].dwell, City[d], Catalog[v].place, v, s)))
      BY <2>2
    <2>3. /\ Catalog[v].place \in Places \cup {NoPlace} /\ Catalog[v].dwell \in Nat
          /\ Catalog[v].hours \in (SUBSET Window) \cup {NoHours} /\ s \in Slots
      BY RulesAssumption DEF SlotOf, Slots
    <2>4. t \in Int
      BY <1>1, <2>3, AddStartIsInt
    <2> DEFINE n == NewActivity(t, Catalog[v].dwell, City[d], Catalog[v].place, v, s)
    <2>5. n \in Node /\ n.id = made + 1 /\ ~n.skipped
      BY <1>1, <2>3, <2>4, CityIsRegion, ActivityIsNode
    <2>6. nodes' \in SortedByStart(Append(nodes, n))
      BY <2>8
    <2> HIDE DEF n
    <2>7. Listed(nodes', made + 1) /\ Kept(nodes, nodes')
      BY <1>1, <2>5, <2>6, AppendedAndSorted
    <2> QED BY <1>2, <2>7 DEF DirectAdd
  <1>3. CASE UncataloguedAdd
    <2>1. PICK p \in Places \cup {NoPlace}, dur \in Dwells, d \in DOMAIN City, s \in Slots :
            \E t \in AddStart(p, dur, NoHours, City[d], d, s) :
               nodes' \in SortedByStart(Append(nodes, NewActivity(t, dur, City[d], p, NoVenue, s)))
      BY <1>3 DEF UncataloguedAdd
    <2>2. PICK t \in AddStart(p, dur, NoHours, City[d], d, s) :
            nodes' \in SortedByStart(Append(nodes, NewActivity(t, dur, City[d], p, NoVenue, s)))
      BY <2>1
    <2>3. t \in Int /\ dur \in Nat
      BY <1>1, HoursAreWindows, AddStartIsInt, ItineraryAssumption
    <2> DEFINE n == NewActivity(t, dur, City[d], p, NoVenue, s)
    <2>5. n \in Node /\ n.id = made + 1 /\ ~n.skipped
      BY <1>1, <2>3, CityIsRegion, ActivityIsNode
    <2>6. nodes' \in SortedByStart(Append(nodes, n))
      BY <2>2
    <2> HIDE DEF n
    <2>7. Listed(nodes', made + 1) /\ Kept(nodes, nodes')
      BY <1>1, <2>5, <2>6, AppendedAndSorted
    <2> QED BY <1>3, <2>7 DEF UncataloguedAdd
  <1>4. CASE AskToAdd
    <2> DEFINE ends == {End(nodes[j]) : j \in DOMAIN nodes}
    <2>0. PICK v \in Venues, now \in Nows : \E t \in Nows \cup PushedTo(now, ends) :
            nodes' = Append(nodes, NewActivity(t, Catalog[v].dwell, Catalog[v].region, Catalog[v].place, v, "none"))
      BY <1>4 DEF AskToAdd
    <2>1. PICK t \in Nows \cup PushedTo(now, ends) :
            nodes' = Append(nodes, NewActivity(t, Catalog[v].dwell, Catalog[v].region, Catalog[v].place, v, "none"))
      BY <2>0
    <2>2. /\ Catalog[v].place \in Places \cup {NoPlace} /\ Catalog[v].dwell \in Nat
          /\ Catalog[v].region \in Regions
      BY RulesAssumption
    <2>3. t \in Int
      <3>1. Nows \in SUBSET Int
        BY ItineraryAssumption
      <3>2. ends \in SUBSET Int
        BY <1>1, NodeTimes
      <3> HIDE DEF ends
      <3> QED BY <3>1, <3>2, PushedIsLatest
    <2> DEFINE n == NewActivity(t, Catalog[v].dwell, Catalog[v].region, Catalog[v].place, v, "none")
    <2>5. n \in Node /\ n.id = made + 1 /\ ~n.skipped
      BY <1>1, <2>2, <2>3, ActivityIsNode
    <2>6. nodes' = Append(nodes, n)
      BY <2>1
    <2> HIDE DEF n
    <2>7. Listed(nodes', made + 1) /\ Kept(nodes, nodes')
      BY <1>1, <2>5, <2>6, Appended
    <2> QED BY <1>4, <2>7 DEF AskToAdd
  <1> QED BY <1>2, <1>3, <1>4 DEF Adding

\* A move: activity i stays on the list, all others stay as they are.
LEMMA MoveHolds ==
    ASSUME ItineraryInv, Move
    PROVE  /\ Listed(nodes', made)
           /\ \E i \in DOMAIN nodes :
                /\ Flexible(nodes[i]) /\ ~nodes[i].skipped
                /\ \E j \in DOMAIN nodes' : nodes'[j].id = nodes[i].id /\ Flexible(nodes'[j])
                /\ \A k \in DOMAIN nodes \ {i} : \E j \in DOMAIN nodes' : nodes'[j] = nodes[k]
  <1>1. Listed(nodes, made) /\ nodes \in Seq(Node)
    BY DEF ItineraryInv, Listed
  <1>12. PICK i \in DOMAIN nodes, d \in DOMAIN City : \E s \in SlotsFor(nodes[i]) :
          /\ Flexible(nodes[i]) /\ ~nodes[i].skipped
          /\ \E t \in MoveStart(i, d, s) :
                nodes' \in SortedByStart([nodes EXCEPT ![i].start = t, ![i].slot = s])
    BY DEF Move
  <1>2. PICK s \in SlotsFor(nodes[i]) :
          /\ Flexible(nodes[i]) /\ ~nodes[i].skipped
          /\ \E t \in MoveStart(i, d, s) :
                nodes' \in SortedByStart([nodes EXCEPT ![i].start = t, ![i].slot = s])
    BY <1>12
  <1>3. PICK t \in MoveStart(i, d, s) :
          nodes' \in SortedByStart([nodes EXCEPT ![i].start = t, ![i].slot = s])
    BY <1>2
  <1>4. s \in Slots
    BY DEF SlotsFor, SlotOf, Slots
  <1>5. t \in Int
    BY <1>1, <1>4, MoveStartIsInt
  <1> DEFINE n == [nodes[i] EXCEPT !.start = t, !.slot = s]
             ns == [nodes EXCEPT ![i] = n]
  <1>6. n \in Node /\ n.id = nodes[i].id /\ n.kind = nodes[i].kind /\ n.skipped = nodes[i].skipped
    <2>1. nodes[i] \in Node
      BY <1>1
    <2> QED BY <1>4, <1>5, <2>1 DEF Node
  <1>7. nodes' \in SortedByStart(ns)
    <2>1. [nodes EXCEPT ![i].start = t, ![i].slot = s] = ns
      BY <1>1
    <2> QED BY <1>3, <2>1
  <1> HIDE DEF n
  <1>8. ns \in Seq(Node) /\ DOMAIN ns = DOMAIN nodes /\ ns[i] = n /\ \A k \in DOMAIN nodes \ {i} : ns[k] = nodes[k]
    BY <1>1, <1>6
  <1> HIDE DEF ns
  <1>9. Listed(ns, made)
    <2>1. \A k \in DOMAIN nodes : ns[k].id = nodes[k].id /\ ~(ns[k].skipped /\ ~Flexible(ns[k]))
      BY <1>1, <1>2, <1>6, <1>8 DEF Listed
    <2> QED BY <1>1, <1>8, <2>1 DEF Listed, Distinct, Ids
  <1>10. Listed(nodes', made) /\ \A k \in DOMAIN ns : \E j \in DOMAIN nodes' : nodes'[j] = ns[k]
    BY <1>7, <1>9, Sorted
  <1>11. \E j \in DOMAIN nodes' : nodes'[j].id = nodes[i].id /\ Flexible(nodes'[j])
    BY <1>2, <1>6, <1>8, <1>10 DEF Flexible
  <1> QED BY <1>2, <1>8, <1>10, <1>11

\* An edit that leaves time, length and city alone touches its booking only.
LEMMA EditHolds ==
    ASSUME ItineraryInv, EditBooking
    PROVE  \/ UNCHANGED nodes /\ made' = made /\ JobOK(job', nodes, made)
           \/ /\ Listed(nodes', made) /\ UNCHANGED <<made, job>>
              /\ \E i \in DOMAIN nodes : /\ Locked(nodes[i]) /\ DOMAIN nodes' = DOMAIN nodes
                                         /\ \A k \in DOMAIN nodes \ {i} : nodes'[k] = nodes[k]
  <1>1. Listed(nodes, made) /\ nodes \in Seq(Node)
    BY DEF ItineraryInv, Listed
  <1>2. PICK i \in DOMAIN nodes, b \in Bookings, F \in Edits :
          \E r \in EditedRegion(nodes[i], b, F) :
            LET n == Patched(nodes[i], b, F, r)
            IN  /\ Locked(nodes[i])
                /\ \/ /\ Reschedules(n, nodes[i])
                      /\ \E draft \in InsertByStart(Without(nodes, i), n) :
                            job' = Pass("edit_booking", n.id, draft, {n.id})
                      /\ UNCHANGED nodes
                   \/ /\ ~Reschedules(n, nodes[i])
                      /\ nodes' = [nodes EXCEPT ![i] = n]
                      /\ UNCHANGED job
    BY DEF EditBooking
  <1>3. PICK r \in EditedRegion(nodes[i], b, F) :
            LET n == Patched(nodes[i], b, F, r)
            IN  /\ Locked(nodes[i])
                /\ \/ /\ Reschedules(n, nodes[i])
                      /\ \E draft \in InsertByStart(Without(nodes, i), n) :
                            job' = Pass("edit_booking", n.id, draft, {n.id})
                      /\ UNCHANGED nodes
                   \/ /\ ~Reschedules(n, nodes[i])
                      /\ nodes' = [nodes EXCEPT ![i] = n]
                      /\ UNCHANGED job
    BY <1>2
  <1> DEFINE n == Patched(nodes[i], b, F, r)
  <1>4. Locked(nodes[i]) /\ ~Flexible(nodes[i]) /\ ~nodes[i].skipped /\ nodes[i] \in Node
    BY <1>1, <1>3 DEF Listed, Locked, Flexible
  <1>5. r \in Regions
    <2>1. nodes[i].region \in Regions /\ TripRegions \subseteq Regions
      BY <1>4, NodeTimes, CityIsRegion DEF TripRegions
    <2> QED BY <1>3, <2>1 DEF EditedRegion
  <1>6. n \in Node /\ n.id = nodes[i].id /\ ~n.skipped /\ n.id \in 1 .. made /\ n.id \in Nat /\ ~Flexible(n)
    <2>1. n \in Node /\ n.id = nodes[i].id /\ n.skipped = nodes[i].skipped /\ ~Flexible(n)
      BY <1>4, <1>5, PatchedIsNode
    <2> HIDE DEF n
    <2> QED BY <1>1, <1>4, <2>1 DEF Listed, Ids
  <1>7. made' = made
    BY DEF EditBooking
  <1>8. \/ /\ \E draft \in InsertByStart(Without(nodes, i), n) :
                            job' = Pass("edit_booking", n.id, draft, {n.id})
           /\ UNCHANGED nodes
        \/ nodes' = [nodes EXCEPT ![i] = n] /\ UNCHANGED job
    BY <1>3
  <1> HIDE DEF n
  <1>9. ASSUME NEW draft \in InsertByStart(Without(nodes, i), n),
               job' = Pass("edit_booking", n.id, draft, {n.id}), UNCHANGED nodes
        PROVE  JobOK(job', nodes, made)
    <2> DEFINE w == Without(nodes, i)
    <2>1. /\ Listed(w, made) /\ n.id \notin Ids(w)
          /\ \A k \in DOMAIN nodes \ {i} : \E j \in DOMAIN w : w[j] = nodes[k]
          /\ \A k \in DOMAIN w : \E l \in DOMAIN nodes : w[k] = nodes[l]
      BY <1>1, <1>6, Removed
    <2>2. draft \in InsertByStart(w, n)
      OBVIOUS
    <2> HIDE DEF w
    <2>3. /\ Listed(draft, made) /\ \A k \in DOMAIN w : \E j \in DOMAIN draft : draft[j] = w[k]
          /\ \A k \in DOMAIN draft : draft[k] = n \/ \E l \in DOMAIN w : draft[k] = w[l]
      BY <1>6, <2>1, <2>2, Inserted
    <2>4. \A k \in DOMAIN nodes :
              \/ \E j \in DOMAIN draft : draft[j] = nodes[k]
              \/ /\ Locked(nodes[k]) /\ ~nodes[k].skipped
                 /\ "edit_booking" \in {"edit_booking", "delete_booking"} /\ n.id = nodes[k].id
      BY <1>4, <1>6, <2>1, <2>3
    <2>5. draft \in Seq(Node)
      BY <2>3 DEF Listed
    <2>6. Carried(nodes, draft, "edit_booking", n.id)
      BY <1>1, <2>4, <2>5, NodesMoved
    <2>7. /\ job' \in Job /\ job'.next = 1 /\ job'.prev = 0 /\ job'.draft = draft
          /\ job'.kind = "edit_booking" /\ job'.target = n.id
      BY <1>6, <1>9, <2>5, PassIsJob DEF Passes
    <2>8. Planned(nodes, draft, 1)
      <3>1. \A k \in DOMAIN draft : draft[k] = n \/ \E l \in DOMAIN nodes : draft[k] = nodes[l]
        BY <2>1, <2>3
      <3> QED BY <1>1, <1>6, <2>5, <3>1, PlannedFrom
    <2> QED BY <2>3, <2>6, <2>7, <2>8, FreshJob
  <1>10. ASSUME nodes' = [nodes EXCEPT ![i] = n]
         PROVE  /\ Listed(nodes', made) /\ DOMAIN nodes' = DOMAIN nodes
                /\ \A k \in DOMAIN nodes \ {i} : nodes'[k] = nodes[k]
    <2> DEFINE d == [nodes EXCEPT ![i] = n]
    <2>1. d \in Seq(Node) /\ DOMAIN d = DOMAIN nodes /\ d[i] = n /\ \A k \in DOMAIN nodes \ {i} : d[k] = nodes[k]
      BY <1>1, <1>6
    <2> HIDE DEF d
    <2>2. \A k \in DOMAIN nodes : d[k].id = nodes[k].id /\ (d[k].skipped => Flexible(d[k]))
      BY <1>1, <1>6, <2>1 DEF Listed
    <2>3. Listed(d, made)
      BY <1>1, <2>1, <2>2 DEF Listed, Distinct, Ids
    <2> QED BY <1>10, <2>1, <2>3 DEF d
  <1> QED BY <1>4, <1>7, <1>8, <1>9, <1>10


-----------------------------------------------------------------------------
(* The inductive invariant *)

LEMMA NoJobHolds == ASSUME NEW ns, NEW m PROVE JobOK(NoJob, ns, m)
  <1>1. NoJob \in Job /\ NoJob.draft = <<>> /\ NoJob.next = 1 /\ NoJob.prev = 0 /\ NoJob.kind = "none"
    BY <<>> \in Seq(Node), <<>> \in Seq(Venues) DEF NoJob, Job
  <1> HIDE DEF NoJob
  <1>2. Listed(NoJob.draft, m)
    BY <1>1 DEF Listed, Distinct, Ids
  <1>3. Standing(NoJob)
    BY <1>1 DEF Standing
  <1>4. Unclashed(NoJob.draft, NoJob.next)
    BY <1>1 DEF Unclashed, Orderly
  <1> QED BY <1>1, <1>2, <1>3, <1>4 DEF JobOK

LEMMA NodeIds == ASSUME NEW ns \in Seq(Node), NEW i \in DOMAIN ns PROVE ns[i].id \in Nat
  <1>1. ns[i] \in Node
    OBVIOUS
  <1> QED BY <1>1 DEF Node

\* While no event is under way, nothing ties the job to the nodes.
LEMMA IdleJobHolds ==
    ASSUME NEW m \in Nat, JobOK(job, nodes, m), Idle, NEW ns
    PROVE  JobOK(job, ns, m) /\ JobOK(job, ns, m + 1)
  BY ListedLonger DEF JobOK, Idle

LEMMA ItineraryInit == Init => ItineraryInv
  <1> SUFFICES ASSUME Init PROVE ItineraryInv
    OBVIOUS
  <1>1. /\ nodes \in Seq(Node) /\ made = Len(nodes) /\ made \in Nat /\ events = 0 /\ job = NoJob
        /\ \A i \in DOMAIN nodes : nodes[i].id = i /\ ~nodes[i].skipped
    BY ItineraryAssumption DEF Init
  <1>2. Listed(nodes, made)
    BY <1>1 DEF Listed, Distinct, Ids
  <1>3. JobOK(job, nodes, made)
    BY <1>1, NoJobHolds
  <1>4. events \in 0 .. MaxEvents
    BY <1>1, ItineraryAssumption
  <1> QED BY <1>1, <1>2, <1>3, <1>4 DEF ItineraryInv

LEMMA EventCounts == ASSUME ItineraryInv, Event PROVE events' \in 0 .. MaxEvents /\ Idle
  BY ItineraryAssumption DEF ItineraryInv, Event

\* A cancellation, an added booking and a deleted one begin a pass.
LEMMA PassBegins ==
    ASSUME ItineraryInv, Cancel \/ AddBooking \/ DeleteBooking
    PROVE  JobOK(job', nodes, made') /\ made' \in Nat
  <1>1. Listed(nodes, made) /\ nodes \in Seq(Node) /\ made \in Nat
    BY DEF ItineraryInv, Listed
  <1>2. \A i \in DOMAIN nodes : nodes[i].id \in Nat
    BY <1>1, NodeIds
  <1>3. CASE Cancel
    <2>0. made' = made /\ "cancel" \in Passes
      BY <1>3 DEF Cancel, Passes
    <2>1. ASSUME NEW i \in DOMAIN nodes, Flexible(nodes[i]),
                 job' = Pass("cancel", nodes[i].id, [nodes EXCEPT ![i].skipped = TRUE], {nodes[i].id})
          PROVE  JobOK(job', nodes, made)
      <3> DEFINE d == [nodes EXCEPT ![i].skipped = TRUE]
      <3>1. d \in Seq(Node) /\ Listed(d, made) /\ Carried(nodes, d, "cancel", nodes[i].id) /\ Planned(nodes, d, 1)
        BY <1>1, <2>1, CancelDraft
      <3>2. job' = Pass("cancel", nodes[i].id, d, {nodes[i].id})
        BY <2>1
      <3> HIDE DEF d
      <3>3. /\ job' \in Job /\ job'.next = 1 /\ job'.prev = 0 /\ job'.draft = d
            /\ job'.kind = "cancel" /\ job'.target = nodes[i].id
        BY <1>2, <2>0, <3>1, <3>2, PassIsJob
      <3> QED BY <3>1, <3>3, FreshJob
    <2>2. ASSUME job' = Pass("cancel", 0, nodes, {0})
          PROVE  JobOK(job', nodes, made)
      <3>1. Carried(nodes, nodes, "cancel", 0) /\ Planned(nodes, nodes, 1)
        BY <1>1, NodesMoved, PlannedFrom
      <3>2. /\ job' \in Job /\ job'.next = 1 /\ job'.prev = 0 /\ job'.draft = nodes
            /\ job'.kind = "cancel" /\ job'.target = 0
        BY <1>1, <2>0, <2>2, PassIsJob
      <3> QED BY <1>1, <3>1, <3>2, FreshJob
    <2> QED BY <1>1, <1>3, <2>0, <2>1, <2>2 DEF Cancel
  <1>4. CASE AddBooking
    <2>0. made' = made + 1 /\ made' \in Nat /\ "add_booking" \in Passes
      BY <1>1, <1>4 DEF AddBooking, Passes
    <2>1. PICK b \in Bookings : \E r \in BookingRegion(b.region, b.wall) :
            LET n == [id |-> made + 1, kind |-> b.kind, skipped |-> FALSE, start |-> b.wall - Offset[r],
                      dur |-> b.dur, region |-> r, place |-> b.place, venue |-> NoVenue, slot |-> "none"]
            IN  \E draft \in InsertByStart(nodes, n) : job' = Pass("add_booking", n.id, draft, {n.id})
      BY <1>4 DEF AddBooking
    <2>2. PICK r \in BookingRegion(b.region, b.wall) :
            LET n == [id |-> made + 1, kind |-> b.kind, skipped |-> FALSE, start |-> b.wall - Offset[r],
                      dur |-> b.dur, region |-> r, place |-> b.place, venue |-> NoVenue, slot |-> "none"]
            IN  \E draft \in InsertByStart(nodes, n) : job' = Pass("add_booking", n.id, draft, {n.id})
      BY <2>1
    <2> DEFINE n == [id |-> made + 1, kind |-> b.kind, skipped |-> FALSE, start |-> b.wall - Offset[r],
                     dur |-> b.dur, region |-> r, place |-> b.place, venue |-> NoVenue, slot |-> "none"]
    <2>3. n \in Node /\ n.id = made + 1 /\ ~n.skipped /\ ~Flexible(n)
      <3>1. r \in Regions /\ made + 1 \in Nat
        BY <1>1, BookingFields, BookingRegionIsRegion
      <3> QED BY <3>1, BookingIsNode
    <2>4. \E draft \in InsertByStart(nodes, n) : job' = Pass("add_booking", n.id, draft, {n.id})
      BY <2>2
    <2> HIDE DEF n
    <2>5. PICK draft \in InsertByStart(nodes, n) : job' = Pass("add_booking", n.id, draft, {n.id})
      BY <2>4
    <2>6. Listed(nodes, made + 1) /\ n.id \in 1 .. made + 1 /\ n.id \notin Ids(nodes) /\ n.id \in Nat
      BY <1>1, <2>3, ListedLonger DEF Listed
    <2>7. /\ Listed(draft, made + 1) /\ \A i \in DOMAIN nodes : \E j \in DOMAIN draft : draft[j] = nodes[i]
          /\ \A k \in DOMAIN draft : draft[k] = n \/ \E i \in DOMAIN nodes : draft[k] = nodes[i]
      BY <2>3, <2>6, Inserted
    <2>8. draft \in Seq(Node)
      BY <2>7 DEF Listed
    <2>9. Carried(nodes, draft, "add_booking", n.id)
      BY <1>1, <2>7, <2>8, NodesMoved
    <2>10. /\ job' \in Job /\ job'.next = 1 /\ job'.prev = 0 /\ job'.draft = draft
           /\ job'.kind = "add_booking" /\ job'.target = n.id
      BY <2>0, <2>5, <2>6, <2>8, PassIsJob
    <2>11. Planned(nodes, draft, 1)
      BY <1>1, <2>3, <2>7, <2>8, PlannedFrom
    <2> QED BY <2>0, <2>7, <2>9, <2>10, <2>11, FreshJob
  <1>5. CASE DeleteBooking
    <2>0. made' = made /\ "delete_booking" \in Passes
      BY <1>5 DEF DeleteBooking, Passes
    <2>1. PICK i \in DOMAIN nodes :
            Locked(nodes[i]) /\ job' = Pass("delete_booking", nodes[i].id, Without(nodes, i), {})
      BY <1>5 DEF DeleteBooking
    <2> DEFINE w == Without(nodes, i)
    <2>2. /\ w \in Seq(Node) /\ Listed(w, made)
          /\ \A k \in DOMAIN nodes \ {i} : \E j \in DOMAIN w : w[j] = nodes[k]
          /\ \A k \in DOMAIN w : \E l \in DOMAIN nodes : w[k] = nodes[l]
      BY <1>1, Removed
    <2>3. job' = Pass("delete_booking", nodes[i].id, w, {})
      BY <2>1
    <2> HIDE DEF w
    <2>4. ~nodes[i].skipped
      BY <1>1, <2>1 DEF Listed, Flexible, Locked
    <2>5. Carried(nodes, w, "delete_booking", nodes[i].id)
      BY <1>1, <2>1, <2>2, <2>4, NodesMoved
    <2>6. /\ job' \in Job /\ job'.next = 1 /\ job'.prev = 0 /\ job'.draft = w
          /\ job'.kind = "delete_booking" /\ job'.target = nodes[i].id
      BY <1>2, <2>0, <2>2, <2>3, PassIsJob
    <2>7. Planned(nodes, w, 1)
      BY <1>1, <2>2, PlannedFrom
    <2> QED BY <1>1, <2>0, <2>2, <2>5, <2>6, <2>7, FreshJob
  <1> QED BY <1>3, <1>4, <1>5

\* A swap and a reroute begin with their first candidate and go on to the next.
LEMMA AttemptsStart ==
    ASSUME ItineraryInv, Swap \/ Reroute \/ TryNext
    PROVE  JobOK(job', nodes, made)
  <1>1. Listed(nodes, made) /\ nodes \in Seq(Node)
    BY DEF ItineraryInv, Listed
  <1>2. CASE Swap
    <2>1. PICK i \in DOMAIN nodes :
            /\ Flexible(nodes[i])
            /\ \E venues \in Orderings(SwapEligible(i)) : job' = Attempt("swap", nodes[i].id, venues, 0)
      BY <1>2 DEF Swap
    <2>2. PICK venues \in Orderings(SwapEligible(i)) : job' = Attempt("swap", nodes[i].id, venues, 0)
      BY <2>1
    <2>3. SwapEligible(i) \in SUBSET Venues
      BY DEF SwapEligible
    <2>4. venues \in Seq(Venues) /\ venues # <<>>
      BY <2>3, OrderingsAreVenues
    <2>5. HasActivity(nodes, nodes[i].id) /\ nodes[i].id \in Nat
      BY <1>1, <2>1, NodeIds DEF HasActivity
    <2> QED BY <1>1, <2>2, <2>4, <2>5, AttemptStarts
  <1>3. CASE Reroute
    <2>1. PICK venues \in Orderings({v \in Venues : Catalog[v].region = Home}) :
             job' = Attempt("reroute", 0, venues, 0)
      BY <1>3 DEF Reroute
    <2>2. venues \in Seq(Venues) /\ venues # <<>>
      BY OrderingsAreVenues
    <2> QED BY <1>1, <2>1, <2>2, AttemptStarts
  <1>4. CASE TryNext
    <2>1. /\ job.kind \in {"swap", "reroute"} /\ Tail(job.venues) # <<>>
          /\ job' = Attempt(job.kind, job.target, Tail(job.venues), job.tries + 1)
      BY <1>4 DEF TryNext, Judged
    <2>2. job.venues \in Seq(Venues) /\ job.target \in Nat /\ job.tries \in Nat /\ job.venues # <<>>
      BY <2>1 DEF ItineraryInv, JobOK, Job
    <2>3. Tail(job.venues) \in Seq(Venues) /\ job.tries + 1 \in Nat
      BY <2>2
    <2>4. job.kind = "swap" => HasActivity(nodes, job.target)
      BY DEF ItineraryInv, JobOK
    <2> QED BY <1>1, <2>1, <2>2, <2>3, <2>4, AttemptStarts
  <1> QED BY <1>2, <1>3, <1>4

LEMMA ItineraryStep == ItineraryInv /\ [Next]_vars => ItineraryInv'
  <1> SUFFICES ASSUME ItineraryInv, [Next]_vars PROVE ItineraryInv'
    OBVIOUS
  <1>0. /\ made \in Nat /\ made + 1 \in Nat /\ events \in 0 .. MaxEvents
        /\ Listed(nodes, made) /\ JobOK(job, nodes, made)
    BY DEF ItineraryInv
  <1>1. CASE PassSkipped
    BY <1>0, <1>1, SkippedKeeps DEF ItineraryInv, PassSkipped
  <1>2. CASE PassBooking
    BY <1>0, <1>2, BookingKeeps DEF ItineraryInv, PassBooking
  <1>3. CASE PassActivity
    BY <1>0, <1>3, ActivityKeeps DEF ItineraryInv, PassActivity
  <1>4. CASE Keep
    <2>1. Listed(job.draft, made)
      BY <1>0 DEF JobOK
    <2>2. JobOK(NoJob, job.draft, made)
      BY NoJobHolds
    <2> QED BY <1>0, <1>4, <2>1, <2>2 DEF ItineraryInv, Keep
  <1>5. CASE TryNext
    BY <1>0, <1>5, AttemptsStart DEF ItineraryInv, TryNext
  <1>6. CASE GiveUp
    BY <1>0, <1>6, NoJobHolds DEF ItineraryInv, GiveUp
  <1>7. CASE Cancel \/ AddBooking \/ DeleteBooking
    <2>1. UNCHANGED nodes /\ Event /\ made' \in {made, made + 1}
      BY <1>7 DEF Cancel, AddBooking, DeleteBooking
    <2>2. JobOK(job', nodes, made') /\ events' \in 0 .. MaxEvents
      BY <1>7, <2>1, PassBegins, EventCounts
    <2>3. Listed(nodes, made')
      BY <1>0, <2>1, ListedLonger
    <2> QED BY <1>0, <2>1, <2>2, <2>3 DEF ItineraryInv
  <1>8. CASE Swap \/ Reroute
    <2>1. UNCHANGED <<nodes, made>> /\ Event
      BY <1>8 DEF Swap, Reroute
    <2> QED BY <1>0, <1>8, <2>1, AttemptsStart, EventCounts DEF ItineraryInv
  <1>9. CASE EditBooking
    <2>1. events' \in 0 .. MaxEvents /\ Idle
      BY <1>9, EventCounts DEF EditBooking
    <2>2. CASE UNCHANGED nodes /\ made' = made /\ JobOK(job', nodes, made)
      BY <1>0, <2>1, <2>2 DEF ItineraryInv
    <2>3. CASE Listed(nodes', made) /\ UNCHANGED <<made, job>>
      BY <1>0, <2>1, <2>3, IdleJobHolds DEF ItineraryInv
    <2> QED BY <1>9, <2>2, <2>3, EditHolds
  <1>10. CASE Move
    <2>1. Listed(nodes', made) /\ UNCHANGED <<made, job>>
      BY <1>10, MoveHolds DEF Move
    <2>2. events' \in 0 .. MaxEvents /\ Idle
      BY <1>10, EventCounts DEF Move
    <2> QED BY <1>0, <2>1, <2>2, IdleJobHolds DEF ItineraryInv
  <1>11. CASE Adding
    <2>1. events' \in 0 .. MaxEvents /\ Idle
      BY <1>11, EventCounts DEF Adding, DirectAdd, UncataloguedAdd, AskToAdd
    <2> QED BY <1>0, <1>11, <2>1, AddingHolds, IdleJobHolds DEF ItineraryInv
  <1>12. CASE UNCHANGED vars
    BY <1>0, <1>12 DEF ItineraryInv, vars
  <1> QED BY <1>1, <1>2, <1>3, <1>4, <1>5, <1>6, <1>7, <1>8, <1>9, <1>10, <1>11, <1>12 DEF Next, Adding

(***************************************************************************)
(* The inductive invariant: whatever is under way, its draft carries every *)
(* node of the itinerary on as the event may, and what lies behind the     *)
(* pass waits for what is in front of it.                                  *)
(***************************************************************************)
THEOREM Invariance == Spec => []ItineraryInv
  BY ItineraryInit, ItineraryStep, PTL DEF Spec


-----------------------------------------------------------------------------
(* The properties *)

(***************************************************************************)
(* Type correctness: the itinerary and every draft are lists of nodes of   *)
(* different ids, and the pass is somewhere on its draft.                  *)
(***************************************************************************)
THEOREM TypeInvariant == Spec => []TypeOK
  <1>1. ItineraryInv => TypeOK
    BY DEF ItineraryInv, JobOK, Job, Listed, Standing, TypeOK
  <1> QED BY <1>1, Invariance, PTL

\* The ways a step can change the itinerary.
LEMMA NodesChange ==
    ASSUME ItineraryInv, [Next]_vars
    PROVE  \/ Kept(nodes, nodes')
           \/ Keep
           \/ /\ EditBooking
              /\ \E i \in DOMAIN nodes : /\ Locked(nodes[i]) /\ DOMAIN nodes' = DOMAIN nodes
                                         /\ \A k \in DOMAIN nodes \ {i} : nodes'[k] = nodes[k]
           \/ /\ Move
              /\ \E i \in DOMAIN nodes :
                   /\ Flexible(nodes[i]) /\ ~nodes[i].skipped
                   /\ \E j \in DOMAIN nodes' : nodes'[j].id = nodes[i].id /\ Flexible(nodes'[j])
                   /\ \A k \in DOMAIN nodes \ {i} : \E j \in DOMAIN nodes' : nodes'[j] = nodes[k]
  <1>1. ASSUME UNCHANGED nodes PROVE Kept(nodes, nodes')
    BY <1>1 DEF Kept
  <1>2. CASE \/ PassSkipped \/ PassBooking \/ PassActivity \/ TryNext \/ GiveUp \/ Cancel \/ Swap \/ Reroute
             \/ AddBooking \/ DeleteBooking \/ UNCHANGED vars
    BY <1>1, <1>2
       DEF PassSkipped, PassBooking, PassActivity, TryNext, GiveUp, Cancel, Swap, Reroute, AddBooking,
           DeleteBooking, vars
  <1>3. CASE Keep
    BY <1>3
  <1>4. CASE EditBooking
    BY <1>1, <1>4, EditHolds
  <1>5. CASE Move
    BY <1>5, MoveHolds
  <1>6. CASE Adding
    BY <1>6, AddingHolds
  <1> QED BY <1>2, <1>3, <1>4, <1>5, <1>6 DEF Next, Adding

\* What Keep makes of the itinerary is what its pass carried over.
LEMMA KeepCarries ==
    ASSUME ItineraryInv, Keep
    PROVE  Carried(nodes, nodes', job.kind, job.target) /\ nodes' = job.draft
  BY DEF ItineraryInv, JobOK, Keep, Passed, Idle

(***************************************************************************)
(* Locked nodes are fixed anchors: of any itinerary, under any events, a   *)
(* booking stays as it is until it is itself edited or deleted.            *)
(***************************************************************************)
THEOREM BookingsAlwaysStand == Spec => BookingsStand
  <1>1. ASSUME ItineraryInv, [Next]_vars, NEW i \in DOMAIN nodes, Locked(nodes[i])
        PROVE  \/ \E j \in DOMAIN nodes' : nodes'[j] = nodes[i]
               \/ Keep /\ ByItself(nodes[i].id)
               \/ EditBooking /\ \A j \in DOMAIN nodes \ {i} : nodes'[j] = nodes[j]
    <2>1. CASE Kept(nodes, nodes')
      BY <2>1 DEF Kept
    <2>2. CASE Keep
      BY <1>1, <2>2, KeepCarries DEF Carried, ByItself
    <2>3. CASE EditBooking /\ \E k \in DOMAIN nodes : /\ Locked(nodes[k]) /\ DOMAIN nodes' = DOMAIN nodes
                                                      /\ \A l \in DOMAIN nodes \ {k} : nodes'[l] = nodes[l]
      BY <2>3
    <2>4. CASE \E k \in DOMAIN nodes :
                 /\ Flexible(nodes[k])
                 /\ \A l \in DOMAIN nodes \ {k} : \E j \in DOMAIN nodes' : nodes'[j] = nodes[l]
      BY <1>1, <2>4 DEF Flexible, Locked
    <2> QED BY <1>1, <2>1, <2>2, <2>3, <2>4, NodesChange
  <1>2. ItineraryInv /\ [Next]_vars =>
          [\A i \in DOMAIN nodes : Locked(nodes[i]) =>
              \/ \E j \in DOMAIN nodes' : nodes'[j] = nodes[i]
              \/ Keep /\ ByItself(nodes[i].id)
              \/ EditBooking /\ \A j \in DOMAIN nodes \ {i} : nodes'[j] = nodes[j]]_vars
    BY <1>1
  <1> QED BY <1>2, Invariance, PTL DEF Spec, BookingsStand

(***************************************************************************)
(* Activities are only ever pushed later: none leaves the list, and none   *)
(* but a move puts one earlier.                                            *)
(***************************************************************************)
THEOREM ActivitiesOnlyPushedLater == Spec => OnlyPushedLater
  <1>1. ASSUME ItineraryInv, [Next]_vars, NEW i \in DOMAIN nodes, Flexible(nodes[i])
        PROVE  \E j \in DOMAIN nodes' :
                 /\ nodes'[j].id = nodes[i].id /\ Flexible(nodes'[j])
                 /\ nodes'[j].start >= nodes[i].start \/ Move
    <2>0. nodes[i].start >= nodes[i].start
      <3>1. nodes[i].start \in Int
        BY <1>1, NodeTimes DEF ItineraryInv, Listed
      <3> QED BY <3>1
    <2>1. CASE \E j \in DOMAIN nodes' : nodes'[j] = nodes[i]
      BY <1>1, <2>0, <2>1
    <2>2. CASE Keep
      BY <1>1, <2>2, KeepCarries DEF Carried
    <2>3. CASE \E k \in DOMAIN nodes : /\ Locked(nodes[k]) /\ DOMAIN nodes' = DOMAIN nodes
                                       /\ \A l \in DOMAIN nodes \ {k} : nodes'[l] = nodes[l]
      BY <1>1, <2>1, <2>3 DEF Flexible, Locked
    <2>4. CASE /\ Move
               /\ \E k \in DOMAIN nodes :
                    /\ Flexible(nodes[k]) /\ ~nodes[k].skipped
                    /\ \E j \in DOMAIN nodes' : nodes'[j].id = nodes[k].id /\ Flexible(nodes'[j])
                    /\ \A l \in DOMAIN nodes \ {k} : \E j \in DOMAIN nodes' : nodes'[j] = nodes[l]
      BY <2>1, <2>4
    <2> QED BY <1>1, <2>1, <2>2, <2>3, <2>4, NodesChange DEF Kept
  <1>2. ItineraryInv /\ [Next]_vars =>
          [\A i \in DOMAIN nodes : Flexible(nodes[i]) =>
              \E j \in DOMAIN nodes' :
                 /\ nodes'[j].id = nodes[i].id /\ Flexible(nodes'[j])
                 /\ nodes'[j].start >= nodes[i].start \/ Move]_vars
    BY <1>1
  <1> QED BY <1>2, Invariance, PTL DEF Spec, OnlyPushedLater

(***************************************************************************)
(* A cancelled activity stays as and where it is until it is swapped.      *)
(***************************************************************************)
THEOREM CancelledAlwaysKeepsItsPlace == Spec => CancelledKeepsItsPlace
  <1>1. ASSUME ItineraryInv, [Next]_vars, NEW i \in DOMAIN nodes, nodes[i].skipped
        PROVE  \/ \E j \in DOMAIN nodes' : nodes'[j] = nodes[i]
               \/ Keep /\ job.kind = "swap" /\ job.target = nodes[i].id
    <2>0. Flexible(nodes[i]) /\ ~Locked(nodes[i])
      BY <1>1 DEF ItineraryInv, Listed, Flexible, Locked
    <2>1. CASE \E j \in DOMAIN nodes' : nodes'[j] = nodes[i]
      BY <2>1
    <2>2. CASE Keep
      BY <1>1, <2>2, KeepCarries DEF Carried
    <2>3. CASE \E k \in DOMAIN nodes : /\ Locked(nodes[k]) /\ DOMAIN nodes' = DOMAIN nodes
                                       /\ \A l \in DOMAIN nodes \ {k} : nodes'[l] = nodes[l]
      BY <2>0, <2>1, <2>3
    <2>4. CASE \E k \in DOMAIN nodes :
                 /\ ~nodes[k].skipped
                 /\ \A l \in DOMAIN nodes \ {k} : \E j \in DOMAIN nodes' : nodes'[j] = nodes[l]
      BY <1>1, <2>1, <2>4
    <2> QED BY <1>1, <2>1, <2>2, <2>3, <2>4, NodesChange DEF Kept
  <1>2. ItineraryInv /\ [Next]_vars =>
          [\A i \in DOMAIN nodes : nodes[i].skipped =>
              \/ \E j \in DOMAIN nodes' : nodes'[j] = nodes[i]
              \/ Keep /\ job.kind = "swap" /\ job.target = nodes[i].id]_vars
    BY <1>1
  <1> QED BY <1>2, Invariance, PTL DEF Spec, CancelledKeepsItsPlace

\* At the end of the list the pass has seen every node.
LEMMA PassIsOver ==
    ASSUME ItineraryInv, Keep
    PROVE  /\ DOMAIN nodes' = 1 .. job.next - 1 /\ nodes' \in Seq(Node)
           /\ Walked(nodes, nodes', job.next) /\ (~job.clash => Unclashed(nodes', job.next))
  <1>1. /\ job.draft \in Seq(Node) /\ job.next \in 1 .. Len(job.draft) + 1
        /\ Walked(nodes, job.draft, job.next) /\ (~job.clash => Unclashed(job.draft, job.next))
    BY DEF ItineraryInv, JobOK, Job, Standing, Keep, Passed, Idle
  <1>2. nodes' = job.draft /\ job.next > Len(job.draft)
    BY DEF Keep, Passed
  <1>3. job.next - 1 = Len(job.draft)
    BY <1>1, <1>2
  <1> QED BY <1>1, <1>2, <1>3

(***************************************************************************)
(* After every rescheduling event an activity planned for the city and day *)
(* of the stop in front of it waits until that stop is over and the walk   *)
(* from it is done.                                                        *)
(***************************************************************************)
THEOREM ActivitiesAlwaysWait == Spec => ActivitiesWait
  <1>1. ItineraryInv /\ [Next]_vars =>
          [Keep => \A i, j \in DOMAIN nodes' : \A p \in DOMAIN nodes :
              /\ InFront(nodes', i, j) /\ Flexible(nodes'[j])
              /\ nodes[p].id = nodes'[j].id /\ OnDayOf(nodes'[i], nodes[p].start, nodes'[j])
              => BusyUntil(nodes'[i]) + WalkOrNone(nodes'[i].place, nodes'[j].place) <= nodes'[j].start]_vars
    BY PassIsOver DEF Walked
  <1> QED BY <1>1, Invariance, PTL DEF Spec, ActivitiesWait

(***************************************************************************)
(* An accepted swap or reroute leaves every stop over before any later one *)
(* begins, and every flight its 150 minutes, wherever the pass pushed the  *)
(* nodes: although it only looks at the soonest flight of each, and at the *)
(* stop in front.                                                          *)
(***************************************************************************)
THEOREM AcceptedAlwaysFeasible == Spec => AcceptedIsFeasible
  <1>1. ASSUME ItineraryInv, Keep, Judged PROVE InOrder(nodes') /\ ClearsFlights(nodes')
    <2>1. DOMAIN nodes' = 1 .. job.next - 1 /\ Unclashed(nodes', job.next)
      BY <1>1, PassIsOver DEF Keep
    <2>2. InOrder(nodes')
      BY <2>1 DEF InOrder, Unclashed, Orderly
    <2>3. ClearsFlights(nodes')
      BY <2>1 DEF ClearsFlights, Unclashed, Clears
    <2> QED BY <2>2, <2>3
  <1>2. ItineraryInv /\ [Next]_vars =>
          [Keep /\ Judged => InOrder(nodes') /\ ClearsFlights(nodes')]_vars
    BY <1>1
  <1> QED BY <1>2, Invariance, PTL DEF Spec, AcceptedIsFeasible

=============================================================================
