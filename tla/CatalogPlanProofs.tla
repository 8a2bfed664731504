-------------------------- MODULE CatalogPlanProofs --------------------------
(***************************************************************************)
(* Proofs about CatalogPlan, for every catalog, clock, trip and bound.     *)
(***************************************************************************)
EXTENDS CatalogPlan, FiniteSetTheorems, WellFoundedInduction, TLAPS

-----------------------------------------------------------------------------
(* Numbers *)

\* A set of naturals has a least element.
LEMMA Least ==
    ASSUME NEW T \in SUBSET Nat, T # {}
    PROVE  \E m \in T : \A n \in T : m <= n
  <1> DEFINE R == {p \in Nat \X Nat : p[1] < p[2]}
  <1>1. IsWellFoundedOn(R, Nat)
    BY NatLessThanWellFounded DEF OpToRel
  <1>2. PICK m \in T : \A n \in T : <<n, m>> \notin R
    <2> HIDE DEF R
    <2> QED BY <1>1, WFMin
  <1>3. ASSUME NEW n \in T PROVE m <= n
    <2>1. ~ (n < m)
      BY <1>2, n \in Nat, m \in Nat
    <2> QED BY <2>1
  <1> QED BY <1>3

LEMMA Scaled ==
    ASSUME NEW a \in Int, NEW b \in Int, NEW D \in Nat, a <= b
    PROVE  a * D <= b * D
  <1>1. (b - a) * D >= 0
    OBVIOUS
  <1>2. (b - a) * D = b * D - a * D
    OBVIOUS
  <1> QED BY <1>1, <1>2

LEMMA Divided ==
    ASSUME NEW D \in Nat \ {0}, NEW x \in Int
    PROVE  /\ x \div D \in Int /\ x % D \in 0 .. D - 1
           /\ x = D * (x \div D) + (x % D)
  OBVIOUS

\* What lies in the d-th interval of length D has quotient d.
LEMMA Quotient ==
    ASSUME NEW d \in Int, NEW D \in Nat \ {0}, NEW x \in Int, d * D <= x, x < d * D + D
    PROVE  x \div D = d /\ x % D = x - d * D
  <1> DEFINE q == x \div D
             m == x % D
  <1>1. q \in Int /\ m \in Int /\ 0 <= m /\ m < D /\ x = q * D + m
    BY Divided
  <1> HIDE DEF q, m
  <1>2. CASE q < d
    <2>1. (q + 1) * D <= d * D
      BY <1>1, <1>2, Scaled, q + 1 <= d, q + 1 \in Int
    <2>2. (q + 1) * D = q * D + D
      BY <1>1
    <2>3. q * D \in Int /\ d * D \in Int
      BY <1>1
    <2> QED BY <2>1, <2>2, <2>3, <1>1
  <1>3. CASE d < q
    <2>1. (d + 1) * D <= q * D
      BY <1>1, <1>3, Scaled, d + 1 <= q, d + 1 \in Int
    <2>2. (d + 1) * D = d * D + D
      OBVIOUS
    <2>3. q * D \in Int /\ d * D \in Int
      BY <1>1
    <2> QED BY <2>1, <2>2, <2>3, <1>1
  <1>4. q = d
    BY <1>2, <1>3, <1>1
  <1> QED BY <1>4, <1>1 DEF q, m

LEMMA MaxOfTwo ==
    ASSUME NEW a \in Int, NEW b \in Int
    PROVE  Max({a, b}) \in Int /\ a <= Max({a, b}) /\ b <= Max({a, b})
  <1>1. \E x \in {a, b} : \A y \in {a, b} : x >= y
    <2>1. CASE a <= b
      BY <2>1
    <2>2. CASE b <= a
      BY <2>2
    <2> QED BY <2>1, <2>2
  <1>2. Max({a, b}) \in {a, b} /\ \A y \in {a, b} : Max({a, b}) >= y
    BY <1>1 DEF Max
  <1> QED BY <1>2

LEMMA LeastAbove ==
    ASSUME NEW T \in SUBSET Int, T # {}, NEW b \in Int, \A n \in T : b <= n
    PROVE  \E m \in T : \A n \in T : m <= n
  <1> DEFINE U == {k \in Nat : b + k \in T}
  <1>1. \A n \in T : n - b \in U
    OBVIOUS
  <1>2. PICK k \in U : \A l \in U : k <= l
    <2>1. U \in SUBSET Nat /\ U # {}
      BY <1>1
    <2> HIDE DEF U
    <2> QED BY <2>1, Least
  <1>3. \A n \in T : b + k <= n
    BY <1>1, <1>2
  <1> QED BY <1>2, <1>3

\* A finite set of integers has a least and a greatest element: one with the
\* fewest elements on its other side.
LEMMA LeastOfFinite ==
    ASSUME NEW T \in SUBSET Int, IsFiniteSet(T), T # {}
    PROVE  \E m \in T : \A n \in T : m <= n
  <1> DEFINE below(x) == {y \in T : y < x}
             sizes == {Cardinality(below(x)) : x \in T}
  <1>1. \A x \in T : IsFiniteSet(below(x)) /\ Cardinality(below(x)) \in Nat
    BY FS_Subset, FS_CardinalityType
  <1>2. PICK x \in T : \A y \in T : Cardinality(below(x)) <= Cardinality(below(y))
    <2>1. sizes \in SUBSET Nat /\ sizes # {}
      BY <1>1
    <2>2. \E m \in sizes : \A n \in sizes : m <= n
      <3> HIDE DEF sizes
      <3> QED BY <2>1, Least
    <2> QED BY <2>2
  <1>3. ASSUME NEW y \in T, y < x PROVE FALSE
    <2>1. below(y) \in SUBSET below(x) /\ y \in below(x) /\ y \notin below(y)
      <3>1. \A z \in below(y) : z \in below(x)
        BY <1>3
      <3>2. y \in below(x) /\ y \notin below(y)
        BY <1>3
      <3> QED BY <3>1, <3>2
    <2>2. Cardinality(below(y)) <= Cardinality(below(x)) /\ Cardinality(below(y)) # Cardinality(below(x))
      <3> HIDE DEF below
      <3> QED BY <2>1, <1>1, FS_Subset
    <2> QED BY <2>2, <1>2, <1>1
  <1> QED BY <1>3

LEMMA MinOfFinite ==
    ASSUME NEW T \in SUBSET Int, IsFiniteSet(T), T # {}
    PROVE  Min(T) \in T /\ \A n \in T : Min(T) <= n
  BY LeastOfFinite DEF Min

LEMMA MaxOfFinite ==
    ASSUME NEW T \in SUBSET Int, IsFiniteSet(T), T # {}
    PROVE  Max(T) \in T /\ \A n \in T : n <= Max(T)
  <1> DEFINE U == {-n : n \in T}
  <1>1. U \in SUBSET Int /\ U # {}
    <2>1. \A n \in T : n \in Int /\ -n \in Int
      OBVIOUS
    <2>2. \A u \in U : u \in Int
      BY <2>1
    <2>3. PICK n \in T : TRUE
      OBVIOUS
    <2>4. -n \in U
      BY <2>3
    <2> QED BY <2>2, <2>4
  <1>2. IsFiniteSet(U)
    <2> DEFINE neg == [n \in T |-> -n]
    <2>1. neg \in Surjection(T, U)
      BY DEF Surjection
    <2> HIDE DEF neg, U
    <2> QED BY <2>1, FS_Surjection
  <1>3. PICK u \in U : \A n \in U : u <= n
    <2> HIDE DEF U
    <2> QED BY <1>1, <1>2, LeastOfFinite
  <1>4. PICK x \in T : u = -x
    BY <1>3
  <1>5. \A n \in T : x >= n
    <2>1. \A n \in T : -n \in U
      OBVIOUS
    <2> QED BY <2>1, <1>3, <1>4
  <1> QED BY <1>5 DEF Max

-----------------------------------------------------------------------------
(* The rows that can start in a slot, and the one that is taken *)

LEMMA ClockFacts ==
    /\ Day \in Nat \ {0} /\ Hour \in Nat \ {0}
    /\ \A s \in Slots : SlotFloor[s] \in Nat /\ SlotFloor[s] < Day
    /\ \A r \in Regions : Offset[r] \in Nat
  BY RulesAssumption DEF Day, SlotFloor, Slots

LEMMA InstantFacts ==
    ASSUME NEW d \in Nat, NEW c \in Int, NEW r \in Regions
    PROVE  /\ d * Day \in Int /\ Offset[r] \in Nat
           /\ Instant(d, c, r) = d * Day + c - Offset[r] /\ Instant(d, c, r) \in Int
  <1>1. d * Day \in Int /\ Offset[r] \in Nat
    BY ClockFacts
  <1> QED BY <1>1 DEF Instant

LEMMA HoursFacts ==
    ASSUME NEW v \in Venues, NEW d \in Nat
    PROVE  HoursOn[v][d % Week] = NoHours \/ HoursOn[v][d % Week] \in SUBSET Window
  <1>1. Week \in Nat \ {0} /\ HoursOn \in [Venues -> [0 .. Week - 1 -> (SUBSET Window) \cup {NoHours}]]
    BY PlanAssumption
  <1>2. d % Week \in 0 .. Week - 1
    BY <1>1, Divided
  <1> QED BY <1>1, <1>2

LEMMA VisitFacts ==
    ASSUME NEW v \in Visit
    PROVE  /\ v.venue \in Venues /\ v.region \in Regions /\ v.day \in Nat /\ v.slot \in Slots
           /\ v.start \in Int /\ v.skipped \in BOOLEAN
           /\ VisitEnd(v) \in Int /\ v.start < VisitEnd(v)
           /\ Catalog[v.venue].place \in Places
  BY RulesAssumption DEF Visit, VisitEnd

\* A stay of v from t lies in an opening of day d.
InOpening(v, t, d, r) ==
    HoursOn[v][d % Week] = NoHours \/
        \E w \in HoursOn[v][d % Week] :
            /\ Instant(d, 0, r) + w.open <= t
            /\ w.close > w.open => t + Catalog[v].dwell <= Instant(d, 0, r) + w.close

\* What next_slot_start returns: no earlier than the walk from the last stop and
\* the floor of the slot, inside an opening of that day, over before midnight.
LEMMA StartInFacts ==
    ASSUME NEW v \in Venues, NEW s \in Slots, NEW visits \in Seq(Visit), NEW d \in Nat, NEW r \in Regions,
           NEW t \in StartIn(v, s, visits, d, r)
    PROVE  /\ t \in Int /\ Instant(d, SlotFloor[s], r) <= t
           /\ t + Catalog[v].dwell <= Instant(d, 0, r) + Day
           /\ SlotAccepts(s, LocalTime(t, r))
           /\ visits # <<>> =>
                VisitEnd(Last(visits)) + Walk[<<Catalog[Last(visits).venue].place, Catalog[v].place>>] <= t
           /\ InOpening(v, t, d, r)
  <1> DEFINE h == HoursOn[v][d % Week]
             a == Arrival(visits, v, d, r)
             b == Instant(d, SlotFloor[s], r)
             cursor == Max({a, b})
             dwell == Catalog[v].dwell
             midnight == Instant(d, 0, r)
  <1>1. /\ Catalog[v].place \in Places /\ dwell \in Nat /\ midnight \in Int /\ b \in Int /\ Day \in Nat
        /\ Instant(d, 9 * Hour, r) \in Int
    <2>1. /\ Catalog[v].place \in Places /\ dwell \in Nat
      BY RulesAssumption
    <2>2. SlotFloor[s] \in Int /\ 9 * Hour \in Int /\ Day \in Nat
      BY ClockFacts
    <2>3. midnight \in Int /\ b \in Int /\ Instant(d, 9 * Hour, r) \in Int
      BY <2>2, InstantFacts
    <2> QED BY <2>1, <2>2, <2>3
  <1>2. visits # <<>> => /\ Last(visits) \in Visit
                         /\ Walk[<<Catalog[Last(visits).venue].place, Catalog[v].place>>] \in Nat
    <2>1. ASSUME visits # <<>> PROVE Last(visits) \in Visit
      BY <2>1 DEF Last
    <2>2. ASSUME visits # <<>> PROVE Catalog[Last(visits).venue].place \in Places
      BY <2>1, <2>2, VisitFacts
    <2> QED BY <2>1, <2>2, <1>1, RulesAssumption
  <1>3. a \in Int
    BY <1>1, <1>2, VisitFacts DEF Arrival
  <1>4. cursor \in Int /\ a <= cursor /\ b <= cursor
    BY <1>1, <1>3, MaxOfTwo
  <1>5. h = NoHours \/ h \in SUBSET Window
    BY HoursFacts
  <1>6. t \in OpenStarts(h, cursor, dwell, r, d) /\ SlotAccepts(s, LocalTime(t, r))
    BY DEF StartIn, Earliest
  <1> HIDE DEF cursor, a, b, h, dwell, midnight
  <1>7. t + dwell <= midnight + Day
    BY <1>6 DEF OpenStarts, midnight
  <1>8. CASE h = NoHours
    <2>1. t = IF cursor > midnight THEN cursor ELSE midnight
      BY <1>6, <1>8 DEF OpenStarts, midnight
    <2>2. t \in Int /\ cursor <= t
      BY <2>1, <1>4, <1>1
    <2> QED BY <2>2, <1>4, <1>6, <1>7, <1>8, <1>1, <1>2, <1>3 DEF Arrival, InOpening, a, b, h, dwell, midnight
  <1>9. CASE h # NoHours
    <2>1. PICK w \in h :
            /\ t = IF cursor > midnight + w.open THEN cursor ELSE midnight + w.open
            /\ t + dwell <= IF w.open < w.close THEN midnight + w.close ELSE midnight + Day
      BY <1>6, <1>9 DEF OpenStarts, midnight
    <2>2. w.open \in Nat /\ w.close \in Nat
      BY <1>5, <1>9 DEF Window
    <2>3. t \in Int /\ cursor <= t /\ midnight + w.open <= t
      BY <2>1, <2>2, <1>4, <1>1
    <2>4. w.close > w.open => t + dwell <= midnight + w.close
      BY <2>1, <2>2
    <2>5. b <= t /\ (visits # <<>> =>
                VisitEnd(Last(visits)) + Walk[<<Catalog[Last(visits).venue].place, Catalog[v].place>>] <= t)
      BY <2>3, <1>1, <1>2, <1>3, <1>4, VisitFacts DEF Arrival, a
    <2> QED BY <2>3, <2>4, <2>5, <1>6, <1>7 DEF InOpening, b, h, dwell, midnight
  <1> QED BY <1>8, <1>9

LEMMA SameDay ==
    ASSUME NEW d \in Nat, NEW r \in Regions, NEW t \in Int,
           Instant(d, 0, r) <= t, t < Instant(d, 0, r) + Day
    PROVE  LocalDay(t, r) = d /\ LocalTime(t, r) = t - Instant(d, 0, r)
  <1> DEFINE base == d * Day
             here == t + Offset[r]
  <1>1. base \in Int /\ Offset[r] \in Nat /\ Instant(d, 0, r) = base - Offset[r] /\ here = t + Offset[r]
    BY InstantFacts, 0 \in Int
  <1>2. Day \in Nat \ {0}
    BY ClockFacts
  <1>3. ASSUME here \in Int, base <= here, here < base + Day
        PROVE  LocalDay(t, r) = d /\ LocalTime(t, r) = here - base
    <2>1. here \div Day = d /\ here % Day = here - base
      <3>1. base = d * Day
        OBVIOUS
      <3>2. d * Day <= here /\ here < d * Day + Day /\ here \in Int /\ d \in Int
        BY <1>3
      <3>3. here \div Day = d /\ here % Day = here - d * Day
        <4> HIDE DEF here
        <4> QED BY <3>2, <1>2, Quotient
      <3> QED BY <3>1, <3>3
    <2> QED BY <2>1 DEF LocalDay, LocalTime
  <1> HIDE DEF base, here
  <1>4. here \in Int /\ base <= here /\ here < base + Day /\ here - base = t - Instant(d, 0, r)
    BY <1>1, <1>2
  <1> QED BY <1>3, <1>4

\* Hence the stop it makes can be visited as planned.
LEMMA StartIsOpen ==
    ASSUME NEW v \in Venues, NEW s \in Slots, NEW visits \in Seq(Visit), NEW d \in Nat, NEW r \in Regions,
           NEW t \in StartIn(v, s, visits, d, r), NEW x,
           x = [venue |-> v, region |-> r, day |-> d, slot |-> s, start |-> t, skipped |-> FALSE]
    PROVE  x \in Visit /\ OpenThroughout(x)
  <1> DEFINE dwell == Catalog[v].dwell
             midnight == Instant(d, 0, r)
             h == HoursOn[v][d % Week]
             clock == LocalTime(t, r)
  <1>1. /\ t \in Int /\ Instant(d, SlotFloor[s], r) <= t /\ t + dwell <= midnight + Day
        /\ h = NoHours \/ \E w \in h :
              midnight + w.open <= t /\ (w.close > w.open => t + dwell <= midnight + w.close)
    <2>1. t \in Int /\ Instant(d, SlotFloor[s], r) <= t /\ t + dwell <= midnight + Day
      BY StartInFacts
    <2>2. InOpening(v, t, d, r)
      BY StartInFacts
    <2> QED BY <2>1, <2>2 DEF InOpening
  <1>2. dwell \in Nat \ {0}
    BY RulesAssumption
  <1>3. midnight \in Int /\ midnight <= t
    <2>1. SlotFloor[s] \in Nat
      BY ClockFacts
    <2>2. midnight = d * Day + 0 - Offset[r] /\ Instant(d, SlotFloor[s], r) = d * Day + SlotFloor[s] - Offset[r]
          /\ d * Day \in Int /\ Offset[r] \in Nat /\ midnight \in Int
      BY <2>1, InstantFacts, 0 \in Int, SlotFloor[s] \in Int
    <2> QED BY <2>1, <2>2, <1>1
  <1>4. h = NoHours \/ h \in SUBSET Window
    BY HoursFacts
  <1>5. Day \in Nat
    BY ClockFacts
  <1> HIDE DEF dwell, midnight, h
  <1>6. t < midnight + Day
    BY <1>1, <1>2, <1>3, <1>5
  <1>7. LocalDay(t, r) = d /\ clock = t - midnight
    BY <1>1, <1>3, <1>6, SameDay DEF midnight
  <1> HIDE DEF clock
  <1>8. clock + dwell <= Day
    BY <1>1, <1>2, <1>3, <1>5, <1>7
  <1>9. h = NoHours \/ \E w \in h : w.open <= clock /\ (w.close > w.open => clock + dwell <= w.close)
    <2>1. CASE h # NoHours
      <3>1. PICK w \in h : midnight + w.open <= t /\ (w.close > w.open => t + dwell <= midnight + w.close)
        BY <1>1, <2>1
      <3>2. w.open \in Nat /\ w.close \in Nat
        BY <1>4, <2>1 DEF Window
      <3> QED BY <3>1, <3>2, <1>1, <1>2, <1>3, <1>7
    <2> QED BY <2>1
  <1>10. x \in Visit
    BY <1>1 DEF Visit
  <1>11. x.venue = v /\ x.region = r /\ x.day = d /\ x.start = t
    OBVIOUS
  <1> QED BY <1>7, <1>8, <1>9, <1>10, <1>11 DEF OpenThroughout, dwell, h, clock

LEMMA CentreInNat ==
    ASSUME NEW pool \in SUBSET Venues, NEW v \in Venues
    PROVE  FromCentre(v, pool) \in Nat
  <1> DEFINE marks(w) == {w} \X (1 .. Spot[Catalog[w].place])
             all == {marks(w) : w \in pool}
             total == Cardinality(UNION all)
             x == Cardinality(pool) * Spot[Catalog[v].place] - total
  <1>1. \A w \in Venues : Spot[Catalog[w].place] \in Nat
    BY PlanAssumption, RulesAssumption
  <1>2. IsFiniteSet(pool) /\ Cardinality(pool) \in Nat
    BY PlanAssumption, FS_Subset, FS_CardinalityType
  <1>3. IsFiniteSet(all)
    <2> DEFINE f == [w \in pool |-> marks(w)]
    <2>1. f \in Surjection(pool, all)
      BY DEF Surjection
    <2> HIDE DEF f, all
    <2> QED BY <2>1, <1>2, FS_Surjection
  <1>4. ASSUME NEW T \in all PROVE IsFiniteSet(T)
    <2>1. PICK w \in pool : T = marks(w)
      OBVIOUS
    <2>2. IsFiniteSet({w}) /\ IsFiniteSet(1 .. Spot[Catalog[w].place])
      <3>1. Spot[Catalog[w].place] \in Int
        BY <1>1
      <3>2. IsFiniteSet(1 .. Spot[Catalog[w].place])
        BY <3>1, FS_Interval
      <3>3. IsFiniteSet({w})
        BY FS_Singleton
      <3> QED BY <3>2, <3>3
    <2> QED BY <2>1, <2>2, FS_Product
  <1>5. total \in Nat
    <2> HIDE DEF all
    <2> QED BY <1>3, <1>4, FS_UNION, FS_CardinalityType
  <1>6. FromCentre(v, pool) = IF x < 0 THEN -x ELSE x
    BY DEF FromCentre
  <1>7. x \in Int
    <2> HIDE DEF total
    <2> QED BY <1>1, <1>2, <1>5
  <1> HIDE DEF x
  <1> QED BY <1>6, <1>7

LEMMA LowestExists ==
    ASSUME NEW S, S # {}, NEW key, \A c \in S : key[c.venue] \in Nat
    PROVE  Lowest(S, key) # {} /\ Lowest(S, key) \subseteq S
  <1> DEFINE T == {key[c.venue] : c \in S}
  <1>1. PICK m \in T : \A n \in T : m <= n
    <2>1. T \in SUBSET Nat /\ T # {}
      OBVIOUS
    <2> HIDE DEF T
    <2> QED BY <2>1, Least
  <1>2. PICK c \in S : m = key[c.venue]
    BY <1>1
  <1>3. \A o \in S : key[c.venue] <= key[o.venue]
    BY <1>1, <1>2
  <1> QED BY <1>2, <1>3 DEF Lowest

\* Some row comes first in the order that breaks ties.
LEMMA FirstInOrderExists ==
    ASSUME NEW S, S # {}, NEW pool \in SUBSET Venues, NEW f, IsFiniteSet(f), \A c \in S : c.venue \in Venues
    PROVE  FirstInOrder(S, pool, f) # {} /\ FirstInOrder(S, pool, f) \subseteq S
  <1> DEFINE missed == [v \in Venues |-> Cardinality(f \ Tags[v])]
             off == [v \in Venues |-> FromCentre(v, pool)]
             one == Lowest(S, missed)
             two == Lowest(one, off)
             three == Lowest(two, Name)
  <1>1. ASSUME NEW v \in Venues PROVE missed[v] \in Nat /\ off[v] \in Nat /\ Name[v] \in Nat /\ VenueId[v] \in Nat
    <2>1. IsFiniteSet(f \ Tags[v])
      BY FS_Subset
    <2>2. missed[v] \in Nat
      BY <2>1, FS_CardinalityType
    <2>3. off[v] \in Nat
      BY CentreInNat
    <2>4. Name[v] \in Nat /\ VenueId[v] \in Nat
      BY PlanAssumption
    <2> QED BY <2>2, <2>3, <2>4
  <1>2. FirstInOrder(S, pool, f) = Lowest(three, VenueId)
    BY DEF FirstInOrder
  <1> HIDE DEF missed, off
  <1>3. one # {} /\ one \subseteq S
    BY <1>1, LowestExists
  <1> HIDE DEF one
  <1>4. two # {} /\ two \subseteq one
    BY <1>1, <1>3, LowestExists
  <1> HIDE DEF two
  <1>5. three # {} /\ three \subseteq two
    BY <1>1, <1>3, <1>4, LowestExists
  <1> HIDE DEF three
  <1>6. Lowest(three, VenueId) # {} /\ Lowest(three, VenueId) \subseteq three
    BY <1>1, <1>3, <1>4, <1>5, LowestExists
  <1> QED BY <1>2, <1>3, <1>4, <1>5, <1>6

\* Hence one of the rows that can start first is taken.
LEMMA ChoiceExists ==
    ASSUME NEW starts, starts # {}, NEW visits, NEW pool \in SUBSET Venues, NEW f, IsFiniteSet(f), NEW b \in Int,
           \A c \in starts : c.venue \in Venues /\ c.start \in Int /\ b <= c.start
    PROVE  Choice(starts, visits, pool, f) \in starts
  <1> DEFINE first == {c \in starts : \A o \in starts : c.start <= o.start}
             fresh == {c \in first : \A i \in DOMAIN visits : Bucket[visits[i].venue] # Bucket[c.venue]}
             rivals == IF fresh # {} THEN fresh ELSE first
             T == {c.start : c \in starts}
  <1>1. PICK m \in T : \A n \in T : m <= n
    <2>1. T \in SUBSET Int /\ T # {} /\ \A n \in T : b <= n
      OBVIOUS
    <2> HIDE DEF T
    <2> QED BY <2>1, LeastAbove
  <1>2. PICK c \in starts : m = c.start
    BY <1>1
  <1>3. \A o \in starts : c.start <= o.start
    BY <1>1, <1>2
  <1>4. first # {} /\ first \subseteq starts
    BY <1>3
  <1>5. fresh \subseteq first
    OBVIOUS
  <1>6. Choice(starts, visits, pool, f) = CHOOSE o \in FirstInOrder(rivals, pool, f) : TRUE
    BY DEF Choice
  <1> HIDE DEF first, fresh
  <1>7. rivals # {} /\ rivals \subseteq starts
    BY <1>4, <1>5
  <1> HIDE DEF rivals
  <1>8. FirstInOrder(rivals, pool, f) # {} /\ FirstInOrder(rivals, pool, f) \subseteq rivals
    BY <1>7, FirstInOrderExists
  <1> QED BY <1>6, <1>7, <1>8

-----------------------------------------------------------------------------
(* What one slot adds to a day *)

\* Stops of a trip that can be visited as planned, skipped or not (PlanHolds of
\* one trip).
Walkable(S) ==
    /\ \A i \in DOMAIN S : OpenThroughout(S[i]) /\ SlotKept(S[i])
    /\ \A i \in DOMAIN S : i > 1 => Reaches(S[i - 1], S[i])
    /\ \A i, j \in DOMAIN S :
           S[i].region = S[j].region /\ VenueId[S[i].venue] = VenueId[S[j].venue] => i = j

\* The stops so far of day d in city r, where the venues `used` are taken.
Morning(S, d, r, used) ==
    /\ S \in Seq(Visit) /\ Walkable(S)
    /\ \A i \in DOMAIN S : S[i].region = r /\ S[i].day = d /\ VenueId[S[i].venue] \notin used

\* Open slots are those of no excursion, and all slots used come before s.
Today(today, d, r, used) ==
    /\ Morning(today.visits, d, r, used)
    /\ today.open \subseteq Slots
    /\ \A i \in DOMAIN today.visits : today.visits[i].venue \in WholeDay => today.open \cap WholeDaySlots = {}

Before(S, s) == \A i \in DOMAIN S : SlotFloor[S[i].slot] < SlotFloor[s]
UpTo(S, s) == \A i \in DOMAIN S : SlotFloor[S[i].slot] <= SlotFloor[s]

LEMMA Placed ==
    ASSUME NEW today, NEW s \in Slots, NEW d \in Nat, NEW r \in Regions, NEW used, NEW c,
           Today(today, d, r, used), Before(today.visits, s), s \in today.open,
           c.venue \in Venues, VenueId[c.venue] \notin used \cup IdsOf(today.visits),
           FitsSlot(c.venue, s, today.open), c.start \in StartIn(c.venue, s, today.visits, d, r)
    PROVE  LET t == Planned(today, c, s, d, r) IN Today(t, d, r, used) /\ UpTo(t.visits, s)
  <1> DEFINE S == today.visits
             n == Len(S)
             x == [venue |-> c.venue, region |-> r, day |-> d, slot |-> s, start |-> c.start, skipped |-> FALSE]
             open == today.open \ (IF c.venue \in WholeDay THEN WholeDaySlots ELSE {s})
             U == Append(S, x)
             t == Planned(today, c, s, d, r)
  <1>1. t.visits = U /\ t.open = open
    BY DEF Planned
  <1>2. S \in Seq(Visit) /\ n \in Nat /\ DOMAIN S = 1 .. n
    BY DEF Today, Morning
  <1>3. x \in Visit /\ OpenThroughout(x)
    BY <1>2, StartIsOpen
  <1>4. x.venue = c.venue /\ x.region = r /\ x.day = d /\ x.slot = s /\ x.start = c.start
    OBVIOUS
  <1>5. SlotKept(x)
    <2>1. SlotAccepts(s, LocalTime(c.start, r))
      BY <1>2, StartInFacts
    <2> QED BY <2>1, <1>4 DEF SlotKept, FitsSlot
  <1>6. /\ U \in Seq(Visit) /\ Len(U) = n + 1 /\ DOMAIN U = 1 .. n + 1
        /\ \A i \in 1 .. n : U[i] = S[i]
        /\ U[n + 1] = x
    <2> HIDE DEF x
    <2> QED BY <1>2, <1>3
  <1>7. ASSUME n > 0 PROVE Reaches(S[n], x)
    <2>1. S # <<>> /\ Last(S) = S[n] /\ n \in DOMAIN S
      BY <1>2, <1>7 DEF Last
    <2>2. VisitEnd(S[n]) + Walk[<<Catalog[S[n].venue].place, Catalog[c.venue].place>>] <= c.start
      BY <2>1, <1>2, StartInFacts
    <2>3. SlotFloor[S[n].slot] < SlotFloor[s]
      BY <2>1 DEF Before
    <2>4. S[n].venue \in WholeDay => s = "dinner"
      BY <2>1 DEF Today, Slots, WholeDaySlots
    <2> QED BY <2>2, <2>3, <2>4, <1>4 DEF Reaches
  <1> HIDE DEF x, U, t, n
  <1>8. \A i \in 1 .. n + 1 : U[i] = x \/ (i \in DOMAIN S /\ U[i] = S[i])
    BY <1>2, <1>6
  <1>9. \A i \in 1 .. n + 1 : OpenThroughout(U[i]) /\ SlotKept(U[i])
    BY <1>8, <1>3, <1>5 DEF Today, Morning, Walkable
  <1>10. ASSUME NEW i \in 1 .. n + 1, i > 1 PROVE Reaches(U[i - 1], U[i])
    <2>1. CASE i = n + 1
      <3>1. U[i - 1] = S[n] /\ U[i] = x /\ n > 0
        BY <2>1, <1>10, <1>2, <1>6
      <3> QED BY <3>1, <1>7
    <2>2. CASE i # n + 1
      <3>1. U[i - 1] = S[i - 1] /\ U[i] = S[i] /\ i \in DOMAIN S
        BY <2>2, <1>10, <1>2, <1>6
      <3> QED BY <3>1, <1>10 DEF Today, Morning, Walkable
    <2> QED BY <2>1, <2>2
  <1>11. \A i \in DOMAIN S : VenueId[S[i].venue] # VenueId[x.venue]
    BY <1>4 DEF IdsOf
  <1>12. ASSUME NEW i \in 1 .. n + 1, NEW j \in 1 .. n + 1, U[i].region = U[j].region,
               VenueId[U[i].venue] = VenueId[U[j].venue]
         PROVE  i = j
    <2>1. CASE i = n + 1 /\ j = n + 1
      BY <2>1
    <2>2. CASE i = n + 1 /\ j # n + 1
      BY <2>2, <1>2, <1>6, <1>11, <1>12
    <2>3. CASE i # n + 1 /\ j = n + 1
      BY <2>3, <1>2, <1>6, <1>11, <1>12
    <2>4. CASE i # n + 1 /\ j # n + 1
      <3>1. U[i] = S[i] /\ U[j] = S[j] /\ i \in DOMAIN S /\ j \in DOMAIN S
        BY <2>4, <1>2, <1>6
      <3> QED BY <3>1, <1>12 DEF Today, Morning, Walkable
    <2> QED BY <2>1, <2>2, <2>3, <2>4
  <1>13. Walkable(U)
    BY <1>6, <1>9, <1>10, <1>12 DEF Walkable
  <1>14. \A i \in DOMAIN U : U[i].region = r /\ U[i].day = d /\ VenueId[U[i].venue] \notin used
    BY <1>4, <1>6, <1>8 DEF Today, Morning
  <1>15. Morning(U, d, r, used)
    BY <1>6, <1>13, <1>14 DEF Morning
  <1>16. open \subseteq Slots
    BY DEF Today
  <1>17. \A i \in DOMAIN U : U[i].venue \in WholeDay => open \cap WholeDaySlots = {}
    BY <1>4, <1>6, <1>8 DEF Today
  <1>18. UpTo(U, s)
    <2>1. \A q \in Slots : SlotFloor[q] \in Nat
      BY ClockFacts
    <2>2. \A i \in DOMAIN S : S[i].slot \in Slots
      BY <1>2, VisitFacts
    <2> QED BY <2>1, <2>2, <1>4, <1>6, <1>8 DEF Before, UpTo
  <1> QED BY <1>1, <1>15, <1>16, <1>17, <1>18 DEF Today, t

LEMMA Filled ==
    ASSUME NEW pool \in SUBSET Venues, NEW target \in Nat, NEW d \in Nat, NEW r \in Regions, NEW used, NEW f,
           IsFiniteSet(f), NEW today, NEW s \in Slots, Today(today, d, r, used), Before(today.visits, s)
    PROVE  LET t == Fill(today, s, pool, target, d, r, used, f) IN Today(t, d, r, used) /\ UpTo(t.visits, s)
  <1> DEFINE t == Fill(today, s, pool, target, d, r, used, f)
             starts == Starts(today, s, pool, d, r, used)
             c == Choice(starts, today.visits, pool, f)
  <1>1. UpTo(today.visits, s)
    <2>1. \A q \in Slots : SlotFloor[q] \in Nat
      BY ClockFacts
    <2>2. \A i \in DOMAIN today.visits : today.visits[i].slot \in Slots
      BY VisitFacts DEF Today, Morning
    <2> QED BY <2>1, <2>2 DEF Before, UpTo
  <1>2. CASE s \notin today.open \/ Len(today.visits) >= target \/ starts = {}
    <2>1. t = today
      BY <1>2 DEF Fill, FillFrom
    <2> QED BY <2>1, <1>1
  <1>3. CASE s \in today.open /\ ~(Len(today.visits) >= target) /\ starts # {}
    <2>1. t = Planned(today, c, s, d, r)
      BY <1>3 DEF Fill, FillFrom
    <2>2. ASSUME NEW o \in starts
          PROVE  /\ o.venue \in Venues /\ VenueId[o.venue] \notin used \cup IdsOf(today.visits)
                 /\ FitsSlot(o.venue, s, today.open)
                 /\ o.start \in StartIn(o.venue, s, today.visits, d, r)
      BY DEF Starts
    <2>3. today.visits \in Seq(Visit)
      BY DEF Today, Morning
    <2>4. \A o \in starts : o.start \in Int /\ Instant(d, SlotFloor[s], r) <= o.start
      BY <2>2, <2>3, StartInFacts
    <2>5. Instant(d, SlotFloor[s], r) \in Int
      BY ClockFacts, InstantFacts
    <2> HIDE DEF starts
    <2>6. c \in starts
      BY <1>3, <2>2, <2>4, <2>5, ChoiceExists
    <2> HIDE DEF c
    <2>7. LET p == Planned(today, c, s, d, r) IN Today(p, d, r, used) /\ UpTo(p.visits, s)
      BY <1>3, <2>2, <2>6, Placed
    <2> QED BY <2>1, <2>7
  <1> QED BY <1>2, <1>3

\* A day packed from any pool can be walked, and takes no venue that is taken.
LEMMA DayPacked ==
    ASSUME NEW pool \in SUBSET Venues, NEW target \in Nat, NEW d \in Nat, NEW r \in Regions, NEW used, NEW f,
           IsFiniteSet(f)
    PROVE  Morning(PackDay(pool, target, d, r, used, f), d, r, used)
  <1> DEFINE then(today, s) == Fill(today, s, pool, target, d, r, used, f)
             empty == [visits |-> <<>>, open |-> Slots]
             morning == then(empty, "morning_tour")
             noon == then(morning, "lunch")
             evening == then(noon, "afternoon_evening_tour")
             night == then(evening, "dinner")
  <1>1. Today(empty, d, r, used) /\ Before(empty.visits, "morning_tour")
    <2>1. <<>> \in Seq(Visit) /\ DOMAIN <<>> = {}
      OBVIOUS
    <2>2. empty.visits = <<>> /\ empty.open = Slots
      OBVIOUS
    <2> HIDE DEF empty
    <2> QED BY <2>1, <2>2 DEF Today, Morning, Walkable, Before
  <1>2. {"morning_tour", "lunch", "afternoon_evening_tour", "dinner"} = Slots
    BY DEF Slots
  <1>3. /\ SlotFloor["morning_tour"] < SlotFloor["lunch"]
        /\ SlotFloor["lunch"] < SlotFloor["afternoon_evening_tour"]
        /\ SlotFloor["afternoon_evening_tour"] < SlotFloor["dinner"]
    BY RulesAssumption DEF SlotFloor, Slots
  <1>4. ASSUME NEW S \in Seq(Visit), NEW s \in Slots, NEW q \in Slots, UpTo(S, s), SlotFloor[s] < SlotFloor[q]
        PROVE  Before(S, q)
    <2>1. \A p \in Slots : SlotFloor[p] \in Nat
      BY ClockFacts
    <2>2. \A i \in DOMAIN S : S[i].slot \in Slots
      BY VisitFacts
    <2> QED BY <2>1, <2>2, <1>4 DEF Before, UpTo
  <1>5. ASSUME NEW x, Today(x, d, r, used) PROVE x.visits \in Seq(Visit)
    BY <1>5 DEF Today, Morning
  <1> HIDE DEF empty
  <1>6. Today(morning, d, r, used) /\ UpTo(morning.visits, "morning_tour")
    BY <1>1, <1>2, Filled
  <1> HIDE DEF morning
  <1>7. Today(noon, d, r, used) /\ UpTo(noon.visits, "lunch")
    BY <1>2, <1>3, <1>4, <1>5, <1>6, Filled
  <1> HIDE DEF noon
  <1>8. Today(evening, d, r, used) /\ UpTo(evening.visits, "afternoon_evening_tour")
    BY <1>2, <1>3, <1>4, <1>5, <1>7, Filled
  <1> HIDE DEF evening
  <1>9. Today(night, d, r, used)
    BY <1>2, <1>3, <1>4, <1>5, <1>8, Filled
  <1>10. PackDay(pool, target, d, r, used, f) = night.visits
    BY DEF PackDay, night, evening, noon, morning, empty
  <1> QED BY <1>9, <1>10 DEF Today

-----------------------------------------------------------------------------
(* Days packed one after the other *)

\* A day whose stops are all later than those before it, with new venues.
LEMMA Joined ==
    ASSUME NEW S \in Seq(Visit), NEW T, NEW d \in Nat, NEW r \in Regions,
           Walkable(S), \A i \in DOMAIN S : S[i].day < d, Morning(T, d, r, UsedIn(r, S))
    PROVE  S \o T \in Seq(Visit) /\ Walkable(S \o T) /\ \A i \in DOMAIN (S \o T) : (S \o T)[i].day <= d
  <1> DEFINE m == Len(S)
             n == Len(T)
             U == S \o T
  <1>1. T \in Seq(Visit) /\ m \in Nat /\ n \in Nat /\ DOMAIN S = 1 .. m /\ DOMAIN T = 1 .. n
    BY DEF Morning
  <1>2. /\ U \in Seq(Visit) /\ DOMAIN U = 1 .. m + n
        /\ \A i \in 1 .. m : U[i] = S[i]
        /\ \A i \in m + 1 .. m + n : i - m \in 1 .. n /\ U[i] = T[i - m]
    BY <1>1
  <1>3. \A i \in 1 .. m + n : i \in 1 .. m \/ i \in m + 1 .. m + n
    BY <1>1
  <1> HIDE DEF U, m, n
  <1>4. \A i \in 1 .. n : T[i].region = r /\ T[i].day = d /\ VenueId[T[i].venue] \notin UsedIn(r, S)
    BY <1>1 DEF Morning
  <1>5. ASSUME NEW i \in 1 .. m PROVE i \in DOMAIN S /\ S[i].day \in Nat /\ S[i].day < d
    <2>1. i \in DOMAIN S /\ S[i] \in Visit
      BY <1>1
    <2> QED BY <2>1, VisitFacts
  <1>6. \A i \in 1 .. m + n : OpenThroughout(U[i]) /\ SlotKept(U[i]) /\ U[i].day <= d
    <2>1. ASSUME NEW i \in 1 .. m PROVE OpenThroughout(U[i]) /\ SlotKept(U[i]) /\ U[i].day <= d
      <3>1. U[i] = S[i]
        BY <1>2
      <3>2. i \in DOMAIN S /\ S[i].day \in Nat /\ S[i].day < d
        BY <1>5
      <3> QED BY <3>1, <3>2 DEF Walkable
    <2>2. ASSUME NEW i \in m + 1 .. m + n PROVE OpenThroughout(U[i]) /\ SlotKept(U[i]) /\ U[i].day <= d
      <3>1. U[i] = T[i - m] /\ i - m \in 1 .. n
        BY <1>2
      <3> QED BY <3>1, <1>1, <1>4 DEF Walkable, Morning
    <2> QED BY <1>3, <2>1, <2>2
  <1>7. ASSUME NEW i \in 1 .. m + n, i > 1 PROVE Reaches(U[i - 1], U[i])
    <2>1. CASE i \in 1 .. m
      <3>1. U[i] = S[i] /\ U[i - 1] = S[i - 1] /\ i \in DOMAIN S
        BY <2>1, <1>1, <1>2, <1>7
      <3> QED BY <3>1, <1>7 DEF Walkable
    <2>2. CASE i = m + 1
      <3>1. U[i - 1].day < d /\ U[i].day = d /\ U[i - 1].day \in Nat
        BY <2>2, <1>1, <1>2, <1>4, <1>5, <1>7
      <3> QED BY <3>1 DEF Reaches
    <2>3. CASE i \in m + 2 .. m + n
      <3>1. /\ i \in m + 1 .. m + n /\ i - 1 \in m + 1 .. m + n
            /\ i - m > 1 /\ (i - 1) - m = (i - m) - 1
        BY <2>3, <1>1
      <3>2. U[i] = T[i - m] /\ U[i - 1] = T[(i - m) - 1] /\ i - m \in DOMAIN T
        BY <3>1, <1>1, <1>2
      <3> QED BY <3>1, <3>2 DEF Walkable, Morning
    <2> QED BY <2>1, <2>2, <2>3, <1>1
  <1>8. ASSUME NEW i \in 1 .. m, NEW j \in m + 1 .. m + n
        PROVE  ~(U[i].region = U[j].region /\ VenueId[U[i].venue] = VenueId[U[j].venue])
    <2>1. U[i] = S[i] /\ i \in DOMAIN S /\ U[j] = T[j - m] /\ j - m \in 1 .. n
      BY <1>1, <1>2
    <2>2. S[i].region = r => VenueId[S[i].venue] \in UsedIn(r, S)
      BY <2>1 DEF UsedIn
    <2> QED BY <2>1, <2>2, <1>4
  <1>9. ASSUME NEW i \in 1 .. m + n, NEW j \in 1 .. m + n, U[i].region = U[j].region,
               VenueId[U[i].venue] = VenueId[U[j].venue]
        PROVE  i = j
    <2>1. CASE i \in 1 .. m /\ j \in 1 .. m
      BY <2>1, <1>1, <1>2, <1>9 DEF Walkable
    <2>2. CASE i \in m + 1 .. m + n /\ j \in m + 1 .. m + n
      <3>1. U[i] = T[i - m] /\ U[j] = T[j - m] /\ i - m \in DOMAIN T /\ j - m \in DOMAIN T
        BY <2>2, <1>1, <1>2
      <3>2. i - m = j - m
        BY <3>1, <1>9 DEF Walkable, Morning
      <3> QED BY <3>2, <1>1
    <2> QED BY <2>1, <2>2, <1>3, <1>8, <1>9
  <1>10. Walkable(U)
    BY <1>2, <1>6, <1>7, <1>9 DEF Walkable
  <1> QED BY <1>2, <1>6, <1>10 DEF U

CityDays == [region : Regions, pool : SUBSET Venues, least : Nat]

\* What is packed of a trip before day `next`.
Packing(done, next) ==
    /\ done \in [visits : Seq(Visit), days : Nat] /\ Walkable(done.visits)
    /\ \A i \in DOMAIN done.visits : done.visits[i].day < next

LEMMA NextPacked ==
    ASSUME NEW first \in Nat, NEW n \in Nat, NEW c \in CityDays, NEW f, IsFiniteSet(f), NEW done,
           n > 0, Packing(done, first + n - 1)
    PROVE  Packing(PackNext(done, n, first, c, f), first + n)
  <1> DEFINE d == first + n - 1
             today == PackDay(c.pool, PerDay, d, c.region, UsedIn(c.region, done.visits), f)
             x == [visits |-> done.visits \o today, days |-> done.days + 1]
  <1>1. c.region \in Regions /\ c.pool \in SUBSET Venues /\ d \in Nat /\ PerDay \in Nat
    <2>1. PerDay \in Nat
      BY PlanAssumption
    <2> QED BY <2>1 DEF CityDays
  <1>2. done.visits \in Seq(Visit) /\ done.days \in Nat /\ Walkable(done.visits)
    BY DEF Packing
  <1>3. \A i \in DOMAIN done.visits : done.visits[i].day \in Nat /\ done.visits[i].day < d
    BY <1>2, VisitFacts DEF Packing
  <1>4. Morning(today, d, c.region, UsedIn(c.region, done.visits))
    <2> HIDE DEF d
    <2> QED BY <1>1, DayPacked
  <1>5. PackNext(done, n, first, c, f) \in {done, x}
    BY DEF PackNext, AppendIfFull
  <1> HIDE DEF today, d
  <1>6. /\ x.visits \in Seq(Visit) /\ Walkable(x.visits) /\ x.days \in Nat
        /\ \A i \in DOMAIN x.visits : x.visits[i].day <= d
    <2>1. x.visits = done.visits \o today /\ x.days = done.days + 1
      OBVIOUS
    <2> HIDE DEF x
    <2>2. /\ done.visits \o today \in Seq(Visit) /\ Walkable(done.visits \o today)
          /\ \A i \in DOMAIN (done.visits \o today) : (done.visits \o today)[i].day <= d
      BY <1>1, <1>2, <1>3, <1>4, Joined
    <2> QED BY <2>1, <2>2, <1>2
  <1>7. \A i \in DOMAIN x.visits : x.visits[i].day \in Nat
    BY <1>6, VisitFacts
  <1>8. x \in [visits : Seq(Visit), days : Nat]
    BY <1>6
  <1> HIDE DEF x
  <1>9. d + 1 = first + n /\ d \in Nat
    BY DEF d
  <1>10. Packing(x, first + n)
    BY <1>6, <1>7, <1>8, <1>9 DEF Packing
  <1>11. Packing(done, first + n)
    BY <1>3, <1>9 DEF Packing
  <1> QED BY <1>5, <1>10, <1>11

\* The recursion over the days defines a function.
Packs(g, N, first, days, f) ==
    g = [n \in 0 .. N |-> IF n = 0 THEN [visits |-> <<>>, days |-> 0]
                          ELSE PackNext(g[n - 1], n, first, days[n], f)]

LEMMA PackedExists ==
    ASSUME NEW N \in Nat, NEW first, NEW days, NEW f
    PROVE  \E g : Packs(g, N, first, days, f)
  <1> DEFINE base == [visits |-> <<>>, days |-> 0]
             step(x, n) == PackNext(x, n, first, days[n], f)
             upTo(g, k) == g = [n \in 0 .. k |-> IF n = 0 THEN base ELSE step(g[n - 1], n)]
             T == {k \in 0 .. N : ~ \E g : upTo(g, k)}
  <1>1. SUFFICES ASSUME T # {} PROVE FALSE
    <2>1. N \in 0 .. N
      OBVIOUS
    <2>2. T = {} => \E g : upTo(g, N)
      BY <2>1
    <2>3. \A g : upTo(g, N) <=> Packs(g, N, first, days, f)
      BY DEF Packs
    <2> HIDE DEF upTo, T
    <2> QED BY <2>2, <2>3
  <1>2. PICK k \in T : \A l \in T : k <= l
    <2>1. T \in SUBSET Nat
      OBVIOUS
    <2> HIDE DEF T
    <2> QED BY <1>1, <2>1, Least
  <1> HIDE DEF step, base
  <1>3. CASE k = 0
    <2> DEFINE g == [n \in 0 .. 0 |-> base]
    <2>1. upTo(g, 0)
      OBVIOUS
    <2> QED BY <2>1, <1>2, <1>3
  <1>4. CASE k # 0
    <2>1. k \in Nat /\ k - 1 \in 0 .. N /\ k - 1 \notin T
      BY <1>2, <1>4
    <2>2. PICK g : upTo(g, k - 1)
      BY <2>1
    <2> DEFINE h == [n \in 0 .. k |-> IF n = k THEN step(g[k - 1], k) ELSE g[n]]
    <2>3. ASSUME NEW n \in 0 .. k PROVE h[n] = IF n = 0 THEN base ELSE step(h[n - 1], n)
      <3>1. CASE n = k
        <4>1. h[k - 1] = g[k - 1] /\ h[k] = step(g[k - 1], k)
          BY <2>1, <1>4
        <4> QED BY <4>1, <3>1, <1>4
      <3>2. CASE n # k /\ n # 0
        <4>1. h[n] = g[n] /\ h[n - 1] = g[n - 1] /\ n \in 0 .. k - 1
          BY <3>2, <2>1
        <4> QED BY <4>1, <2>2, <3>2
      <3>3. CASE n = 0
        <4>1. h[n] = g[n] /\ n \in 0 .. k - 1
          BY <3>3, <2>1, <1>4
        <4> QED BY <4>1, <2>2, <3>3
      <3> QED BY <3>1, <3>2, <3>3
    <2>4. h = [n \in 0 .. k |-> h[n]]
      OBVIOUS
    <2> HIDE DEF h
    <2>5. upTo(h, k)
      BY <2>3, <2>4
    <2> QED BY <2>5, <1>2
  <1> QED BY <1>3, <1>4

\* However many days are packed from `first` on, the whole can be walked.
LEMMA DaysPacked ==
    ASSUME NEW first \in Nat, NEW days \in Seq(CityDays), NEW f, IsFiniteSet(f)
    PROVE  Packing(PackDays(first, days, f), first + Len(days))
  <1> DEFINE N == Len(days)
             base == [visits |-> <<>>, days |-> 0]
             packed == CHOOSE g : Packs(g, N, first, days, f)
             T == {n \in 0 .. N : ~ Packing(packed[n], first + n)}
  <1>1. N \in Nat /\ \A n \in 1 .. N : days[n] \in CityDays
    OBVIOUS
  <1>2. PackDays(first, days, f) = packed[N]
    BY DEF PackDays, Packs
  <1>3. Packs(packed, N, first, days, f)
    BY <1>1, PackedExists
  <1>4. \A n \in 0 .. N : packed[n] = IF n = 0 THEN base ELSE PackNext(packed[n - 1], n, first, days[n], f)
    <2> HIDE DEF packed, N
    <2> QED BY <1>3 DEF Packs
  <1> HIDE DEF packed, N
  <1>5. T = {}
    <2> SUFFICES ASSUME T # {} PROVE FALSE
      OBVIOUS
    <2>1. PICK n \in T : \A l \in T : n <= l
      <3>1. T \in SUBSET Nat
        BY <1>1
      <3> HIDE DEF T
      <3> QED BY <3>1, Least
    <2>2. CASE n = 0
      <3>1. packed[0] = base
        <4>1. 0 \in 0 .. N
          BY <1>1
        <4>2. packed[0] = IF 0 = 0 THEN base ELSE PackNext(packed[0 - 1], 0, first, days[0], f)
          BY <4>1, <1>4
        <4> QED BY <4>2
      <3>2. base \in [visits : Seq(Visit), days : Nat] /\ base.visits = <<>> /\ DOMAIN <<>> = {}
        OBVIOUS
      <3> HIDE DEF base
      <3>3. Packing(base, first + 0)
        BY <3>2 DEF Packing, Walkable
      <3> QED BY <2>1, <2>2, <3>1, <3>3
    <2>3. CASE n # 0
      <3>1. n \in 1 .. N /\ n \in Nat /\ n > 0 /\ n - 1 \in 0 .. N /\ n - 1 \notin T
        BY <2>1, <2>3, <1>1
      <3>2. Packing(packed[n - 1], first + (n - 1))
        BY <3>1
      <3>3. first + (n - 1) = first + n - 1
        BY <3>1
      <3>4. Packing(PackNext(packed[n - 1], n, first, days[n], f), first + n)
        BY <3>1, <3>2, <3>3, <1>1, NextPacked
      <3>5. packed[n] = PackNext(packed[n - 1], n, first, days[n], f)
        BY <1>4, <3>1
      <3> QED BY <3>4, <3>5, <2>1
    <2> QED BY <2>2, <2>3
  <1>6. Packing(packed[N], first + N)
    BY <1>1, <1>5
  <1> QED BY <1>2, <1>6 DEF N

-----------------------------------------------------------------------------
(* The plans of the three forms of a create *)

LEMMA PoolFacts ==
    ASSUME NEW C \in Catalogs, NEW r \in Regions
    PROVE  PoolIn[C][r] \in SUBSET Venues
  <1>1. C \subseteq Venues
    BY PlanAssumption
  <1>2. PoolIn[C][r] = {v \in C : Catalog[v].region = r /\ v \notin Unseedable}
    BY DEF PoolIn
  <1> QED BY <1>1, <1>2

LEMMA BoundFacts ==
    /\ PerDay \in Nat /\ TargetStops \in Nat
    /\ \A f \in Profiles : IsFiniteSet(f)
    /\ Ranges \subseteq Nat \X Nat
  BY PlanAssumption

LEMMA SeqOnInterval ==
    ASSUME NEW X, NEW n \in Int, NEW s \in [1 .. n -> X]
    PROVE  s \in Seq(X)
  <1>1. CASE n \in Nat
    BY <1>1
  <1>2. CASE n \notin Nat
    <2>1. 1 .. n = 1 .. 0
      BY <1>2
    <2>2. s \in [1 .. 0 -> X]
      BY <2>1
    <2> QED BY <2>2
  <1> QED BY <1>1, <1>2

\* Stops as a trip holds them.
Plans(S) == S \in Seq(Visit) /\ Walkable(S)

LEMMA DayPlanned ==
    ASSUME NEW C \in Catalogs, NEW r \in Regions, NEW p \in Ranges
    PROVE  Plans(DayPlan[C][r][p[1]])
  <1>1. p[1] \in Nat /\ p[1] \in {q[1] : q \in Ranges}
    BY BoundFacts
  <1>2. DayPlan[C][r][p[1]] = PackDay(PoolIn[C][r], TargetStops, p[1], r, {}, {})
    BY <1>1 DEF DayPlan
  <1>3. IsFiniteSet({})
    BY FS_EmptySet
  <1>4. Morning(PackDay(PoolIn[C][r], TargetStops, p[1], r, {}, {}), p[1], r, {})
    BY <1>1, <1>3, BoundFacts, PoolFacts, DayPacked
  <1> QED BY <1>2, <1>4 DEF Morning, Plans

LEMMA RangePlanned ==
    ASSUME NEW C \in Catalogs, NEW r \in Regions, NEW p \in Ranges, NEW f \in Profiles
    PROVE  Plans(RangePlan[C][r][p][f])
  <1> DEFINE n == p[2] - p[1] + 1
             full == CityDay(r, PoolIn[C][r], PerDay)
             probed == PackDays(p[1], [i \in 1 .. Min({MaxStarters, n}) |-> full], f).days
             starters == StarterDays(n, probed)
             days == [i \in 1 .. n |-> IF i - 1 \in starters THEN full ELSE DayOff(r)]
  <1>1. p[1] \in Nat /\ n \in Int /\ IsFiniteSet(f)
    BY BoundFacts
  <1>2. RangePlan[C][r][p][f] = PackDays(p[1], days, f).visits
    BY DEF RangePlan
  <1>3. full \in CityDays /\ DayOff(r) \in CityDays
    <2>1. PoolIn[C][r] \in SUBSET Venues /\ {} \in SUBSET Venues /\ PerDay \in Nat
      BY PoolFacts, BoundFacts
    <2> QED BY <2>1 DEF CityDays, CityDay, DayOff
  <1> HIDE DEF full, starters
  <1>4. days \in [1 .. n -> CityDays]
    BY <1>3
  <1> HIDE DEF n, days
  <1>5. days \in Seq(CityDays)
    BY <1>1, <1>4, SeqOnInterval
  <1>6. Packing(PackDays(p[1], days, f), p[1] + Len(days))
    BY <1>1, <1>5, DaysPacked
  <1> QED BY <1>2, <1>6 DEF Packing, Plans

LEMMA CorridorPlanned ==
    ASSUME NEW C \in Catalogs, NEW legs \in Itineraries
    PROVE  Plans(CorridorPlan[C][legs])
  <1> DEFINE first == legs[1].first
             legOn(d) == {k \in DOMAIN legs : d \in legs[k].first .. legs[k].last}
             cityOn(d) == IF legOn(d) = {} THEN DayOff(legs[1].region)
                          ELSE LET r == legs[CHOOSE k \in legOn(d) : TRUE].region IN CityDay(r, PoolIn[C][r], 0)
             n == legs[Len(legs)].last - first + 1
             days == [i \in 1 .. n |-> cityOn(first + i - 1)]
  <1>1. legs \in Seq(Segment) /\ legs # <<>>
    BY PlanAssumption
  <1>2. ASSUME NEW k \in DOMAIN legs
        PROVE  legs[k].region \in Regions /\ legs[k].first \in Nat /\ legs[k].last \in Nat
    <2>1. legs[k] \in Segment
      BY <1>1
    <2> QED BY <2>1 DEF Segment
  <1>3. 1 \in DOMAIN legs /\ Len(legs) \in DOMAIN legs
    BY <1>1
  <1>4. first \in Nat /\ n \in Int
    BY <1>2, <1>3
  <1>5. ASSUME NEW r \in Regions PROVE CityDay(r, PoolIn[C][r], 0) \in CityDays /\ DayOff(r) \in CityDays
    <2>1. PoolIn[C][r] \in SUBSET Venues /\ {} \in SUBSET Venues
      BY PoolFacts
    <2> QED BY <2>1 DEF CityDays, CityDay, DayOff
  <1>6. ASSUME NEW d PROVE cityOn(d) \in CityDays
    <2>1. CASE legOn(d) = {}
      BY <2>1, <1>2, <1>3, <1>5
    <2>2. CASE legOn(d) # {}
      <3> DEFINE k == CHOOSE k \in legOn(d) : TRUE
      <3>1. k \in DOMAIN legs
        BY <2>2
      <3>2. cityOn(d) = CityDay(legs[k].region, PoolIn[C][legs[k].region], 0)
        BY <2>2
      <3> HIDE DEF k
      <3> QED BY <3>1, <3>2, <1>2, <1>5
    <2> QED BY <2>1, <2>2
  <1>7. CorridorPlan[C][legs] = PackDays(first, days, {}).visits
    BY DEF CorridorPlan
  <1> HIDE DEF cityOn
  <1>8. days \in [1 .. n -> CityDays]
    BY <1>6
  <1> HIDE DEF n, days
  <1>9. days \in Seq(CityDays)
    BY <1>4, <1>8, SeqOnInterval
  <1>10. Packing(PackDays(first, days, {}), first + Len(days))
    <2> HIDE DEF first
    <2>1. IsFiniteSet({})
      BY FS_EmptySet
    <2> QED BY <1>4, <1>9, <2>1, DaysPacked
  <1> QED BY <1>7, <1>10 DEF Packing, Plans

-----------------------------------------------------------------------------
(* How many days are filled *)

LEMMA DomainFinite ==
    ASSUME NEW X, NEW S \in Seq(X), NEW I \in SUBSET (DOMAIN S)
    PROVE  IsFiniteSet(I)
  <1>1. DOMAIN S = 1 .. Len(S) /\ Len(S) \in Nat
    OBVIOUS
  <1>2. IsFiniteSet(DOMAIN S)
    BY <1>1, FS_Interval
  <1> QED BY <1>2, FS_Subset

\* No more days can be filled than are asked for.
LEMMA DaysCounted ==
    ASSUME NEW first, NEW days, Len(days) \in Nat, NEW f
    PROVE  PackDays(first, days, f).days \in 0 .. Len(days)
  <1> DEFINE N == Len(days)
             base == [visits |-> <<>>, days |-> 0]
             packed == CHOOSE g : Packs(g, N, first, days, f)
             T == {n \in 0 .. N : packed[n].days \notin 0 .. n}
  <1>1. PackDays(first, days, f) = packed[N]
    BY DEF PackDays, Packs
  <1>2. Packs(packed, N, first, days, f)
    BY PackedExists
  <1>3. \A n \in 0 .. N : packed[n] = IF n = 0 THEN base ELSE PackNext(packed[n - 1], n, first, days[n], f)
    <2> HIDE DEF packed, N
    <2> QED BY <1>2 DEF Packs
  <1>4. N \in Nat
    OBVIOUS
  <1> HIDE DEF packed, N
  <1>5. T = {}
    <2> SUFFICES ASSUME T # {} PROVE FALSE
      OBVIOUS
    <2>1. PICK n \in T : \A l \in T : n <= l
      <3>1. T \in SUBSET Nat
        BY <1>4
      <3> HIDE DEF T
      <3> QED BY <3>1, Least
    <2>2. n \in 0 .. N /\ packed[n].days \notin 0 .. n
      BY <2>1
    <2>3. CASE n = 0
      <3>1. packed[n] = base
        BY <1>3, <2>2, <2>3
      <3> QED BY <3>1, <2>2, <2>3
    <2>4. CASE n # 0
      <3>1. n - 1 \in 0 .. N /\ n - 1 \notin T
        BY <1>4, <2>1, <2>2, <2>4
      <3>2. packed[n - 1].days \in 0 .. n - 1
        BY <3>1
      <3>3. packed[n] = PackNext(packed[n - 1], n, first, days[n], f)
        BY <1>3, <2>2, <2>4
      <3>4. packed[n].days \in {packed[n - 1].days, packed[n - 1].days + 1}
        BY <3>3 DEF PackNext, AppendIfFull
      <3> QED BY <3>2, <3>4, <2>2
    <2> QED BY <2>3, <2>4
  <1>6. packed[N].days \in 0 .. N
    BY <1>4, <1>5
  <1> QED BY <1>1, <1>6 DEF N

LEMMA MaxDaysFacts ==
    ASSUME NEW C \in Catalogs, NEW r \in Regions
    PROVE  MaxDays[C][r] \in 0 .. Ceiling
  <1> DEFINE month == [i \in 1 .. Ceiling |-> CityDay(r, PoolIn[C][r], PerDay)]
             filled(first, f) == PackDays(first, month, f).days
             T == {filled(first, f) : first \in 0 .. Week - 1, f \in Profiles}
  <1>1. MaxDays[C][r] = Min(T)
    BY DEF MaxDays
  <1>2. Ceiling \in Nat /\ 0 \in 0 .. Week - 1 /\ Profiles # {}
    BY PlanAssumption
  <1>3. Len(month) = Ceiling
    BY <1>2
  <1> HIDE DEF month
  <1>4. ASSUME NEW first, NEW f PROVE filled(first, f) \in 0 .. Ceiling
    BY <1>2, <1>3, DaysCounted
  <1> HIDE DEF filled
  <1>5. T \in SUBSET (0 .. Ceiling) /\ T # {}
    BY <1>2, <1>4
  <1> HIDE DEF T
  <1>6. IsFiniteSet(T) /\ T \in SUBSET Int
    <2>1. IsFiniteSet(0 .. Ceiling)
      BY <1>2, FS_Interval
    <2>2. IsFiniteSet(T)
      BY <2>1, <1>5, FS_Subset
    <2>3. \A n \in T : n \in 0 .. Ceiling
      BY <1>5
    <2> QED BY <2>2, <2>3
  <1> QED BY <1>1, <1>5, <1>6, MinOfFinite

-----------------------------------------------------------------------------
(* Packing from the same rows on dates whole weeks apart *)

\* Pools that look the same to the planner: the same facts, each venue in one row.
Alike(P, Q) ==
    /\ P \subseteq Venues /\ Q \subseteq Venues
    /\ \A u, v \in P : VenueId[u] = VenueId[v] => u = v
    /\ \A u, v \in Q : VenueId[u] = VenueId[v] => u = v
    /\ {Facts(v) : v \in P} = {Facts(v) : v \in Q}

LEMMA FactsSame ==
    ASSUME NEW v, NEW w, Facts(v) = Facts(w)
    PROVE  /\ VenueId[v] = VenueId[w] /\ Name[v] = Name[w] /\ Bucket[v] = Bucket[w] /\ Tags[v] = Tags[w]
           /\ HoursOn[v] = HoursOn[w] /\ Catalog[v].place = Catalog[w].place
           /\ Catalog[v].food = Catalog[w].food /\ Catalog[v].dwell = Catalog[w].dwell
           /\ v \in WholeDay <=> w \in WholeDay
           /\ v \in Unseedable <=> w \in Unseedable
  BY DEF Facts

LEMMA AlikeSymmetric ==
    ASSUME NEW P, NEW Q, Alike(P, Q)
    PROVE  Alike(Q, P)
  BY DEF Alike

\* The marks FromCentre counts, each with the facts of its row.
Marks(P) == UNION {{w} \X (1 .. Spot[Catalog[w].place]) : w \in P}
FactMarks(P) == UNION {{Facts(w)} \X (1 .. Spot[Catalog[w].place]) : w \in P}

LEMMA MarksFinite ==
    ASSUME NEW P \in SUBSET Venues
    PROVE  IsFiniteSet(Marks(P)) /\ IsFiniteSet(P)
  <1> DEFINE marks(w) == {w} \X (1 .. Spot[Catalog[w].place])
             all == {marks(w) : w \in P}
  <1>1. \A w \in Venues : Spot[Catalog[w].place] \in Nat
    BY PlanAssumption, RulesAssumption
  <1>2. IsFiniteSet(P)
    BY PlanAssumption, FS_Subset
  <1>3. IsFiniteSet(all)
    <2> DEFINE f == [w \in P |-> marks(w)]
    <2>1. f \in Surjection(P, all)
      BY DEF Surjection
    <2> HIDE DEF f, all
    <2> QED BY <2>1, <1>2, FS_Surjection
  <1>4. ASSUME NEW T \in all PROVE IsFiniteSet(T)
    <2>1. PICK w \in P : T = marks(w)
      OBVIOUS
    <2>2. IsFiniteSet(1 .. Spot[Catalog[w].place])
      <3>1. Spot[Catalog[w].place] \in Int
        BY <1>1
      <3> QED BY <3>1, FS_Interval
    <2>3. IsFiniteSet({w})
      BY FS_Singleton
    <2> QED BY <2>1, <2>2, <2>3, FS_Product
  <1>5. Marks(P) = UNION all
    BY DEF Marks
  <1> HIDE DEF all
  <1> QED BY <1>2, <1>3, <1>4, <1>5, FS_UNION

\* Counting rows, or their marks, is counting facts.
LEMMA CountedByFacts ==
    ASSUME NEW P \in SUBSET Venues, \A u, v \in P : VenueId[u] = VenueId[v] => u = v
    PROVE  /\ Cardinality(P) = Cardinality({Facts(v) : v \in P})
           /\ Cardinality(Marks(P)) = Cardinality(FactMarks(P))
  <1>1. \A u, v \in P : Facts(u) = Facts(v) => u = v
    BY FactsSame
  <1>2. IsFiniteSet(P) /\ IsFiniteSet(Marks(P))
    BY MarksFinite
  <1>3. Cardinality(P) = Cardinality({Facts(v) : v \in P})
    <2> DEFINE g == [v \in P |-> Facts(v)]
               T == {Facts(v) : v \in P}
    <2>1. g \in Injection(P, T) /\ g \in Surjection(P, T)
      BY <1>1 DEF Injection, IsInjective, Surjection
    <2> HIDE DEF g, T
    <2> QED BY <2>1, <1>2, FS_Surjection DEF T
  <1>4. Cardinality(Marks(P)) = Cardinality(FactMarks(P))
    <2> DEFINE g == [m \in Marks(P) |-> <<Facts(m[1]), m[2]>>]
    <2>1. \A m \in Marks(P) : m[1] \in P /\ m = <<m[1], m[2]>> /\ m[2] \in 1 .. Spot[Catalog[m[1]].place]
      BY DEF Marks
    <2>2. \A w \in P : \A k \in 1 .. Spot[Catalog[w].place] : <<w, k>> \in Marks(P)
      BY DEF Marks
    <2>3. \A m \in Marks(P) : g[m] \in FactMarks(P)
      BY <2>1 DEF FactMarks
    <2>4. \A t \in FactMarks(P) : \E m \in Marks(P) : g[m] = t
      <3> SUFFICES ASSUME NEW t \in FactMarks(P) PROVE \E m \in Marks(P) : g[m] = t
        OBVIOUS
      <3>1. PICK w \in P : t \in {Facts(w)} \X (1 .. Spot[Catalog[w].place])
        BY DEF FactMarks
      <3>2. t = <<Facts(w), t[2]>> /\ t[2] \in 1 .. Spot[Catalog[w].place]
        BY <3>1
      <3>3. <<w, t[2]>> \in Marks(P)
        BY <2>2, <3>2
      <3>4. g[<<w, t[2]>>] = <<Facts(w), t[2]>>
        BY <3>3
      <3> QED BY <3>2, <3>3, <3>4
    <2>5. \A m, n \in Marks(P) : g[m] = g[n] => m = n
      <3> SUFFICES ASSUME NEW m \in Marks(P), NEW n \in Marks(P), g[m] = g[n] PROVE m = n
        OBVIOUS
      <3>1. Facts(m[1]) = Facts(n[1]) /\ m[2] = n[2]
        OBVIOUS
      <3> QED BY <3>1, <1>1, <2>1
    <2>6. g \in [Marks(P) -> FactMarks(P)]
      BY <2>3
    <2> HIDE DEF g
    <2>7. g \in Surjection(Marks(P), FactMarks(P)) /\ g \in Injection(Marks(P), FactMarks(P))
      BY <2>4, <2>5, <2>6 DEF Surjection, Injection, IsInjective
    <2> QED BY <2>7, <1>2, FS_Surjection
  <1> QED BY <1>3, <1>4

LEMMA CentreAlike ==
    ASSUME NEW P, NEW Q, Alike(P, Q), NEW v, NEW w, Facts(v) = Facts(w)
    PROVE  FromCentre(v, P) = FromCentre(w, Q)
  <1>1. Cardinality(P) = Cardinality(Q) /\ Cardinality(Marks(P)) = Cardinality(Marks(Q))
    <2>1. FactMarks(P) = FactMarks(Q)
      <3>1. ASSUME NEW A, NEW B, {Facts(u) : u \in A} \subseteq {Facts(u) : u \in B}
            PROVE  FactMarks(A) \subseteq FactMarks(B)
        <4> SUFFICES ASSUME NEW a \in A PROVE {Facts(a)} \X (1 .. Spot[Catalog[a].place]) \subseteq FactMarks(B)
          BY DEF FactMarks
        <4>1. PICK b \in B : Facts(a) = Facts(b)
          BY <3>1
        <4>2. Catalog[a].place = Catalog[b].place
          BY <4>1, FactsSame
        <4> QED BY <4>1, <4>2 DEF FactMarks
      <3>2. {Facts(u) : u \in P} = {Facts(u) : u \in Q}
        BY DEF Alike
      <3> QED BY <3>1, <3>2
    <2>2. P \in SUBSET Venues /\ Q \in SUBSET Venues
      BY DEF Alike
    <2>3. Cardinality(P) = Cardinality({Facts(u) : u \in P}) /\ Cardinality(Marks(P)) = Cardinality(FactMarks(P))
      BY <2>2, CountedByFacts DEF Alike
    <2>4. Cardinality(Q) = Cardinality({Facts(u) : u \in Q}) /\ Cardinality(Marks(Q)) = Cardinality(FactMarks(Q))
      BY <2>2, CountedByFacts DEF Alike
    <2> QED BY <2>1, <2>3, <2>4 DEF Alike
  <1>2. Catalog[v].place = Catalog[w].place
    BY FactsSame
  <1> QED BY <1>1, <1>2 DEF FromCentre, Marks

\* The same day k days later, a whole number of weeks.
Weeks(d, k) == d \in Nat /\ k \in Int /\ d + k \in Nat /\ (d + k) % Week = d % Week

LEMMA WeeksBack ==
    ASSUME NEW d, NEW k, Weeks(d, k)
    PROVE  Weeks(d + k, -k) /\ (d + k) + (-k) = d
  BY DEF Weeks

LEMMA InstantLater ==
    ASSUME NEW d, NEW k, Weeks(d, k), NEW c \in Int, NEW r \in Regions
    PROVE  /\ k * Day \in Int /\ Instant(d, c, r) \in Int
           /\ Instant(d + k, c, r) = Instant(d, c, r) + k * Day
  <1>1. d \in Nat /\ k \in Int /\ d + k \in Nat /\ Day \in Nat
    BY ClockFacts DEF Weeks
  <1>2. (d + k) * Day = d * Day + k * Day /\ k * Day \in Int /\ d * Day \in Int
    BY <1>1
  <1>3. /\ Instant(d, c, r) = d * Day + c - Offset[r] /\ Offset[r] \in Nat
        /\ Instant(d + k, c, r) = (d + k) * Day + c - Offset[r]
    BY <1>1, InstantFacts
  <1> HIDE DEF Instant
  <1> QED BY <1>2, <1>3

LEMMA ClockLater ==
    ASSUME NEW t \in Int, NEW k \in Int, NEW r \in Regions
    PROVE  LocalTime(t + k * Day, r) = LocalTime(t, r)
  <1> DEFINE x == t + Offset[r]
             q == x \div Day
             m == x % Day
  <1>1. Day \in Nat \ {0} /\ Offset[r] \in Nat
    BY ClockFacts
  <1>2. x \in Int
    BY <1>1
  <1> HIDE DEF x
  <1>3. q \in Int /\ m \in 0 .. Day - 1 /\ x = Day * q + m
    BY <1>1, <1>2, Divided
  <1> HIDE DEF q, m
  <1>4. (q + k) * Day = Day * q + k * Day /\ k * Day \in Int /\ Day * q \in Int /\ q + k \in Int
    BY <1>1, <1>3
  <1>5. x + k * Day \in Int /\ (q + k) * Day <= x + k * Day /\ x + k * Day < (q + k) * Day + Day
    BY <1>1, <1>3, <1>4
  <1>6. (x + k * Day) % Day = (x + k * Day) - (q + k) * Day
    BY <1>1, <1>4, <1>5, Quotient
  <1>7. (x + k * Day) % Day = m
    BY <1>1, <1>3, <1>4, <1>6
  <1>8. t + k * Day + Offset[r] = x + k * Day
    BY <1>1, <1>4 DEF x
  <1> QED BY <1>7, <1>8 DEF LocalTime, x, m

LEMMA MaxLater ==
    ASSUME NEW a \in Int, NEW b \in Int, NEW e \in Int
    PROVE  Max({a + e, b + e}) = Max({a, b}) + e
  <1>1. ASSUME NEW x \in Int, NEW y \in Int PROVE Max({x, y}) = IF x <= y THEN y ELSE x
    <2>1. Max({x, y}) \in Int /\ x <= Max({x, y}) /\ y <= Max({x, y})
      BY MaxOfTwo
    <2>2. Max({x, y}) \in {x, y}
      <3>1. \E m \in {x, y} : \A n \in {x, y} : n <= m
        BY x <= y \/ y <= x
      <3> QED BY <3>1 DEF Max
    <2> QED BY <2>1, <2>2
  <1>2. a + e \in Int /\ b + e \in Int
    OBVIOUS
  <1>3. Max({a + e, b + e}) = IF a + e <= b + e THEN b + e ELSE a + e
    BY <1>1, <1>2
  <1> QED BY <1>1, <1>3

\* Stops with the same facts, at the same hours k days later.
Later(S, T, k) ==
    /\ S \in Seq(Visit) /\ T \in Seq(Visit) /\ Len(S) = Len(T)
    /\ \A i \in DOMAIN S : /\ Facts(S[i].venue) = Facts(T[i].venue) /\ S[i].region = T[i].region
                           /\ T[i].start = S[i].start + k * Day

LEMMA LaterBack ==
    ASSUME NEW S, NEW T, NEW k \in Int, Later(S, T, k)
    PROVE  Later(T, S, -k)
  <1>1. k * Day \in Int /\ (-k) * Day = -(k * Day)
    BY ClockFacts
  <1>2. S \in Seq(Visit) /\ T \in Seq(Visit) /\ Len(S) = Len(T)
    BY DEF Later
  <1>3. ASSUME NEW i \in DOMAIN T
        PROVE  /\ Facts(T[i].venue) = Facts(S[i].venue) /\ T[i].region = S[i].region
               /\ S[i].start = T[i].start + (-k) * Day
    <2>1. i \in DOMAIN S /\ S[i] \in Visit /\ T[i] \in Visit
      BY <1>2
    <2>2. /\ Facts(S[i].venue) = Facts(T[i].venue) /\ S[i].region = T[i].region
          /\ T[i].start = S[i].start + k * Day
      BY <2>1 DEF Later
    <2>3. S[i].start \in Int
      BY <2>1, VisitFacts
    <2> QED BY <1>1, <2>2, <2>3
  <1> QED BY <1>2, <1>3 DEF Later

LEMMA ArrivalLater ==
    ASSUME NEW S, NEW T, NEW d, NEW k, Weeks(d, k), Later(S, T, k), NEW r \in Regions,
           NEW v \in Venues, NEW w \in Venues, Facts(v) = Facts(w)
    PROVE  Arrival(S, v, d, r) \in Int /\ Arrival(T, w, d + k, r) = Arrival(S, v, d, r) + k * Day
  <1>1. S \in Seq(Visit) /\ T \in Seq(Visit) /\ Len(S) = Len(T)
    BY DEF Later
  <1>2. 9 * Hour \in Int
    BY ClockFacts
  <1>3. CASE S = <<>>
    <2>1. T = <<>>
      BY <1>1, <1>3
    <2> QED BY <1>2, <1>3, <2>1, InstantLater DEF Arrival
  <1>4. CASE S # <<>>
    <2>1. T # <<>> /\ Len(S) \in DOMAIN S /\ Len(S) \in DOMAIN T
      BY <1>1, <1>4
    <2> DEFINE x == S[Len(S)]
               y == T[Len(S)]
    <2>2. Last(S) = x /\ Last(T) = y
      BY <1>1 DEF Last
    <2>3. x \in Visit /\ y \in Visit /\ Facts(x.venue) = Facts(y.venue) /\ y.start = x.start + k * Day
      BY <1>1, <2>1 DEF Later
    <2> HIDE DEF x, y
    <2>4. /\ Catalog[x.venue].place = Catalog[y.venue].place /\ Catalog[x.venue].dwell = Catalog[y.venue].dwell
          /\ Catalog[v].place = Catalog[w].place
      BY <2>3, FactsSame
    <2>5. VisitEnd(x) \in Int /\ x.start \in Int /\ x.venue \in Venues /\ k * Day \in Int
      BY <2>3, VisitFacts, ClockFacts DEF Weeks
    <2>6. VisitEnd(y) = VisitEnd(x) + k * Day
      <3>1. Catalog[x.venue].dwell \in Nat
        BY <2>5, RulesAssumption
      <3> QED BY <2>3, <2>4, <2>5, <3>1 DEF VisitEnd
    <2> DEFINE walk == Walk[<<Catalog[x.venue].place, Catalog[v].place>>]
    <2>7. walk \in Nat
      BY <2>5, RulesAssumption
    <2>8. Arrival(S, v, d, r) = VisitEnd(x) + walk
      BY <1>4, <2>2 DEF Arrival
    <2>9. Arrival(T, w, d + k, r) = VisitEnd(y) + walk
      BY <2>1, <2>2, <2>4 DEF Arrival
    <2> HIDE DEF walk
    <2> QED BY <2>5, <2>6, <2>7, <2>8, <2>9
  <1> QED BY <1>3, <1>4

LEMMA OpenStartsLater ==
    ASSUME NEW d, NEW k, Weeks(d, k), NEW r \in Regions, NEW h, h = NoHours \/ h \in SUBSET Window,
           NEW cursor \in Int, NEW dwell \in Nat, NEW t \in OpenStarts(h, cursor, dwell, r, d)
    PROVE  t \in Int /\ t + k * Day \in OpenStarts(h, cursor + k * Day, dwell, r, d + k)
  <1> DEFINE a == Instant(d, 0, r)
             b == Instant(d + k, 0, r)
             e == k * Day
             At(x) == IF cursor > x THEN cursor ELSE x
             AtLater(x) == IF cursor + e > x THEN cursor + e ELSE x
  <1>1. a \in Int /\ e \in Int /\ b = a + e /\ Day \in Nat
    BY InstantLater, ClockFacts, 0 \in Int
  <1>2. t + dwell <= a + Day
    BY DEF OpenStarts
  <1>3. ASSUME NEW x \in Int PROVE AtLater(x + e) = At(x) + e /\ At(x) \in Int
    <2> HIDE DEF e
    <2> QED BY <1>1
  <1>4. CASE h = NoHours
    <2>1. t = At(a)
      BY <1>4 DEF OpenStarts
    <2>2. t \in Int /\ t + e = AtLater(b)
      <3> HIDE DEF At, AtLater, a, b, e
      <3> QED BY <1>1, <1>3, <2>1
    <2>3. t + e + dwell <= b + Day
      <3> HIDE DEF a, b, e
      <3> QED BY <1>1, <1>2, <2>2
    <2> QED BY <1>4, <2>2, <2>3 DEF OpenStarts
  <1>5. CASE h # NoHours
    <2>1. PICK w \in h :
            /\ t = At(a + w.open)
            /\ At(a + w.open) + dwell <= IF w.open < w.close THEN a + w.close ELSE a + Day
      BY <1>5 DEF OpenStarts
    <2>2. w.open \in Nat /\ w.close \in Nat
      BY <1>5 DEF Window
    <2>3. t \in Int /\ t + e = AtLater(b + w.open)
      <3>1. a + w.open \in Int /\ b + w.open = a + w.open + e
        <4> HIDE DEF a, b, e
        <4> QED BY <1>1, <2>2
      <3> HIDE DEF At, AtLater, a, b, e
      <3> QED BY <1>3, <2>1, <3>1
    <2>4. t + e + dwell <= IF w.open < w.close THEN b + w.close ELSE b + Day
      <3> HIDE DEF At, a, b, e
      <3> QED BY <1>1, <2>1, <2>2, <2>3
    <2>5. t + e + dwell <= b + Day
      <3> HIDE DEF a, b, e
      <3> QED BY <1>1, <1>2, <2>3
    <2> QED BY <1>5, <2>3, <2>4, <2>5 DEF OpenStarts
  <1> QED BY <1>4, <1>5

\* A row can start in a slot k days later when a row like it could.
LEMMA StartInLater ==
    ASSUME NEW S, NEW T, NEW d, NEW k, Weeks(d, k), Later(S, T, k), NEW r \in Regions, NEW s \in Slots,
           NEW v \in Venues, NEW w \in Venues, Facts(v) = Facts(w), NEW t \in StartIn(v, s, S, d, r)
    PROVE  t \in Int /\ t + k * Day \in StartIn(w, s, T, d + k, r)
  <1> DEFINE h == HoursOn[v][d % Week]
             cursor == Max({Arrival(S, v, d, r), Instant(d, SlotFloor[s], r)})
             dwell == Catalog[v].dwell
             e == k * Day
  <1>1. d \in Nat /\ k \in Int /\ d + k \in Nat /\ (d + k) % Week = d % Week
    BY DEF Weeks
  <1>2. HoursOn[w] = HoursOn[v] /\ Catalog[w].dwell = dwell /\ dwell \in Nat
    BY FactsSame, RulesAssumption
  <1>3. h = NoHours \/ h \in SUBSET Window
    BY <1>1, HoursFacts
  <1>4. cursor \in Int /\ e \in Int
        /\ Max({Arrival(T, w, d + k, r), Instant(d + k, SlotFloor[s], r)}) = cursor + e
    <2>1. Arrival(S, v, d, r) \in Int /\ Arrival(T, w, d + k, r) = Arrival(S, v, d, r) + e
      BY ArrivalLater
    <2>2. SlotFloor[s] \in Int
      BY ClockFacts
    <2>3. e \in Int /\ Instant(d, SlotFloor[s], r) \in Int
          /\ Instant(d + k, SlotFloor[s], r) = Instant(d, SlotFloor[s], r) + e
      BY <2>2, InstantLater
    <2> DEFINE x == Arrival(S, v, d, r)
               y == Instant(d, SlotFloor[s], r)
    <2>4. x \in Int /\ y \in Int /\ e \in Int
      BY <2>1, <2>3
    <2>5. Max({Arrival(T, w, d + k, r), Instant(d + k, SlotFloor[s], r)}) = Max({x + e, y + e})
      BY <2>1, <2>3
    <2>6. cursor = Max({x, y})
      OBVIOUS
    <2> HIDE DEF e, x, y, cursor
    <2>7. Max({x, y}) \in Int /\ Max({x + e, y + e}) = Max({x, y}) + e
      BY <2>4, MaxOfTwo, MaxLater
    <2> QED BY <2>4, <2>5, <2>6, <2>7
  <1>5. /\ t \in OpenStarts(h, cursor, dwell, r, d) /\ SlotAccepts(s, LocalTime(t, r))
        /\ \A u \in OpenStarts(h, cursor, dwell, r, d) : t <= u
    BY DEF StartIn, Earliest
  <1> DEFINE later == OpenStarts(h, cursor + e, dwell, r, d + k)
  <1>6. StartIn(w, s, T, d + k, r) = {x \in Earliest(later) : SlotAccepts(s, LocalTime(x, r))}
    BY <1>1, <1>2, <1>4 DEF StartIn
  <1> HIDE DEF cursor, dwell, h
  <1>7. t \in Int /\ t + e \in later
    BY <1>2, <1>3, <1>4, <1>5, OpenStartsLater
  <1>8. ASSUME NEW u \in later PROVE t + e <= u
    <2>1. Weeks(d + k, -k) /\ (d + k) + (-k) = d /\ -k \in Int
      BY <1>1, WeeksBack
    <2>2. (-k) * Day = -e
      BY <1>1, ClockFacts
    <2> HIDE DEF e
    <2>3. (cursor + e) + (-e) = cursor /\ cursor + e \in Int
      BY <1>4
    <2>4. u \in Int /\ u + (-k) * Day \in OpenStarts(h, (cursor + e) + (-k) * Day, dwell, r, (d + k) + (-k))
      BY <1>2, <1>3, <2>1, <2>3, OpenStartsLater
    <2>5. u \in Int /\ u + (-e) \in OpenStarts(h, cursor, dwell, r, d)
      BY <2>1, <2>2, <2>3, <2>4
    <2>6. t <= u + (-e)
      BY <1>5, <2>5
    <2> QED BY <1>4, <1>7, <2>5, <2>6
  <1>9. SlotAccepts(s, LocalTime(t + e, r))
    <2>1. LocalTime(t + e, r) = LocalTime(t, r)
      BY <1>1, <1>7, ClockLater
    <2> QED BY <1>5, <2>1
  <1> HIDE DEF later, e
  <1>10. t + e \in StartIn(w, s, T, d + k, r)
    BY <1>6, <1>7, <1>8, <1>9 DEF Earliest
  <1> QED BY <1>7, <1>10 DEF e

\* Candidates with the same facts, the start of one by e after that of the other.
CandidateLater(b, c, e) ==
    /\ b.venue \in Venues /\ c.venue \in Venues /\ b.start \in Int
    /\ Facts(b.venue) = Facts(c.venue) /\ c.start = b.start + e

\* Every candidate of S has one in T.
Covers(T, S, e) == \A b \in S : \E c \in T : CandidateLater(b, c, e)

\* Each of two sets of candidates is the other, moved.
Mirrored(S, T, e) == e \in Int /\ Covers(T, S, e) /\ Covers(S, T, -e)

\* Two keys give rows with the same facts the same place.
Agree(key, other) == \A v, w \in Venues : Facts(v) = Facts(w) => key[v] \in Nat /\ other[w] = key[v]

LEMMA CandidateBack ==
    ASSUME NEW e \in Int, NEW b, NEW c, CandidateLater(b, c, e)
    PROVE  CandidateLater(c, b, -e)
  BY DEF CandidateLater

LEMMA LowestCovered ==
    ASSUME NEW e \in Int, NEW S, NEW T, Covers(T, S, e), Covers(S, T, -e), NEW key, NEW other, Agree(key, other)
    PROVE  Covers(Lowest(T, other), Lowest(S, key), e)
  <1> SUFFICES ASSUME NEW b \in Lowest(S, key)
               PROVE  \E c \in Lowest(T, other) : CandidateLater(b, c, e)
    BY DEF Covers
  <1>1. b \in S /\ \A o \in S : key[b.venue] <= key[o.venue]
    BY DEF Lowest
  <1>2. PICK c \in T : CandidateLater(b, c, e)
    BY <1>1 DEF Covers
  <1>3. ASSUME NEW o \in T PROVE other[c.venue] <= other[o.venue]
    <2>1. PICK x \in S : CandidateLater(o, x, -e)
      BY DEF Covers
    <2>2. key[b.venue] <= key[x.venue]
      BY <1>1, <2>1
    <2>3. other[c.venue] = key[b.venue]
      BY <1>2 DEF CandidateLater, Agree
    <2>4. other[o.venue] = key[x.venue]
      BY <2>1 DEF CandidateLater, Agree
    <2> QED BY <2>2, <2>3, <2>4
  <1> QED BY <1>2, <1>3 DEF Lowest

LEMMA LowestMirrored ==
    ASSUME NEW S, NEW T, NEW e, Mirrored(S, T, e), NEW key, NEW other, Agree(key, other)
    PROVE  Mirrored(Lowest(S, key), Lowest(T, other), e)
  <1>1. Agree(other, key)
    BY DEF Agree
  <1>2. e \in Int /\ -e \in Int /\ -(-e) = e
    BY DEF Mirrored
  <1>3. Covers(Lowest(T, other), Lowest(S, key), e)
    BY <1>2, LowestCovered DEF Mirrored
  <1>4. Covers(Lowest(S, key), Lowest(T, other), -e)
    BY <1>1, <1>2, LowestCovered DEF Mirrored
  <1> QED BY <1>2, <1>3, <1>4 DEF Mirrored

LEMMA OrderMirrored ==
    ASSUME NEW S, NEW T, NEW e, Mirrored(S, T, e), NEW P, NEW Q, Alike(P, Q), NEW f, IsFiniteSet(f)
    PROVE  Mirrored(FirstInOrder(S, P, f), FirstInOrder(T, Q, f), e)
  <1> DEFINE missed == [v \in Venues |-> Cardinality(f \ Tags[v])]
             offP == [v \in Venues |-> FromCentre(v, P)]
             offQ == [v \in Venues |-> FromCentre(v, Q)]
  <1>1. P \in SUBSET Venues /\ Q \in SUBSET Venues
    BY DEF Alike
  <1>2. Agree(missed, missed)
    <2> SUFFICES ASSUME NEW v \in Venues, NEW w \in Venues, Facts(v) = Facts(w)
                 PROVE  missed[v] \in Nat /\ missed[w] = missed[v]
      BY DEF Agree
    <2>1. IsFiniteSet(f \ Tags[v])
      BY FS_Subset
    <2> QED BY <2>1, FS_CardinalityType, FactsSame
  <1>3. Agree(offP, offQ)
    BY <1>1, CentreAlike, CentreInNat DEF Agree
  <1>4. Agree(Name, Name) /\ Agree(VenueId, VenueId)
    <2>1. \A v \in Venues : Name[v] \in Nat /\ VenueId[v] \in Nat
      BY PlanAssumption
    <2>2. \A v, w : Facts(v) = Facts(w) => Name[v] = Name[w] /\ VenueId[v] = VenueId[w]
      BY FactsSame
    <2> QED BY <2>1, <2>2 DEF Agree
  <1>5. /\ FirstInOrder(S, P, f) = Lowest(Lowest(Lowest(Lowest(S, missed), offP), Name), VenueId)
        /\ FirstInOrder(T, Q, f) = Lowest(Lowest(Lowest(Lowest(T, missed), offQ), Name), VenueId)
    BY DEF FirstInOrder
  <1> HIDE DEF missed, offP, offQ
  <1>6. Mirrored(Lowest(S, missed), Lowest(T, missed), e)
    BY <1>2, LowestMirrored
  <1>7. Mirrored(Lowest(Lowest(S, missed), offP), Lowest(Lowest(T, missed), offQ), e)
    BY <1>3, <1>6, LowestMirrored
  <1>8. Mirrored(Lowest(Lowest(Lowest(S, missed), offP), Name), Lowest(Lowest(Lowest(T, missed), offQ), Name), e)
    BY <1>4, <1>7, LowestMirrored
  <1> QED BY <1>4, <1>5, <1>8, LowestMirrored

\* The order leaves no tie: a venue is in the pool once.
LEMMA OneInOrder ==
    ASSUME NEW S, NEW P, NEW f, \A u, v \in P : VenueId[u] = VenueId[v] => u = v,
           \A c \in S : c.venue \in P /\ VenueId[c.venue] \in Nat,
           NEW b \in FirstInOrder(S, P, f), NEW c \in FirstInOrder(S, P, f)
    PROVE  b.venue = c.venue /\ b \in S /\ c \in S
  <1>1. PICK U : U \subseteq S /\ FirstInOrder(S, P, f) = Lowest(U, VenueId)
    <2> DEFINE one == Lowest(S, [v \in Venues |-> Cardinality(f \ Tags[v])])
               two == Lowest(one, [v \in Venues |-> FromCentre(v, P)])
               three == Lowest(two, Name)
    <2>1. FirstInOrder(S, P, f) = Lowest(three, VenueId)
      BY DEF FirstInOrder
    <2>2. \A X, key : Lowest(X, key) \subseteq X
      BY DEF Lowest
    <2>3. three \subseteq S
      <3>1. one \subseteq S
        BY <2>2
      <3>2. two \subseteq one
        BY <2>2
      <3>3. three \subseteq two
        BY <2>2
      <3> HIDE DEF one, two, three
      <3> QED BY <3>1, <3>2, <3>3
    <2> HIDE DEF three
    <2> QED BY <2>1, <2>3
  <1>2. b \in U /\ c \in U /\ VenueId[b.venue] <= VenueId[c.venue] /\ VenueId[c.venue] <= VenueId[b.venue]
    BY <1>1 DEF Lowest
  <1>3. VenueId[b.venue] = VenueId[c.venue]
    BY <1>1, <1>2
  <1> QED BY <1>1, <1>2, <1>3

\* Among mirrored candidates the same row is taken.
LEMMA ChoiceMirrored ==
    ASSUME NEW S, NEW T, NEW e, Mirrored(S, T, e), S # {}, NEW P, NEW Q, Alike(P, Q), NEW f, IsFiniteSet(f),
           NEW b \in Int, \A c \in S : c.venue \in P /\ c.start \in Int /\ b <= c.start,
           NEW x \in Int, \A c \in T : c.venue \in Q /\ c.start \in Int /\ x <= c.start,
           NEW U, NEW V, NEW k, Later(U, V, k)
    PROVE  CandidateLater(Choice(S, U, P, f), Choice(T, V, Q, f), e)
  <1> DEFINE firstS == {c \in S : \A o \in S : c.start <= o.start}
             firstT == {c \in T : \A o \in T : c.start <= o.start}
             freshS == {c \in firstS : \A i \in DOMAIN U : Bucket[U[i].venue] # Bucket[c.venue]}
             freshT == {c \in firstT : \A i \in DOMAIN V : Bucket[V[i].venue] # Bucket[c.venue]}
             rivalsS == IF freshS # {} THEN freshS ELSE firstS
             rivalsT == IF freshT # {} THEN freshT ELSE firstT
             taken(W) == {Bucket[W[i].venue] : i \in DOMAIN W}
  <1>0. P \subseteq Venues /\ Q \subseteq Venues /\ T # {}
    BY DEF Alike, Mirrored, Covers
  <1>1. ASSUME NEW A, NEW B, NEW y \in Int, Covers(B, A, y), Covers(A, B, -y),
               \A c \in A : c.start \in Int, \A c \in B : c.start \in Int
        PROVE  Covers({c \in B : \A o \in B : c.start <= o.start}, {c \in A : \A o \in A : c.start <= o.start}, y)
    <2> SUFFICES ASSUME NEW a \in A, \A o \in A : a.start <= o.start
                 PROVE  \E c \in {c \in B : \A o \in B : c.start <= o.start} : CandidateLater(a, c, y)
      BY DEF Covers
    <2>1. PICK c \in B : CandidateLater(a, c, y)
      BY <1>1 DEF Covers
    <2>2. ASSUME NEW o \in B PROVE c.start <= o.start
      <3>1. PICK z \in A : CandidateLater(o, z, -y)
        BY <1>1 DEF Covers
      <3>2. a.start <= z.start /\ c.start = a.start + y /\ z.start = o.start + (-y)
        BY <2>1, <3>1 DEF CandidateLater
      <3>3. o.start \in Int /\ a.start \in Int
        BY <1>1
      <3> QED BY <3>2, <3>3
    <2> QED BY <2>1, <2>2
  <1>2. Mirrored(firstS, firstT, e)
    <2>1. e \in Int /\ -e \in Int /\ -(-e) = e /\ Covers(T, S, e) /\ Covers(S, T, -e)
      BY DEF Mirrored
    <2>2. Covers(firstT, firstS, e)
      BY <1>1, <2>1
    <2>3. Covers(firstS, firstT, -e)
      BY <1>1, <2>1
    <2> QED BY <2>1, <2>2, <2>3 DEF Mirrored
  <1>3. taken(U) = taken(V)
    <2>1. DOMAIN U = DOMAIN V /\ \A i \in DOMAIN U : Facts(U[i].venue) = Facts(V[i].venue)
      BY DEF Later
    <2>2. \A i \in DOMAIN U : Bucket[U[i].venue] = Bucket[V[i].venue]
      BY <2>1, FactsSame
    <2> QED BY <2>1, <2>2
  <1>4. Mirrored(freshS, freshT, e)
    <2>1. freshS = {c \in firstS : Bucket[c.venue] \notin taken(U)}
          /\ freshT = {c \in firstT : Bucket[c.venue] \notin taken(U)}
      BY <1>3
    <2>2. \A c, z, y : CandidateLater(c, z, y) => Bucket[c.venue] = Bucket[z.venue]
      BY FactsSame DEF CandidateLater
    <2> HIDE DEF firstS, firstT, freshS, freshT, taken
    <2> QED BY <1>2, <2>1, <2>2 DEF Mirrored, Covers
  <1>5. /\ Choice(S, U, P, f) = CHOOSE c \in FirstInOrder(rivalsS, P, f) : TRUE
        /\ Choice(T, V, Q, f) = CHOOSE c \in FirstInOrder(rivalsT, Q, f) : TRUE
    BY DEF Choice
  <1>6. firstS \subseteq S /\ firstT \subseteq T /\ freshS \subseteq firstS /\ freshT \subseteq firstT
        /\ \A y, z \in firstT : y.start <= z.start /\ z.start <= y.start
    OBVIOUS
  <1>7. firstS # {}
    <2> DEFINE starts == {c.start : c \in S}
    <2>1. PICK m \in starts : \A n \in starts : m <= n
      <3>1. starts \in SUBSET Int /\ starts # {} /\ \A n \in starts : b <= n
        OBVIOUS
      <3> HIDE DEF starts
      <3> QED BY <3>1, LeastAbove
    <2>2. PICK c \in S : m = c.start
      BY <2>1
    <2>3. \A o \in S : c.start <= o.start
      BY <2>1, <2>2
    <2> QED BY <2>3
  <1> HIDE DEF firstS, firstT, freshS, freshT
  <1>8. Mirrored(rivalsS, rivalsT, e) /\ rivalsS # {} /\ rivalsS \subseteq S /\ rivalsT \subseteq firstT
    <2>1. freshS # {} <=> freshT # {}
      BY <1>4 DEF Mirrored, Covers
    <2> QED BY <1>2, <1>4, <1>6, <1>7, <2>1
  <1> HIDE DEF rivalsS, rivalsT
  <1> DEFINE orderS == FirstInOrder(rivalsS, P, f)
             orderT == FirstInOrder(rivalsT, Q, f)
  <1>9. Mirrored(orderS, orderT, e)
    BY <1>8, OrderMirrored
  <1>10. orderS # {} /\ orderS \subseteq rivalsS
    <2>1. \A c \in rivalsS : c.venue \in Venues
      BY <1>0, <1>8
    <2> QED BY <1>0, <1>8, <2>1, FirstInOrderExists
  <1>11. \A y, z \in orderT : y.venue = z.venue /\ y.start = z.start
    <2> SUFFICES ASSUME NEW y \in orderT, NEW z \in orderT PROVE y.venue = z.venue /\ y.start = z.start
      OBVIOUS
    <2>1. \A c \in rivalsT : c.venue \in Q /\ VenueId[c.venue] \in Nat
      <3>1. \A v \in Venues : VenueId[v] \in Nat
        BY PlanAssumption
      <3> QED BY <1>0, <1>6, <1>8, <3>1
    <2>2. \A u, v \in Q : VenueId[u] = VenueId[v] => u = v
      BY DEF Alike
    <2>3. y.venue = z.venue /\ y \in rivalsT /\ z \in rivalsT
      BY <2>1, <2>2, OneInOrder
    <2>4. y.start \in Int /\ z.start \in Int /\ y.start <= z.start /\ z.start <= y.start
      BY <1>6, <1>8, <2>3
    <2> QED BY <2>3, <2>4
  <1> DEFINE c == Choice(S, U, P, f)
             z == Choice(T, V, Q, f)
  <1>12. c \in orderS /\ z \in orderT
    <2>1. orderT # {}
      BY <1>9, <1>10 DEF Mirrored, Covers
    <2> QED BY <1>5, <1>10, <2>1
  <1> HIDE DEF c, z, orderS, orderT
  <1>13. PICK y \in orderT : CandidateLater(c, y, e)
    BY <1>9, <1>12 DEF Mirrored, Covers
  <1>14. y.venue = z.venue /\ y.start = z.start
    BY <1>11, <1>12
  <1>15. CandidateLater(c, z, e)
    BY <1>13, <1>14 DEF CandidateLater
  <1> QED BY <1>15 DEF c, z

LEMMA IdsLater ==
    ASSUME NEW S, NEW T, NEW k, Later(S, T, k), NEW r
    PROVE  IdsOf(S) = IdsOf(T) /\ UsedIn(r, S) = UsedIn(r, T)
  <1>1. DOMAIN S = DOMAIN T /\ \A i \in DOMAIN S : Facts(S[i].venue) = Facts(T[i].venue) /\ S[i].region = T[i].region
    BY DEF Later
  <1>2. \A i \in DOMAIN S : VenueId[S[i].venue] = VenueId[T[i].venue]
    BY <1>1, FactsSame
  <1> QED BY <1>1, <1>2 DEF IdsOf, UsedIn

\* What is planned of a day, k days later.
TodayLater(today, then, k) == Later(today.visits, then.visits, k) /\ today.open = then.open

LEMMA StartsCovered ==
    ASSUME NEW P, NEW Q, Alike(P, Q), NEW d, NEW k, Weeks(d, k), NEW today, NEW then, TodayLater(today, then, k),
           NEW r \in Regions, NEW s \in Slots, NEW used
    PROVE  Covers(Starts(then, s, Q, d + k, r, used), Starts(today, s, P, d, r, used), k * Day)
  <1> SUFFICES ASSUME NEW b \in Starts(today, s, P, d, r, used)
               PROVE  \E c \in Starts(then, s, Q, d + k, r, used) : CandidateLater(b, c, k * Day)
    BY DEF Covers
  <1>0. PICK v \in P : \E t \in StartIn(v, s, today.visits, d, r) :
            /\ b = [venue |-> v, start |-> t]
            /\ VenueId[v] \notin used \cup IdsOf(today.visits) /\ FitsSlot(v, s, today.open)
    BY DEF Starts
  <1>1. PICK t \in StartIn(v, s, today.visits, d, r) :
            /\ b = [venue |-> v, start |-> t]
            /\ VenueId[v] \notin used \cup IdsOf(today.visits) /\ FitsSlot(v, s, today.open)
    BY <1>0
  <1>2. PICK w \in Q : Facts(v) = Facts(w)
    BY DEF Alike
  <1>3. v \in Venues /\ w \in Venues
    BY DEF Alike
  <1>4. Later(today.visits, then.visits, k) /\ today.open = then.open
    BY DEF TodayLater
  <1>5. t \in Int /\ t + k * Day \in StartIn(w, s, then.visits, d + k, r)
    BY <1>2, <1>3, <1>4, StartInLater
  <1>6. VenueId[w] \notin used \cup IdsOf(then.visits) /\ FitsSlot(w, s, then.open)
    <2>1. IdsOf(then.visits) = IdsOf(today.visits)
      BY <1>4, IdsLater
    <2>2. VenueId[w] = VenueId[v] /\ (v \in WholeDay <=> w \in WholeDay) /\ Catalog[v].food = Catalog[w].food
      BY <1>2, FactsSame
    <2> QED BY <1>1, <1>4, <2>1, <2>2 DEF FitsSlot
  <1> DEFINE c == [venue |-> w, start |-> t + k * Day]
  <1>7. c \in Starts(then, s, Q, d + k, r, used)
    <2>1. w \in {u \in Q : VenueId[u] \notin used \cup IdsOf(then.visits) /\ FitsSlot(u, s, then.open)}
      BY <1>2, <1>6
    <2>2. c \in {[venue |-> w, start |-> x] : x \in StartIn(w, s, then.visits, d + k, r)}
      BY <1>5
    <2> QED BY <2>1, <2>2 DEF Starts
  <1>8. CandidateLater(b, c, k * Day)
    BY <1>1, <1>2, <1>3, <1>5 DEF CandidateLater
  <1> QED BY <1>7, <1>8

LEMMA StartsMirrored ==
    ASSUME NEW P, NEW Q, Alike(P, Q), NEW d, NEW k, Weeks(d, k), NEW today, NEW then, TodayLater(today, then, k),
           NEW r \in Regions, NEW s \in Slots, NEW used
    PROVE  Mirrored(Starts(today, s, P, d, r, used), Starts(then, s, Q, d + k, r, used), k * Day)
  <1>1. Covers(Starts(then, s, Q, d + k, r, used), Starts(today, s, P, d, r, used), k * Day)
    BY StartsCovered
  <1>2. Weeks(d + k, -k) /\ (d + k) + (-k) = d /\ k \in Int
    BY WeeksBack DEF Weeks
  <1>3. TodayLater(then, today, -k)
    BY <1>2, LaterBack DEF TodayLater
  <1>4. Alike(Q, P)
    BY AlikeSymmetric
  <1>5. Covers(Starts(today, s, P, (d + k) + (-k), r, used), Starts(then, s, Q, d + k, r, used), (-k) * Day)
    BY <1>2, <1>3, <1>4, StartsCovered
  <1>6. k * Day \in Int /\ (-k) * Day = -(k * Day)
    BY <1>2, ClockFacts
  <1> QED BY <1>1, <1>2, <1>5, <1>6 DEF Mirrored

LEMMA CandidateFacts ==
    ASSUME NEW P \in SUBSET Venues, NEW d \in Nat, NEW today, today.visits \in Seq(Visit), NEW r \in Regions,
           NEW s \in Slots, NEW used
    PROVE  /\ Instant(d, SlotFloor[s], r) \in Int
           /\ \A c \in Starts(today, s, P, d, r, used) :
                  c.venue \in P /\ c.start \in Int /\ Instant(d, SlotFloor[s], r) <= c.start
  <1>1. \A c \in Starts(today, s, P, d, r, used) :
            c.venue \in P /\ c.start \in StartIn(c.venue, s, today.visits, d, r)
    BY DEF Starts
  <1>2. Instant(d, SlotFloor[s], r) \in Int
    BY ClockFacts, InstantFacts
  <1> QED BY <1>1, <1>2, StartInFacts

\* Placing the same row keeps it so.
LEMMA PlannedLater ==
    ASSUME NEW today, NEW then, NEW k, TodayLater(today, then, k), NEW b, NEW c, CandidateLater(b, c, k * Day),
           c.start \in Int, NEW s \in Slots, NEW d, Weeks(d, k), NEW r \in Regions
    PROVE  TodayLater(Planned(today, b, s, d, r), Planned(then, c, s, d + k, r), k)
  <1> DEFINE x == [venue |-> b.venue, region |-> r, day |-> d, slot |-> s, start |-> b.start, skipped |-> FALSE]
             y == [venue |-> c.venue, region |-> r, day |-> d + k, slot |-> s, start |-> c.start, skipped |-> FALSE]
             S == today.visits
             T == then.visits
  <1>1. d \in Nat /\ d + k \in Nat
    BY DEF Weeks
  <1>2. /\ b.venue \in Venues /\ c.venue \in Venues /\ b.start \in Int /\ c.start \in Int
        /\ Facts(b.venue) = Facts(c.venue) /\ c.start = b.start + k * Day
    BY DEF CandidateLater
  <1>3. /\ x \in Visit /\ y \in Visit
        /\ Facts(x.venue) = Facts(y.venue) /\ x.region = y.region /\ y.start = x.start + k * Day
    BY <1>1, <1>2 DEF Visit
  <1>4. /\ Planned(today, b, s, d, r).visits = Append(S, x)
        /\ Planned(then, c, s, d + k, r).visits = Append(T, y)
    BY DEF Planned
  <1>5. Planned(today, b, s, d, r).open = Planned(then, c, s, d + k, r).open
    <2>1. b.venue \in WholeDay <=> c.venue \in WholeDay
      BY <1>2, FactsSame
    <2> QED BY <2>1 DEF Planned, TodayLater
  <1>6. /\ S \in Seq(Visit) /\ T \in Seq(Visit) /\ Len(S) = Len(T)
        /\ \A i \in DOMAIN S : /\ Facts(S[i].venue) = Facts(T[i].venue) /\ S[i].region = T[i].region
                               /\ T[i].start = S[i].start + k * Day
    BY DEF TodayLater, Later
  <1> HIDE DEF S, T, x, y
  <1>7. Append(S, x) \in Seq(Visit) /\ Append(T, y) \in Seq(Visit) /\ Len(Append(S, x)) = Len(Append(T, y))
    BY <1>3, <1>6
  <1>8. ASSUME NEW i \in DOMAIN Append(S, x)
        PROVE  \/ i \in DOMAIN S /\ Append(S, x)[i] = S[i] /\ Append(T, y)[i] = T[i]
               \/ Append(S, x)[i] = x /\ Append(T, y)[i] = y
    BY <1>3, <1>6
  <1>9. Later(Append(S, x), Append(T, y), k)
    BY <1>3, <1>6, <1>7, <1>8 DEF Later
  <1> QED BY <1>4, <1>5, <1>9 DEF TodayLater

LEMMA FillLater ==
    ASSUME NEW P, NEW Q, Alike(P, Q), NEW d, NEW k, Weeks(d, k), NEW today, NEW then, TodayLater(today, then, k),
           NEW r \in Regions, NEW s \in Slots, NEW target, NEW used, NEW f, IsFiniteSet(f)
    PROVE  TodayLater(Fill(today, s, P, target, d, r, used, f), Fill(then, s, Q, target, d + k, r, used, f), k)
  <1> DEFINE S == Starts(today, s, P, d, r, used)
             T == Starts(then, s, Q, d + k, r, used)
  <1>1. Mirrored(S, T, k * Day)
    BY StartsMirrored
  <1>2. Len(today.visits) = Len(then.visits) /\ today.open = then.open /\ Later(today.visits, then.visits, k)
        /\ today.visits \in Seq(Visit) /\ then.visits \in Seq(Visit)
    BY DEF TodayLater, Later
  <1>3. d \in Nat /\ d + k \in Nat /\ P \in SUBSET Venues /\ Q \in SUBSET Venues
    BY DEF Weeks, Alike
  <1>4. /\ Instant(d, SlotFloor[s], r) \in Int /\ Instant(d + k, SlotFloor[s], r) \in Int
        /\ \A c \in S : c.venue \in P /\ c.start \in Int /\ Instant(d, SlotFloor[s], r) <= c.start
        /\ \A c \in T : c.venue \in Q /\ c.start \in Int /\ Instant(d + k, SlotFloor[s], r) <= c.start
    BY <1>2, <1>3, CandidateFacts
  <1>5. S = {} <=> T = {}
    <2> HIDE DEF S, T
    <2> QED BY <1>1 DEF Mirrored, Covers
  <1>6. CASE s \notin today.open \/ Len(today.visits) >= target \/ S = {}
    BY <1>2, <1>5, <1>6 DEF Fill, FillFrom
  <1>7. CASE ~ (s \notin today.open \/ Len(today.visits) >= target \/ S = {})
    <2> DEFINE b == Choice(S, today.visits, P, f)
               c == Choice(T, then.visits, Q, f)
    <2>1. /\ Fill(today, s, P, target, d, r, used, f) = Planned(today, b, s, d, r)
          /\ Fill(then, s, Q, target, d + k, r, used, f) = Planned(then, c, s, d + k, r)
      BY <1>2, <1>5, <1>7 DEF Fill, FillFrom
    <2> HIDE DEF S, T
    <2>2. CandidateLater(b, c, k * Day)
      BY <1>1, <1>2, <1>4, <1>7, ChoiceMirrored
    <2>3. c.start \in Int
      <3>1. k * Day \in Int
        BY <1>1 DEF Mirrored
      <3> HIDE DEF b, c
      <3> QED BY <2>2, <3>1 DEF CandidateLater
    <2> HIDE DEF b, c
    <2> QED BY <2>1, <2>2, <2>3, PlannedLater
  <1> QED BY <1>6, <1>7

\* The same day is packed whole weeks later.
LEMMA DayLater ==
    ASSUME NEW P, NEW Q, Alike(P, Q), NEW d, NEW k, Weeks(d, k), NEW r \in Regions, NEW target, NEW used, NEW f,
           IsFiniteSet(f)
    PROVE  Later(PackDay(P, target, d, r, used, f), PackDay(Q, target, d + k, r, used, f), k)
  <1> DEFINE empty == [visits |-> <<>>, open |-> Slots]
             a1 == Fill(empty, "morning_tour", P, target, d, r, used, f)
             a2 == Fill(a1, "lunch", P, target, d, r, used, f)
             a3 == Fill(a2, "afternoon_evening_tour", P, target, d, r, used, f)
             a4 == Fill(a3, "dinner", P, target, d, r, used, f)
             b1 == Fill(empty, "morning_tour", Q, target, d + k, r, used, f)
             b2 == Fill(b1, "lunch", Q, target, d + k, r, used, f)
             b3 == Fill(b2, "afternoon_evening_tour", Q, target, d + k, r, used, f)
             b4 == Fill(b3, "dinner", Q, target, d + k, r, used, f)
  <1>1. PackDay(P, target, d, r, used, f) = a4.visits /\ PackDay(Q, target, d + k, r, used, f) = b4.visits
    BY DEF PackDay
  <1>2. {"morning_tour", "lunch", "afternoon_evening_tour", "dinner"} = Slots
    BY DEF Slots
  <1>3. TodayLater(empty, empty, k)
    <2>1. <<>> \in Seq(Visit) /\ DOMAIN <<>> = {} /\ empty.visits = <<>>
      OBVIOUS
    <2> HIDE DEF empty
    <2> QED BY <2>1 DEF TodayLater, Later
  <1> HIDE DEF empty
  <1>4. TodayLater(a1, b1, k)
    BY <1>2, <1>3, FillLater
  <1> HIDE DEF a1, b1
  <1>5. TodayLater(a2, b2, k)
    BY <1>2, <1>4, FillLater
  <1> HIDE DEF a2, b2
  <1>6. TodayLater(a3, b3, k)
    BY <1>2, <1>5, FillLater
  <1> HIDE DEF a3, b3
  <1>7. TodayLater(a4, b4, k)
    BY <1>2, <1>6, FillLater
  <1> QED BY <1>1, <1>7 DEF TodayLater

-----------------------------------------------------------------------------
(* Filling a span of days in one city *)

\* n days from `first` on, each to be filled from the same rows.
FullDays(first, n, c, f) == PackDays(first, [i \in 1 .. n |-> c], f)

\* The recursion over the days has one solution, whatever comes after them.
LEMMA PackedOnce ==
    ASSUME NEW N \in Nat, NEW M \in Nat, N <= M, NEW first, NEW f, NEW days, NEW more,
           \A n \in 1 .. N : days[n] = more[n],
           NEW g, Packs(g, N, first, days, f), NEW h, Packs(h, M, first, more, f)
    PROVE  g[N] = h[N]
  <1> DEFINE base == [visits |-> <<>>, days |-> 0]
             T == {n \in 0 .. N : g[n] # h[n]}
  <1>1. \A n \in 0 .. N : g[n] = IF n = 0 THEN base ELSE PackNext(g[n - 1], n, first, days[n], f)
    BY DEF Packs
  <1>2. \A n \in 0 .. M : h[n] = IF n = 0 THEN base ELSE PackNext(h[n - 1], n, first, more[n], f)
    BY DEF Packs
  <1> HIDE DEF base
  <1>3. T = {}
    <2> SUFFICES ASSUME T # {} PROVE FALSE
      OBVIOUS
    <2>1. PICK n \in T : \A l \in T : n <= l
      <3>1. T \in SUBSET Nat
        OBVIOUS
      <3> HIDE DEF T
      <3> QED BY <3>1, Least
    <2>2. n \in 0 .. N /\ n \in 0 .. M /\ g[n] # h[n]
      BY <2>1
    <2>3. CASE n = 0
      BY <1>1, <1>2, <2>2, <2>3
    <2>4. CASE n # 0
      <3>1. n \in 1 .. N /\ n - 1 \in 0 .. N /\ n - 1 \notin T
        BY <2>1, <2>2, <2>4
      <3>2. g[n - 1] = h[n - 1] /\ days[n] = more[n]
        BY <3>1
      <3>3. g[n] = PackNext(g[n - 1], n, first, days[n], f) /\ h[n] = PackNext(h[n - 1], n, first, more[n], f)
        BY <1>1, <1>2, <2>2, <2>4
      <3> QED BY <2>2, <3>2, <3>3
    <2> QED BY <2>3, <2>4
  <1>4. N \in 0 .. N
    OBVIOUS
  <1> QED BY <1>3, <1>4

\* A span of n days is one of n - 1 and a day more.
LEMMA FullStep ==
    ASSUME NEW n \in Nat, NEW first, NEW c, NEW f
    PROVE  FullDays(first, n, c, f) = IF n = 0 THEN [visits |-> <<>>, days |-> 0]
                                      ELSE PackNext(FullDays(first, n - 1, c, f), n, first, c, f)
  <1> DEFINE days(m) == [i \in 1 .. m |-> c]
             packed(m) == CHOOSE g : Packs(g, m, first, days(m), f)
  <1>1. ASSUME NEW m \in Nat
        PROVE  /\ FullDays(first, m, c, f) = packed(m)[m] /\ Packs(packed(m), m, first, days(m), f)
               /\ Len(days(m)) = m
    <2>1. Len(days(m)) = m
      OBVIOUS
    <2>2. PackDays(first, days(m), f) = packed(m)[m]
      BY <2>1 DEF PackDays, Packs
    <2>3. \E g : Packs(g, m, first, days(m), f)
      BY PackedExists
    <2> QED BY <2>1, <2>2, <2>3 DEF FullDays
  <1> HIDE DEF packed
  <1>2. \A l \in 0 .. n : packed(n)[l] = IF l = 0 THEN [visits |-> <<>>, days |-> 0]
                                         ELSE PackNext(packed(n)[l - 1], l, first, days(n)[l], f)
    <2>1. Packs(packed(n), n, first, days(n), f)
      BY <1>1
    <2> HIDE DEF days
    <2> QED BY <2>1 DEF Packs
  <1>3. CASE n = 0
    <2>1. n \in 0 .. n
      OBVIOUS
    <2>2. packed(n)[n] = [visits |-> <<>>, days |-> 0]
      BY <1>2, <1>3, <2>1
    <2>3. FullDays(first, n, c, f) = packed(n)[n]
      BY <1>1
    <2> QED BY <1>3, <2>2, <2>3
  <1>4. CASE n # 0
    <2>1. n - 1 \in Nat /\ n - 1 <= n /\ n \in 0 .. n
      BY <1>4
    <2>2. \A l \in 1 .. n - 1 : days(n - 1)[l] = days(n)[l]
      BY <2>1
    <2>3. days(n)[n] = c
      BY <1>4
    <2>4. Packs(packed(n), n, first, days(n), f) /\ Packs(packed(n - 1), n - 1, first, days(n - 1), f)
      BY <1>1, <2>1
    <2> HIDE DEF days
    <2>5. packed(n - 1)[n - 1] = packed(n)[n - 1]
      BY <2>1, <2>2, <2>4, PackedOnce
    <2>6. packed(n)[n] = PackNext(packed(n)[n - 1], n, first, c, f)
      BY <1>2, <1>4, <2>1, <2>3
    <2> QED BY <1>1, <1>4, <2>1, <2>5, <2>6
  <1> QED BY <1>3, <1>4

LEMMA FullCounted ==
    ASSUME NEW n \in Nat, NEW first, NEW c, NEW f
    PROVE  FullDays(first, n, c, f).days \in 0 .. n
  <1> DEFINE days == [i \in 1 .. n |-> c]
  <1>1. Len(days) = n
    OBVIOUS
  <1> HIDE DEF days
  <1>2. PackDays(first, days, f).days \in 0 .. Len(days)
    BY <1>1, DaysCounted
  <1> QED BY <1>1, <1>2 DEF FullDays, days

\* A span that has been filled has its shorter spans filled.
LEMMA FullPrefix ==
    ASSUME NEW n \in Nat, NEW N \in Nat, n <= N, NEW first, NEW c, NEW f, FullDays(first, N, c, f).days >= n
    PROVE  FullDays(first, n, c, f).days = n
  <1> DEFINE F(m) == FullDays(first, m, c, f)
             T == {m \in n .. N : F(m) # F(n)}
  <1>1. \A m \in Nat : F(m).days \in 0 .. m
    BY FullCounted
  <1>2. \A m \in Nat : m # 0 => F(m) = PackNext(F(m - 1), m, first, c, f)
    BY FullStep
  <1>3. F(N).days >= n
    OBVIOUS
  <1> HIDE DEF F
  <1> SUFFICES ASSUME F(n).days # n PROVE FALSE
    BY DEF F
  <1>4. T = {}
    <2> SUFFICES ASSUME T # {} PROVE FALSE
      OBVIOUS
    <2>1. PICK m \in T : \A l \in T : m <= l
      <3>1. T \in SUBSET Nat
        OBVIOUS
      <3> HIDE DEF T
      <3> QED BY <3>1, Least
    <2>2. m \in n .. N /\ F(m) # F(n)
      BY <2>1
    <2>3. m - 1 \in n .. N /\ m \in Nat /\ m # 0 /\ m - 1 \notin T
      BY <2>1, <2>2
    <2>4. F(m - 1) = F(n)
      BY <2>3
    <2>5. F(n).days \in 0 .. n
      BY <1>1
    <2>6. F(n).days # m - 1
      BY <2>3, <2>5
    <2>7. F(m) = F(n)
      BY <1>2, <2>3, <2>4, <2>6 DEF PackNext
    <2> QED BY <2>2, <2>7
  <1>5. F(N) = F(n)
    BY <1>4
  <1>6. F(n).days \in 0 .. n
    BY <1>1
  <1> QED BY <1>3, <1>5, <1>6

LEMMA WeeksLater ==
    ASSUME NEW d \in Nat, NEW m \in Int, d + m * Week \in Nat
    PROVE  Weeks(d, m * Week)
  <1> DEFINE q == d \div Week
             x == d % Week
             k == m * Week
  <1>1. Week \in Nat \ {0}
    BY PlanAssumption
  <1>2. q \in Int /\ x \in 0 .. Week - 1 /\ d = Week * q + x
    BY <1>1, Divided
  <1>3. k \in Int
    BY <1>1
  <1> HIDE DEF q, x
  <1>5. (q + m) * Week = Week * q + k /\ q + m \in Int /\ Week * q \in Int
    <2>1. Week \in Int /\ q \in Int /\ m \in Int
      BY <1>1, <1>2
    <2> QED BY <2>1
  <1>6. d + k \in Nat
    OBVIOUS
  <1> HIDE DEF k
  <1>7. (d + k) % Week = (d + k) - (q + m) * Week
    <2>1. (q + m) * Week <= d + k /\ d + k < (q + m) * Week + Week /\ d + k \in Int
      BY <1>1, <1>2, <1>3, <1>5, <1>6
    <2> QED BY <1>1, <1>5, <2>1, Quotient
  <1>8. (d + k) % Week = x
    BY <1>1, <1>2, <1>3, <1>5, <1>7
  <1>9. Weeks(d, k)
    BY <1>3, <1>6, <1>8 DEF Weeks, x
  <1> QED BY <1>9 DEF k
LEMMA Concatenated ==
    ASSUME NEW X, NEW S \in Seq(X), NEW T \in Seq(X)
    PROVE  /\ S \o T \in Seq(X) /\ Len(S \o T) = Len(S) + Len(T) /\ Len(S) \in Nat /\ Len(T) \in Nat
           /\ \A i \in 1 .. Len(S) : (S \o T)[i] = S[i]
           /\ \A i \in Len(S) + 1 .. Len(S) + Len(T) : i - Len(S) \in 1 .. Len(T) /\ (S \o T)[i] = T[i - Len(S)]
  OBVIOUS

LEMMA JoinedLater ==
    ASSUME NEW S, NEW T, NEW U, NEW V, NEW k, Later(S, T, k), Later(U, V, k)
    PROVE  Later(S \o U, T \o V, k)
  <1>1. /\ S \in Seq(Visit) /\ T \in Seq(Visit) /\ Len(S) = Len(T)
        /\ U \in Seq(Visit) /\ V \in Seq(Visit) /\ Len(U) = Len(V)
    BY DEF Later
  <1> DEFINE A == S \o U
             B == T \o V
             m == Len(S)
             n == Len(U)
  <1>2. /\ A \in Seq(Visit) /\ Len(A) = m + n /\ m \in Nat /\ n \in Nat
        /\ \A i \in 1 .. m : A[i] = S[i]
        /\ \A i \in m + 1 .. m + n : i - m \in 1 .. n /\ A[i] = U[i - m]
    BY <1>1, Concatenated
  <1>3. /\ B \in Seq(Visit) /\ Len(B) = m + n
        /\ \A i \in 1 .. m : B[i] = T[i]
        /\ \A i \in m + 1 .. m + n : B[i] = V[i - m]
    BY <1>1, Concatenated
  <1>4. DOMAIN S = 1 .. m /\ DOMAIN U = 1 .. n
    BY <1>1
  <1> HIDE DEF A, B, m, n
  <1>5. DOMAIN A = 1 .. m + n
    BY <1>2
  <1>6. ASSUME NEW i \in 1 .. m + n
        PROVE  /\ Facts(A[i].venue) = Facts(B[i].venue) /\ A[i].region = B[i].region
               /\ B[i].start = A[i].start + k * Day
    <2>1. CASE i \in 1 .. m
      <3>1. A[i] = S[i] /\ B[i] = T[i] /\ i \in DOMAIN S
        BY <1>2, <1>3, <1>4, <2>1
      <3> QED BY <3>1 DEF Later
    <2>2. CASE i \notin 1 .. m
      <3>1. i \in m + 1 .. m + n
        BY <1>2, <2>2
      <3>2. A[i] = U[i - m] /\ B[i] = V[i - m] /\ i - m \in DOMAIN U
        BY <1>2, <1>3, <1>4, <3>1
      <3> QED BY <3>2 DEF Later
    <2> QED BY <2>1, <2>2
  <1>7. Later(A, B, k)
    BY <1>2, <1>3, <1>5, <1>6 DEF Later
  <1> QED BY <1>7 DEF A, B

\* The spans packed so far, whole weeks apart.
DoneLater(done, then, k) == Later(done.visits, then.visits, k) /\ done.days = then.days

LEMMA NextLater ==
    ASSUME NEW P, NEW Q, Alike(P, Q), NEW first \in Nat, NEW m \in Int, first + m * Week \in Nat, NEW n \in Nat,
           n # 0, NEW r \in Regions, NEW f, IsFiniteSet(f), NEW done, NEW then, DoneLater(done, then, m * Week)
    PROVE  DoneLater(PackNext(done, n, first, CityDay(r, P, PerDay), f),
                     PackNext(then, n, first + m * Week, CityDay(r, Q, PerDay), f), m * Week)
  <1> DEFINE k == m * Week
             d == first + n - 1
             used == UsedIn(r, done.visits)
             a == PackDay(P, PerDay, d, r, used, f)
             b == PackDay(Q, PerDay, d + k, r, used, f)
  <1>1. k \in Int
    BY PlanAssumption
  <1>2. d \in Nat /\ d + k \in Nat /\ (first + k) + n - 1 = d + k
    <2>1. first + k \in Nat
      OBVIOUS
    <2> HIDE DEF k
    <2> QED BY <1>1, <2>1
  <1>3. Weeks(d, k)
    BY <1>2, WeeksLater
  <1> HIDE DEF k, d
  <1>4. Later(done.visits, then.visits, k) /\ done.days = then.days
    BY DEF DoneLater, k
  <1>5. UsedIn(r, then.visits) = used
    BY <1>4, IdsLater
  <1>6. Later(a, b, k)
    BY <1>3, DayLater
  <1>7. /\ PackNext(done, n, first, CityDay(r, P, PerDay), f)
              = IF done.days # n - 1 THEN done ELSE AppendIfFull(done, a, PerDay)
        /\ PackNext(then, n, first + k, CityDay(r, Q, PerDay), f)
              = IF then.days # n - 1 THEN then ELSE AppendIfFull(then, b, PerDay)
    BY <1>2, <1>5 DEF PackNext, CityDay, d
  <1>8. Len(a) = Len(b)
    BY <1>6 DEF Later
  <1>9. Later(done.visits \o a, then.visits \o b, k)
    BY <1>4, <1>6, JoinedLater
  <1> HIDE DEF a, b
  <1>10. DoneLater(AppendIfFull(done, a, PerDay), AppendIfFull(then, b, PerDay), k)
    BY <1>4, <1>8, <1>9 DEF AppendIfFull, DoneLater
  <1>11. DoneLater(PackNext(done, n, first, CityDay(r, P, PerDay), f),
                   PackNext(then, n, first + k, CityDay(r, Q, PerDay), f), k)
    BY <1>4, <1>7, <1>10 DEF DoneLater
  <1> QED BY <1>11 DEF k

\* Rows that look the same fill the same span, whole weeks apart.
LEMMA FullLater ==
    ASSUME NEW P, NEW Q, Alike(P, Q), NEW first \in Nat, NEW m \in Int, first + m * Week \in Nat, NEW n \in Nat,
           NEW r \in Regions, NEW f, IsFiniteSet(f)
    PROVE  FullDays(first, n, CityDay(r, P, PerDay), f).days
             = FullDays(first + m * Week, n, CityDay(r, Q, PerDay), f).days
  <1> DEFINE F(l) == FullDays(first, l, CityDay(r, P, PerDay), f)
             G(l) == FullDays(first + m * Week, l, CityDay(r, Q, PerDay), f)
             T == {l \in 0 .. n : ~ DoneLater(F(l), G(l), m * Week)}
  <1>1. \A l \in Nat : F(l) = IF l = 0 THEN [visits |-> <<>>, days |-> 0]
                              ELSE PackNext(F(l - 1), l, first, CityDay(r, P, PerDay), f)
    BY FullStep
  <1>2. \A l \in Nat : G(l) = IF l = 0 THEN [visits |-> <<>>, days |-> 0]
                              ELSE PackNext(G(l - 1), l, first + m * Week, CityDay(r, Q, PerDay), f)
    BY FullStep
  <1> HIDE DEF F, G
  <1>3. T = {}
    <2> SUFFICES ASSUME T # {} PROVE FALSE
      OBVIOUS
    <2>1. PICK l \in T : \A j \in T : l <= j
      <3>1. T \in SUBSET Nat
        OBVIOUS
      <3> HIDE DEF T
      <3> QED BY <3>1, Least
    <2>2. l \in 0 .. n /\ l \in Nat /\ ~ DoneLater(F(l), G(l), m * Week)
      BY <2>1
    <2>3. CASE l = 0
      <3>1. F(l) = [visits |-> <<>>, days |-> 0] /\ G(l) = [visits |-> <<>>, days |-> 0]
        BY <1>1, <1>2, <2>2, <2>3
      <3>2. <<>> \in Seq(Visit) /\ DOMAIN <<>> = {}
        OBVIOUS
      <3>3. F(l).visits = <<>> /\ G(l).visits = <<>> /\ F(l).days = G(l).days
        BY <3>1
      <3>4. DoneLater(F(l), G(l), m * Week)
        BY <3>2, <3>3 DEF DoneLater, Later
      <3> QED BY <2>2, <3>4
    <2>4. CASE l # 0
      <3>1. l - 1 \in 0 .. n /\ l - 1 \notin T
        BY <2>1, <2>2, <2>4
      <3>2. DoneLater(F(l - 1), G(l - 1), m * Week)
        BY <3>1
      <3>3. DoneLater(PackNext(F(l - 1), l, first, CityDay(r, P, PerDay), f),
                      PackNext(G(l - 1), l, first + m * Week, CityDay(r, Q, PerDay), f), m * Week)
        BY <2>2, <2>4, <3>2, NextLater
      <3>4. /\ F(l) = PackNext(F(l - 1), l, first, CityDay(r, P, PerDay), f)
            /\ G(l) = PackNext(G(l - 1), l, first + m * Week, CityDay(r, Q, PerDay), f)
        BY <1>1, <1>2, <2>2, <2>4
      <3> QED BY <2>2, <3>3, <3>4
    <2> QED BY <2>3, <2>4
  <1>4. DoneLater(F(n), G(n), m * Week)
    BY <1>3
  <1> QED BY <1>4 DEF DoneLater, F, G

\* At least `least` stops on day d, one after the other.
DayFull(S, d, least) == \E a \in Nat : \A j \in 1 .. least : a + j \in DOMAIN S /\ S[a + j].day = d

LEMMA FullStays ==
    ASSUME NEW S \in Seq(Visit), NEW T \in Seq(Visit), NEW d, NEW least \in Nat, DayFull(S, d, least)
    PROVE  DayFull(S \o T, d, least)
  <1>1. PICK a \in Nat : \A j \in 1 .. least : a + j \in DOMAIN S /\ S[a + j].day = d
    BY DEF DayFull
  <1> DEFINE U == S \o T
  <1>2. \A i \in DOMAIN S : i \in DOMAIN U /\ U[i] = S[i]
    <2>1. /\ U \in Seq(Visit) /\ Len(U) = Len(S) + Len(T) /\ Len(S) \in Nat /\ Len(T) \in Nat
          /\ \A i \in 1 .. Len(S) : U[i] = S[i]
      BY Concatenated
    <2> HIDE DEF U
    <2>2. DOMAIN U = 1 .. Len(U) /\ DOMAIN S = 1 .. Len(S)
      BY <2>1
    <2> QED BY <2>1, <2>2
  <1> HIDE DEF U
  <1>3. \A j \in 1 .. least : a + j \in DOMAIN U /\ U[a + j].day = d
    BY <1>1, <1>2
  <1>4. DayFull(U, d, least)
    BY <1>3 DEF DayFull
  <1> QED BY <1>4 DEF U

\* A span that was filled has its stops on every day.
LEMMA FullFilled ==
    ASSUME NEW first \in Nat, NEW n \in Nat, NEW c \in CityDays, NEW f, IsFiniteSet(f),
           FullDays(first, n, c, f).days = n
    PROVE  \A i \in 1 .. n : DayFull(FullDays(first, n, c, f).visits, first + i - 1, c.least)
  <1> DEFINE F(l) == FullDays(first, l, c, f)
             G(l) == F(l).days = l => \A i \in 1 .. l : DayFull(F(l).visits, first + i - 1, c.least)
             T == {l \in 0 .. n : ~ G(l)}
             today(l) == PackDay(c.pool, PerDay, first + l - 1, c.region, UsedIn(c.region, F(l - 1).visits), f)
  <1>0. c.least \in Nat /\ c.region \in Regions /\ c.pool \in SUBSET Venues /\ PerDay \in Nat
    BY PlanAssumption DEF CityDays
  <1>1. ASSUME NEW l \in Nat, l # 0 PROVE F(l) = PackNext(F(l - 1), l, first, c, f)
    BY <1>1, FullStep
  <1>2. ASSUME NEW l \in Nat PROVE F(l).visits \in Seq(Visit) /\ F(l).days \in 0 .. l
    <2> DEFINE days == [i \in 1 .. l |-> c]
    <2>1. days \in Seq(CityDays) /\ Len(days) = l
      OBVIOUS
    <2> HIDE DEF days
    <2>2. Packing(PackDays(first, days, f), first + Len(days))
      BY <2>1, DaysPacked
    <2>3. F(l) = PackDays(first, days, f)
      BY DEF FullDays, days
    <2>4. F(l).days \in 0 .. l
      BY FullCounted
    <2> HIDE DEF F
    <2> QED BY <2>2, <2>3, <2>4 DEF Packing
  <1>3. ASSUME NEW l \in Nat, l # 0
        PROVE  today(l) \in Seq(Visit) /\ \A i \in DOMAIN today(l) : today(l)[i].day = first + l - 1
    <2> DEFINE d == first + l - 1
               used == UsedIn(c.region, F(l - 1).visits)
    <2>1. d \in Nat
      BY <1>3
    <2>2. today(l) = PackDay(c.pool, PerDay, d, c.region, used, f)
      OBVIOUS
    <2> HIDE DEF d, used, today
    <2>3. Morning(PackDay(c.pool, PerDay, d, c.region, used, f), d, c.region, used)
      BY <1>0, <2>1, DayPacked
    <2> QED BY <2>2, <2>3 DEF Morning, d
  <1>4. ASSUME NEW l \in Nat, l # 0
        PROVE  F(l) = IF F(l - 1).days # l - 1 THEN F(l - 1) ELSE AppendIfFull(F(l - 1), today(l), c.least)
    <2>1. F(l) = PackNext(F(l - 1), l, first, c, f)
      BY <1>1, <1>4
    <2> HIDE DEF F
    <2> QED BY <2>1 DEF PackNext
  <1> HIDE DEF F, today
  <1>5. T = {}
    <2> SUFFICES ASSUME T # {} PROVE FALSE
      OBVIOUS
    <2>1. PICK l \in T : \A j \in T : l <= j
      <3>1. T \in SUBSET Nat
        OBVIOUS
      <3> HIDE DEF T
      <3> QED BY <3>1, Least
    <2>2. l \in 0 .. n /\ l \in Nat /\ ~ G(l)
      <3> HIDE DEF G
      <3> QED BY <2>1
    <2>3. l # 0 /\ F(l).days = l
      BY <2>2
    <2>4. l - 1 \in 0 .. n /\ l - 1 \in Nat /\ G(l - 1)
      <3>1. l - 1 \in 0 .. n /\ l - 1 \in Nat /\ ~ (l <= l - 1)
        BY <2>2, <2>3
      <3>2. l - 1 \notin T
        BY <2>1, <3>1
      <3> HIDE DEF G
      <3> QED BY <3>1, <3>2
    <2> DEFINE S == F(l - 1).visits
               U == today(l)
    <2>5. F(l - 1).days = l - 1
      <3>1. F(l - 1).days \in 0 .. l - 1
        BY <1>2, <2>4
      <3>2. CASE F(l - 1).days # l - 1
        <4>1. F(l) = F(l - 1)
          BY <1>4, <2>2, <2>3, <3>2
        <4> QED BY <2>2, <2>3, <3>1, <4>1
      <3> QED BY <3>2
    <2>6. F(l) = AppendIfFull(F(l - 1), U, c.least)
      BY <1>4, <2>2, <2>3, <2>5
    <2>7. Len(U) >= c.least
      <3> SUFFICES ASSUME ~ (Len(U) >= c.least) PROVE FALSE
        OBVIOUS
      <3>1. F(l) = F(l - 1)
        BY <2>6 DEF AppendIfFull
      <3> QED BY <2>2, <2>3, <2>5, <3>1
    <2>8. F(l).visits = S \o U
      BY <2>6, <2>7 DEF AppendIfFull
    <2>9. S \in Seq(Visit) /\ U \in Seq(Visit) /\ \A i \in DOMAIN U : U[i].day = first + l - 1
      BY <1>2, <1>3, <2>2, <2>3, <2>4
    <2>10. \A i \in 1 .. l - 1 : DayFull(S, first + i - 1, c.least)
      BY <2>4, <2>5
    <2> HIDE DEF S, U
    <2>11. ASSUME NEW i \in 1 .. l - 1 PROVE DayFull(S \o U, first + i - 1, c.least)
      BY <1>0, <2>9, <2>10, FullStays
    <2>12. DayFull(S \o U, first + l - 1, c.least)
      <3> DEFINE a == Len(S)
                 V == S \o U
      <3>1. /\ V \in Seq(Visit) /\ Len(V) = a + Len(U) /\ a \in Nat /\ Len(U) \in Nat
            /\ \A i \in a + 1 .. a + Len(U) : i - a \in 1 .. Len(U) /\ V[i] = U[i - a]
        BY <2>9, Concatenated
      <3>2. DOMAIN U = 1 .. Len(U)
        BY <2>9
      <3> HIDE DEF a, V
      <3>3. ASSUME NEW j \in 1 .. c.least PROVE a + j \in DOMAIN V /\ V[a + j].day = first + l - 1
        <4>1. j \in 1 .. Len(U) /\ a + j \in a + 1 .. a + Len(U) /\ a + j \in 1 .. Len(V) /\ (a + j) - a = j
          BY <1>0, <2>7, <3>1
        <4>2. V[a + j] = U[j] /\ j \in DOMAIN U /\ a + j \in DOMAIN V
          BY <3>1, <3>2, <4>1
        <4> QED BY <2>9, <4>2
      <3>4. DayFull(V, first + l - 1, c.least)
        BY <3>1, <3>3 DEF DayFull
      <3> QED BY <3>4 DEF V
    <2>13. \A i \in 1 .. l : i \in 1 .. l - 1 \/ i = l
      BY <2>2
    <2>14. \A i \in 1 .. l : DayFull(F(l).visits, first + i - 1, c.least)
      BY <2>8, <2>11, <2>12, <2>13
    <2> QED BY <2>2, <2>14
  <1>6. G(n)
    <2>1. n \in 0 .. n
      OBVIOUS
    <2> HIDE DEF G
    <2> QED BY <1>5, <2>1
  <1>7. F(n).days = n
    BY DEF F
  <1> QED BY <1>6, <1>7 DEF F

LEMMA DayFullCounts ==
    ASSUME NEW S \in Seq(Visit), NEW d, NEW least \in Nat, DayFull(S, d, least)
    PROVE  Cardinality({i \in DOMAIN S : S[i].day = d}) >= least
  <1>1. PICK a \in Nat : \A j \in 1 .. least : a + j \in DOMAIN S /\ S[a + j].day = d
    BY DEF DayFull
  <1> DEFINE I == {i \in DOMAIN S : S[i].day = d}
             J == a + 1 .. a + least
  <1>2. J \subseteq I
    <2> SUFFICES ASSUME NEW i \in J PROVE i \in I
      OBVIOUS
    <2>1. i - a \in 1 .. least /\ a + (i - a) = i
      OBVIOUS
    <2>2. i \in DOMAIN S /\ S[i].day = d
      BY <1>1, <2>1
    <2> QED BY <2>2
  <1>3. IsFiniteSet(I)
    BY DomainFinite
  <1>4. Cardinality(J) = least
    <2>1. a + 1 \in Int /\ a + least \in Int
      OBVIOUS
    <2>2. Cardinality(J) = IF a + 1 > a + least THEN 0 ELSE (a + least) - (a + 1) + 1
      BY <2>1, FS_Interval
    <2> QED BY <2>2
  <1>5. Cardinality(J) <= Cardinality(I) /\ Cardinality(I) \in Nat
    <2> HIDE DEF I, J
    <2> QED BY <1>2, <1>3, FS_Subset, FS_CardinalityType
  <1> QED BY <1>4, <1>5

-----------------------------------------------------------------------------
(* Advertised days can be filled *)

LEMMA PoolAlike ==
    ASSUME NEW C \in Catalogs, NEW D \in Catalogs, NEW r \in Regions, Fields(C, r) = Fields(D, r)
    PROVE  Alike(PoolIn[C][r], PoolIn[D][r])
  <1> DEFINE P == PoolIn[C][r]
             Q == PoolIn[D][r]
  <1>1. /\ P = {v \in C : Catalog[v].region = r /\ v \notin Unseedable}
        /\ Q = {v \in D : Catalog[v].region = r /\ v \notin Unseedable}
    BY DEF PoolIn
  <1>2. /\ C \subseteq Venues /\ \A u, v \in C : VenueId[u] = VenueId[v] => u = v
        /\ D \subseteq Venues /\ \A u, v \in D : VenueId[u] = VenueId[v] => u = v
    BY PlanAssumption
  <1>3. ASSUME NEW A, NEW B, Fields(A, r) = Fields(B, r),
               NEW v \in {u \in A : Catalog[u].region = r /\ u \notin Unseedable}
        PROVE  \E w \in {u \in B : Catalog[u].region = r /\ u \notin Unseedable} : Facts(v) = Facts(w)
    <2>1. Facts(v) \in Fields(B, r)
      BY <1>3 DEF Fields
    <2>2. PICK w \in B : Catalog[w].region = r /\ Facts(v) = Facts(w)
      BY <2>1 DEF Fields
    <2>3. w \notin Unseedable
      BY <2>2, FactsSame
    <2> QED BY <2>2, <2>3
  <1>4. \A v \in P : \E w \in Q : Facts(v) = Facts(w)
    BY <1>1, <1>3
  <1>5. \A v \in Q : \E w \in P : Facts(v) = Facts(w)
    BY <1>1, <1>3
  <1>6. P \subseteq C /\ Q \subseteq D
    BY <1>1
  <1> HIDE DEF P, Q
  <1>7. {Facts(v) : v \in P} = {Facts(v) : v \in Q}
    BY <1>4, <1>5
  <1>8. Alike(P, Q)
    BY <1>2, <1>6, <1>7 DEF Alike
  <1> QED BY <1>8 DEF P, Q

\* The days a region fills from `first` on for interests f, up to the ceiling.
FilledFrom(C, r, first, f) == FullDays(first, Ceiling, CityDay(r, PoolIn[C][r], PerDay), f).days

DaysFilled(C, r) == {FilledFrom(C, r, first, f) : first \in 0 .. Week - 1, f \in Profiles}

LEMMA MaxDaysIs ==
    ASSUME NEW C \in Catalogs, NEW r \in Regions
    PROVE  MaxDays[C][r] = Min(DaysFilled(C, r))
  BY DEF MaxDays, DaysFilled, FilledFrom, FullDays

LEMMA MaxDaysLeast ==
    ASSUME NEW C \in Catalogs, NEW r \in Regions, NEW first \in 0 .. Week - 1, NEW f \in Profiles
    PROVE  /\ MaxDays[C][r] \in Nat /\ FilledFrom(C, r, first, f) \in Nat
           /\ MaxDays[C][r] <= Ceiling /\ MaxDays[C][r] <= FilledFrom(C, r, first, f)
  <1> DEFINE T == DaysFilled(C, r)
  <1>1. Ceiling \in Nat
    BY PlanAssumption
  <1>2. ASSUME NEW d, NEW g PROVE FilledFrom(C, r, d, g) \in 0 .. Ceiling
    BY <1>1, FullCounted DEF FilledFrom
  <1>3. \A n \in T : n \in 0 .. Ceiling
    <2> SUFFICES ASSUME NEW n \in T PROVE n \in 0 .. Ceiling
      OBVIOUS
    <2>1. \E d \in 0 .. Week - 1 : \E g \in Profiles : n = FilledFrom(C, r, d, g)
      BY DEF DaysFilled
    <2> QED BY <1>2, <2>1
  <1>4. FilledFrom(C, r, first, f) \in T
    BY DEF DaysFilled
  <1> HIDE DEF T
  <1>5. IsFiniteSet(T) /\ T \in SUBSET Int /\ T # {}
    <2>1. IsFiniteSet(0 .. Ceiling)
      BY <1>1, FS_Interval
    <2>2. T \subseteq 0 .. Ceiling
      BY <1>3
    <2>3. IsFiniteSet(T)
      BY <2>1, <2>2, FS_Subset
    <2> QED BY <1>3, <1>4, <2>3
  <1>6. Min(T) \in T /\ \A n \in T : Min(T) <= n
    BY <1>5, MinOfFinite
  <1>7. MaxDays[C][r] = Min(T)
    BY MaxDaysIs DEF T
  <1>8. MaxDays[C][r] \in 0 .. Ceiling
    BY MaxDaysFacts
  <1>9. FilledFrom(C, r, first, f) \in 0 .. Ceiling
    BY <1>2
  <1> QED BY <1>1, <1>4, <1>6, <1>7, <1>8, <1>9

\* Two catalogs with the same fields, and so the same fingerprint, fill as many days:
\* the key of the capacity cache misses nothing the number depends on
\* (_catalog_fingerprint).
THEOREM SameFieldsSameDays ==
    ASSUME NEW C \in Catalogs, NEW D \in Catalogs, NEW r \in Regions, Fields(C, r) = Fields(D, r)
    PROVE  MaxDays[C][r] = MaxDays[D][r]
  <1>1. Alike(PoolIn[C][r], PoolIn[D][r])
    BY PoolAlike
  <1>2. Ceiling \in Nat /\ Week \in Nat /\ \A f \in Profiles : IsFiniteSet(f)
    BY PlanAssumption
  <1>3. ASSUME NEW first \in 0 .. Week - 1, NEW f \in Profiles
        PROVE  FilledFrom(C, r, first, f) = FilledFrom(D, r, first, f)
    <2>1. PICK m \in Int : m = 0
      BY 0 \in Int
    <2>2. first \in Nat /\ first + m * Week = first
      BY <1>2, <2>1
    <2>3. first + m * Week \in Nat /\ IsFiniteSet(f)
      BY <1>2, <2>2
    <2>4. FullDays(first, Ceiling, CityDay(r, PoolIn[C][r], PerDay), f).days
            = FullDays(first + m * Week, Ceiling, CityDay(r, PoolIn[D][r], PerDay), f).days
      BY <1>1, <1>2, <2>2, <2>3, FullLater
    <2> QED BY <2>2, <2>4 DEF FilledFrom
  <1>4. DaysFilled(C, r) = DaysFilled(D, r)
    BY <1>3 DEF DaysFilled
  <1>5. MaxDays[C][r] = Min(DaysFilled(C, r)) /\ MaxDays[D][r] = Min(DaysFilled(D, r))
    BY MaxDaysIs
  <1> QED BY <1>4, <1>5

LEMMA FingerprintSame ==
    ASSUME NEW C \in Catalogs, NEW r \in Regions
    PROVE  Fingerprint[C][r] \in Catalogs /\ MaxDays[Fingerprint[C][r]][r] = MaxDays[C][r]
  <1>1. Fingerprint[C][r] = CHOOSE D \in Catalogs : Fields(D, r) = Fields(C, r)
    BY DEF Fingerprint
  <1>2. Fingerprint[C][r] \in Catalogs /\ Fields(Fingerprint[C][r], r) = Fields(C, r)
    BY <1>1
  <1> QED BY <1>2, SameFieldsSameDays

\* A span no longer than the number advertised is filled, whatever day it starts on
\* and for any interests, though the number was computed for the first days of
\* the calendar (compute_max_days_for_region).
THEOREM SpanFilled ==
    ASSUME NEW C \in Catalogs, NEW r \in Regions, NEW f \in Profiles, NEW first \in Nat, NEW n \in Nat,
           n <= MaxDays[C][r]
    PROVE  FullDays(first, n, CityDay(r, PoolIn[C][r], PerDay), f).days = n
  <1> DEFINE c == CityDay(r, PoolIn[C][r], PerDay)
             q == first \div Week
             x == first % Week
  <1>1. Ceiling \in Nat /\ Week \in Nat \ {0} /\ IsFiniteSet(f)
    BY PlanAssumption
  <1>2. q \in Int /\ x \in 0 .. Week - 1 /\ x \in Nat /\ first = Week * q + x
    BY <1>1, Divided
  <1> HIDE DEF q, x
  <1>3. x + q * Week = first
    <2>1. Week \in Int /\ q \in Int /\ Week * q = q * Week /\ q * Week \in Int
      BY <1>1, <1>2
    <2> QED BY <1>2, <2>1
  <1>4. Alike(PoolIn[C][r], PoolIn[C][r])
    BY PoolAlike
  <1>5. FullDays(x, Ceiling, c, f).days = FullDays(x + q * Week, Ceiling, c, f).days
    BY <1>1, <1>2, <1>3, <1>4, FullLater
  <1>6. /\ MaxDays[C][r] \in Nat /\ FilledFrom(C, r, x, f) \in Nat
        /\ MaxDays[C][r] <= Ceiling /\ MaxDays[C][r] <= FilledFrom(C, r, x, f)
    BY <1>2, MaxDaysLeast
  <1>7. FilledFrom(C, r, x, f) = FullDays(first, Ceiling, c, f).days
    BY <1>3, <1>5 DEF FilledFrom
  <1>8. FullDays(first, Ceiling, c, f).days >= n /\ n <= Ceiling
    <2> HIDE DEF c
    <2> QED BY <1>1, <1>6, <1>7
  <1> HIDE DEF c
  <1>9. FullDays(first, n, c, f).days = n
    BY <1>1, <1>8, FullPrefix
  <1> QED BY <1>9 DEF c

\* Spread over no more days than may be started, the starter days are all of them.
LEMMA EveryDayStarts ==
    ASSUME NEW n \in Nat \ {0}, n <= MaxStarters
    PROVE  StarterDays(n, n) = 0 .. n - 1 /\ Min({MaxStarters, n}) = n
  <1>1. MaxStarters \in Nat
    BY PlanAssumption
  <1>2. Min({MaxStarters, n}) = n /\ Min({MaxStarters, n, n}) = n
    <2>1. {MaxStarters, n, n} = {MaxStarters, n}
      OBVIOUS
    <2>2. \E m \in {MaxStarters, n} : \A o \in {MaxStarters, n} : m <= o
      BY <1>1
    <2>3. Min({MaxStarters, n}) \in {MaxStarters, n} /\ \A o \in {MaxStarters, n} : Min({MaxStarters, n}) <= o
      BY <2>2 DEF Min
    <2>4. Min({MaxStarters, n}) <= n
      BY <2>3
    <2>5. Min({MaxStarters, n}) = n
      BY <1>1, <2>3, <2>4
    <2> QED BY <2>1, <2>5
  <1>3. StarterDays(n, n) = IF n = 1 THEN {0} ELSE {Rounded(i * (n - 1), n - 1) : i \in 0 .. n - 1}
    BY <1>2 DEF StarterDays
  <1>4. CASE n = 1
    BY <1>2, <1>3, <1>4
  <1>5. CASE n # 1
    <2>1. n - 1 \in Nat \ {0}
      BY <1>5
    <2>2. ASSUME NEW i \in 0 .. n - 1 PROVE Rounded(i * (n - 1), n - 1) = i
      <3> DEFINE b == n - 1
                 a == i * b
      <3>1. b \in Nat \ {0} /\ i \in Int
        BY <2>1
      <3> HIDE DEF b
      <3>2. a \in Int /\ i * b <= a /\ a < i * b + b
        BY <3>1
      <3>3. a \div b = i /\ a % b = a - i * b
        BY <3>1, <3>2, Quotient
      <3>4. 2 * (a % b) = 0
        <4>1. a - i * b = 0
          BY <3>2
        <4> QED BY <3>3, <4>1
      <3>5. 2 * (a % b) < b
        BY <3>1, <3>4
      <3> HIDE DEF a
      <3>6. Rounded(a, b) = i
        BY <3>3, <3>5 DEF Rounded
      <3> QED BY <3>6 DEF a, b
    <2>3. {Rounded(i * (n - 1), n - 1) : i \in 0 .. n - 1} = 0 .. n - 1
      BY <2>2
    <2> QED BY <1>2, <1>3, <1>5, <2>3
  <1> QED BY <1>4, <1>5

\* A range trip over no more days than MaxDays has every day full.
LEMMA RangeFilled ==
    ASSUME NEW C \in Catalogs, NEW r \in Regions, NEW p \in Ranges, NEW f \in Profiles,
           p[1] <= p[2], p[2] - p[1] + 1 <= MaxDays[C][r]
    PROVE  \A d \in p[1] .. p[2] :
               Cardinality({i \in DOMAIN RangePlan[C][r][p][f] : RangePlan[C][r][p][f][i].day = d}) >= PerDay
  <1> DEFINE n == p[2] - p[1] + 1
             c == CityDay(r, PoolIn[C][r], PerDay)
             starters(m) == StarterDays(n, m)
             days(m) == [i \in 1 .. n |-> IF i - 1 \in starters(m) THEN c ELSE DayOff(r)]
             visits == FullDays(p[1], n, c, f).visits
  <1>1. p[1] \in Nat /\ p[2] \in Nat /\ PerDay \in Nat /\ IsFiniteSet(f) /\ Ceiling \in Nat /\ MaxStarters \in Nat
        /\ Ceiling <= MaxStarters
    BY PlanAssumption
  <1>2. MaxDays[C][r] \in 0 .. Ceiling
    BY MaxDaysFacts
  <1>3. n \in Nat \ {0} /\ n <= MaxStarters /\ n <= MaxDays[C][r]
    BY <1>1, <1>2
  <1>4. RangePlan[C][r][p][f] = PackDays(p[1], days(FullDays(p[1], Min({MaxStarters, n}), c, f).days), f).visits
    BY DEF RangePlan, FullDays
  <1>5. c \in CityDays /\ c.least = PerDay
    <2>1. PoolIn[C][r] \in SUBSET Venues
      BY PoolFacts
    <2> QED BY <1>1, <2>1 DEF CityDays, CityDay
  <1>6. FullDays(p[1], n, c, f).days = n
    <2> HIDE DEF n
    <2> QED BY <1>1, <1>3, SpanFilled
  <1> HIDE DEF n
  <1>7. starters(n) = 0 .. n - 1 /\ Min({MaxStarters, n}) = n
    BY <1>3, EveryDayStarts
  <1> HIDE DEF c, starters
  <1>8. days(n) = [i \in 1 .. n |-> c]
    <2>1. \A i \in 1 .. n : i - 1 \in 0 .. n - 1
      BY <1>3
    <2> QED BY <1>7, <2>1
  <1>9. RangePlan[C][r][p][f] = visits
    BY <1>4, <1>6, <1>7, <1>8 DEF FullDays
  <1>10. visits \in Seq(Visit)
    BY <1>9, RangePlanned DEF Plans
  <1>11. \A i \in 1 .. n : DayFull(visits, p[1] + i - 1, PerDay)
    BY <1>1, <1>3, <1>5, <1>6, FullFilled
  <1> HIDE DEF visits
  <1>12. ASSUME NEW d \in p[1] .. p[2] PROVE Cardinality({i \in DOMAIN visits : visits[i].day = d}) >= PerDay
    <2>1. d - p[1] + 1 \in 1 .. n /\ p[1] + (d - p[1] + 1) - 1 = d
      BY <1>1 DEF n
    <2>2. DayFull(visits, d, PerDay)
      BY <1>11, <2>1
    <2> QED BY <1>1, <1>10, <2>2, DayFullCounts
  <1> QED BY <1>9, <1>12

-----------------------------------------------------------------------------
(* Every trip that is kept can be walked, and a short one is full *)

\* A range trip over no more days than its catalog can fill has every day full.
SpanKept(t) ==
    t.kind = "range" => LET leg == t.legs[1] IN
        /\ t.from \in Catalogs /\ leg \in Segment
        /\ leg.last - leg.first + 1 <= MaxDays[t.from][leg.region] =>
               \A d \in leg.first .. leg.last : FilledBy(t, d, PerDay)

\* The inductive invariant: planned trips, and a catalog they can be planned from.
PlanInv ==
    /\ rows \in Catalogs /\ trips \in Seq(Trip)
    /\ \A t \in DOMAIN trips : Walkable(trips[t].visits) /\ SpanKept(trips[t])

LEMMA ChosenFacts ==
    ASSUME NEW r \in Regions \cup {"any"}, NEW region \in Chosen(r)
    PROVE  region \in Regions
  <1>1. Preferred \in Seq(Regions)
    BY PlanAssumption
  <1>2. \A i \in DOMAIN Preferred : Preferred[i] \in Regions
    BY <1>1
  <1> QED BY <1>2 DEF Chosen, FirstAdvertised, Advertised

LEMMA Created ==
    ASSUME PlanInv, NEW kind \in {"day", "range", "corridor"}, NEW legs \in Seq(Segment), NEW visits, Plans(visits),
           SpanKept([legs |-> legs, kind |-> kind, visits |-> visits, from |-> rows]), Create(kind, legs, visits)
    PROVE  PlanInv'
  <1> DEFINE t == [legs |-> legs, kind |-> kind, visits |-> visits, from |-> rows]
  <1>1. trips \in Seq(Trip) /\ rows \in Catalogs /\ rows \subseteq Venues
    BY PlanAssumption DEF PlanInv
  <1>2. t \in Trip /\ t.visits = visits /\ SpanKept(t)
    BY <1>1 DEF Trip, Plans
  <1> HIDE DEF t
  <1>3. trips' = Append(trips, t) /\ rows' = rows
    BY DEF Create, t
  <1>4. trips' \in Seq(Trip) /\ \A i \in DOMAIN trips' : trips'[i] = t \/ (i \in DOMAIN trips /\ trips'[i] = trips[i])
    BY <1>1, <1>2, <1>3
  <1>5. Walkable(t.visits)
    BY <1>2 DEF Plans
  <1> QED BY <1>1, <1>2, <1>3, <1>4, <1>5 DEF PlanInv

\* Whether a stop is skipped is no matter to the plan.
LEMMA SkipKeepsPlan ==
    ASSUME NEW S \in Seq(Visit), NEW j \in DOMAIN S, Walkable(S)
    PROVE  [S EXCEPT ![j].skipped = TRUE] \in Seq(Visit) /\ Walkable([S EXCEPT ![j].skipped = TRUE])
  <1> DEFINE x == [S[j] EXCEPT !.skipped = TRUE]
             T == [S EXCEPT ![j].skipped = TRUE]
  <1>1. S[j] \in Visit
    OBVIOUS
  <1>2. /\ x \in Visit
        /\ x.venue = S[j].venue /\ x.region = S[j].region /\ x.day = S[j].day
        /\ x.slot = S[j].slot /\ x.start = S[j].start
    BY <1>1 DEF Visit
  <1>3. T = [S EXCEPT ![j] = x]
    OBVIOUS
  <1> HIDE DEF x, T
  <1>4. /\ T \in Seq(Visit) /\ DOMAIN T = DOMAIN S
        /\ \A i \in DOMAIN S : T[i] = IF i = j THEN x ELSE S[i]
    BY <1>2, <1>3
  <1>5. \A i \in DOMAIN S : /\ T[i].venue = S[i].venue /\ T[i].region = S[i].region /\ T[i].day = S[i].day
                            /\ T[i].slot = S[i].slot /\ T[i].start = S[i].start
    BY <1>2, <1>4
  <1>6. \A i \in DOMAIN S : OpenThroughout(T[i]) /\ SlotKept(T[i])
    BY <1>5 DEF Walkable, OpenThroughout, SlotKept
  <1>7. ASSUME NEW i \in DOMAIN S, i > 1 PROVE Reaches(T[i - 1], T[i])
    <2>1. i - 1 \in DOMAIN S /\ Reaches(S[i - 1], S[i])
      BY <1>7 DEF Walkable
    <2> QED BY <1>5, <2>1 DEF Reaches, VisitEnd
  <1>8. \A i, k \in DOMAIN S : T[i].region = T[k].region /\ VenueId[T[i].venue] = VenueId[T[k].venue] => i = k
    BY <1>5 DEF Walkable
  <1>9. Walkable(T)
    BY <1>4, <1>6, <1>7, <1>8 DEF Walkable
  <1> QED BY <1>4, <1>9 DEF T

LEMMA SkippedTrip ==
    ASSUME PlanInv, NEW i \in DOMAIN trips, NEW j \in DOMAIN trips[i].visits, Skip(i, j)
    PROVE  PlanInv'
  <1> DEFINE S == trips[i].visits
             T == [S EXCEPT ![j].skipped = TRUE]
             t == [trips[i] EXCEPT !.visits = T]
  <1>1. trips \in Seq(Trip) /\ trips[i] \in Trip /\ S \in Seq(Visit) /\ Walkable(S) /\ SpanKept(trips[i])
    <2>1. trips \in Seq(Trip) /\ Walkable(S) /\ SpanKept(trips[i])
      BY DEF PlanInv
    <2>2. trips[i] \in Trip
      BY <2>1
    <2> QED BY <2>1, <2>2 DEF Trip
  <1>2. T \in Seq(Visit) /\ Walkable(T)
    BY <1>1, SkipKeepsPlan
  <1>3. trips' = [trips EXCEPT ![i] = t] /\ rows' = rows
    BY DEF Skip
  <1>6. SpanKept(t)
    <2>1. DOMAIN T = DOMAIN S /\ \A k \in DOMAIN S : T[k].day = S[k].day
      <3>1. \A k \in DOMAIN S : S[k] \in Visit
        BY <1>1
      <3> QED BY <1>1, <3>1 DEF Visit
    <2>2. t.visits = T /\ t.kind = trips[i].kind /\ t.legs = trips[i].legs /\ t.from = trips[i].from
      BY <1>1 DEF Trip
    <2> HIDE DEF t, T
    <2>3. \A d : FilledBy(trips[i], d, PerDay) => FilledBy(t, d, PerDay)
      <3> SUFFICES ASSUME NEW d PROVE {k \in DOMAIN t.visits : t.visits[k].day = d}
                                       = {k \in DOMAIN trips[i].visits : trips[i].visits[k].day = d}
        BY DEF FilledBy
      <3> QED BY <2>1, <2>2
    <2> QED BY <1>1, <2>2, <2>3 DEF SpanKept
  <1> HIDE DEF T, S
  <1>4. t \in Trip /\ t.visits = T
    BY <1>1, <1>2 DEF Trip
  <1> HIDE DEF t
  <1>5. /\ trips' \in Seq(Trip) /\ DOMAIN trips' = DOMAIN trips
        /\ \A k \in DOMAIN trips : trips'[k] = IF k = i THEN t ELSE trips[k]
    BY <1>1, <1>3, <1>4
  <1> QED BY <1>2, <1>3, <1>4, <1>5, <1>6 DEF PlanInv

LEMMA PlanInvStep == PlanInv /\ [Next]_vars => PlanInv'
  <1> SUFFICES ASSUME PlanInv, [Next]_vars PROVE PlanInv'
    OBVIOUS
  <1> USE DEF PlanInv
  <1>1. CASE ListTrips
    BY <1>1 DEF ListTrips
  <1>2. ASSUME NEW r \in Regions \cup {"any"}, NEW p \in Ranges, CreateDay(r, p[1]) PROVE PlanInv'
    <2>1. PICK region \in Chosen(r) :
            Create("day", <<[region |-> region, first |-> p[1], last |-> p[1]]>>, DayPlan[rows][region][p[1]])
      BY <1>2 DEF CreateDay
    <2>2. region \in Regions /\ p[1] \in Nat
      BY ChosenFacts, BoundFacts
    <2>3. <<[region |-> region, first |-> p[1], last |-> p[1]]>> \in Seq(Segment)
      BY <2>2 DEF Segment
    <2>4. Plans(DayPlan[rows][region][p[1]])
      BY <2>2, DayPlanned
    <2> QED BY <2>1, <2>3, <2>4, Created DEF SpanKept
  <1>3. ASSUME NEW r \in Regions \cup {"any"}, NEW p \in Ranges, NEW f \in Profiles, CreateRange(r, p[1], p[2], f)
        PROVE  PlanInv'
    <2>1. PICK region \in Chosen(r) :
            Create("range", <<[region |-> region, first |-> p[1], last |-> p[2]]>>,
                   RangePlan[rows][region][<<p[1], p[2]>>][f])
      BY <1>3 DEF CreateRange
    <2>2. region \in Regions /\ p[1] \in Nat /\ p[2] \in Nat /\ <<p[1], p[2]>> = p
      BY ChosenFacts, BoundFacts
    <2>3. <<[region |-> region, first |-> p[1], last |-> p[2]]>> \in Seq(Segment)
      BY <2>2 DEF Segment
    <2>4. Plans(RangePlan[rows][region][<<p[1], p[2]>>][f])
      BY <2>2, RangePlanned
    <2> DEFINE leg == [region |-> region, first |-> p[1], last |-> p[2]]
               t == [legs |-> <<leg>>, kind |-> "range", visits |-> RangePlan[rows][region][<<p[1], p[2]>>][f],
                     from |-> rows]
    <2>5. p[1] <= p[2]
      BY <1>3 DEF CreateRange
    <2>6. SpanKept(t)
      <3>1. leg \in Segment /\ leg.region = region /\ leg.first = p[1] /\ leg.last = p[2]
        BY <2>2 DEF Segment
      <3>2. t.legs[1] = leg /\ t.from = rows /\ t.visits = RangePlan[rows][region][p][f]
        BY <2>2
      <3> HIDE DEF leg, t
      <3>3. ASSUME leg.last - leg.first + 1 <= MaxDays[rows][region], NEW d \in leg.first .. leg.last
            PROVE  FilledBy(t, d, PerDay)
        BY <2>2, <2>5, <3>1, <3>2, <3>3, RangeFilled DEF FilledBy
      <3> QED BY <3>1, <3>2, <3>3 DEF SpanKept
    <2> QED BY <2>1, <2>3, <2>4, <2>6, Created
  <1>4. ASSUME NEW legs \in Itineraries, CreateCorridor(legs) PROVE PlanInv'
    <2>1. legs \in Seq(Segment) /\ Create("corridor", legs, CorridorPlan[rows][legs])
      BY <1>4, PlanAssumption DEF CreateCorridor
    <2>2. Plans(CorridorPlan[rows][legs])
      BY CorridorPlanned
    <2> QED BY <2>1, <2>2, Created DEF SpanKept
  <1>5. CASE ChangeCatalog
    BY <1>5 DEF ChangeCatalog
  <1>6. ASSUME NEW i \in DOMAIN trips, NEW j \in DOMAIN trips[i].visits, Skip(i, j) PROVE PlanInv'
    BY <1>6, SkippedTrip
  <1>7. CASE Wait
    BY <1>7 DEF Wait
  <1>8. CASE UNCHANGED vars
    BY <1>8 DEF vars
  <1> QED BY <1>1, <1>2, <1>3, <1>4, <1>5, <1>6, <1>7, <1>8 DEF Next

LEMMA PlanInvariant == Spec => []PlanInv
  <1>1. Init => PlanInv
    <2>1. <<>> \in Seq(Trip) /\ DOMAIN <<>> = {}
      OBVIOUS
    <2> QED BY <2>1 DEF Init, PlanInv
  <1> QED BY <1>1, PlanInvStep, PTL DEF Spec

\* Whatever the catalog, the hours, the interests and the days asked for: each
\* stop of each trip is open for the whole stay, is of the kind its slot takes,
\* is reached on foot from the one before, and no venue comes twice in a city
\* (pack_day, range_nodes_from_catalog, build_corridor_nodes).
THEOREM Walked == Spec => []PlanHolds
  <1>1. PlanInv => PlanHolds
    BY DEF PlanInv, PlanHolds, Walkable
  <1> QED BY <1>1, PlanInvariant, PTL

-----------------------------------------------------------------------------
(* What the home screen features *)

\* Over a finite set of indices a function has a least and a greatest value.
LEMMA Extremes ==
    ASSUME NEW I, IsFiniteSet(I), I # {}, NEW F \in [I -> Int]
    PROVE  /\ \E i \in I : \A j \in I : F[i] <= F[j]
           /\ \E i \in I : \A j \in I : F[j] <= F[i]
           /\ {F[i] : i \in I} \subseteq Int /\ {F[i] : i \in I} # {} /\ IsFiniteSet({F[i] : i \in I})
  <1> DEFINE T == {F[i] : i \in I}
  <1>1. T \in SUBSET Int /\ T # {}
    OBVIOUS
  <1>2. IsFiniteSet(T)
    <2>1. F \in Surjection(I, T)
      BY DEF Surjection
    <2> HIDE DEF T
    <2> QED BY <2>1, FS_Surjection
  <1>3. \A i \in I : F[i] \in T
    OBVIOUS
  <1>4. \A x \in T : \E i \in I : x = F[i]
    OBVIOUS
  <1> HIDE DEF T
  <1>5. PICK m \in T : \A n \in T : m <= n
    BY <1>1, <1>2, LeastOfFinite
  <1>6. Max(T) \in T /\ \A n \in T : n <= Max(T)
    BY <1>1, <1>2, MaxOfFinite
  <1>7. \E i \in I : \A j \in I : F[i] <= F[j]
    BY <1>3, <1>4, <1>5
  <1>8. \E i \in I : \A j \in I : F[j] <= F[i]
    BY <1>3, <1>4, <1>6
  <1>9. T \subseteq Int /\ T # {} /\ IsFiniteSet(T)
    BY <1>1, <1>2
  <1> QED BY <1>7, <1>8, <1>9 DEF T

\* A trip with stops starts with one of them, and ends no earlier than any ends.
LEMMA TripSpan ==
    ASSUME NEW t \in Trip, t.visits # <<>>
    PROVE  /\ StartsAt(t) \in Int /\ EndsAt(t) \in Int
           /\ \A i \in DOMAIN t.visits : VisitEnd(t.visits[i]) \in Int /\ VisitEnd(t.visits[i]) <= EndsAt(t)
  <1> DEFINE S == t.visits
             starts == [i \in DOMAIN S |-> S[i].start]
             ends == [i \in DOMAIN S |-> VisitEnd(S[i])]
  <1>1. S \in Seq(Visit) /\ S # <<>>
    BY DEF Trip
  <1> HIDE DEF S
  <1>2. IsFiniteSet(DOMAIN S) /\ DOMAIN S # {}
    <2>1. DOMAIN S = 1 .. Len(S) /\ Len(S) \in Nat
      BY <1>1
    <2>2. Len(S) # 0
      BY <1>1
    <2>3. DOMAIN S \in SUBSET (DOMAIN S) /\ DOMAIN S # {}
      BY <2>1, <2>2
    <2> QED BY <1>1, <2>3, DomainFinite
  <1>3. \A i \in DOMAIN S : S[i] \in Visit
    BY <1>1
  <1>4. starts \in [DOMAIN S -> Int] /\ ends \in [DOMAIN S -> Int]
    BY <1>3, VisitFacts
  <1>5. StartsAt(t) = Min({starts[i] : i \in DOMAIN S}) /\ EndsAt(t) = Max({ends[i] : i \in DOMAIN S})
    <2>1. {starts[i] : i \in DOMAIN S} = {S[i].start : i \in DOMAIN S}
      OBVIOUS
    <2>2. {ends[i] : i \in DOMAIN S} = {VisitEnd(S[i]) : i \in DOMAIN S}
      OBVIOUS
    <2> HIDE DEF starts, ends
    <2> QED BY <2>1, <2>2 DEF StartsAt, EndsAt, S
  <1>6. \A i \in DOMAIN S : ends[i] = VisitEnd(S[i])
    OBVIOUS
  <1> HIDE DEF starts, ends
  <1>7. Min({starts[i] : i \in DOMAIN S}) \in Int
    <2>1. {starts[i] : i \in DOMAIN S} \in SUBSET Int /\ {starts[i] : i \in DOMAIN S} # {}
          /\ IsFiniteSet({starts[i] : i \in DOMAIN S})
      BY <1>2, <1>4, Extremes
    <2> QED BY <2>1, MinOfFinite
  <1>8. /\ Max({ends[i] : i \in DOMAIN S}) \in Int
        /\ \A i \in DOMAIN S : ends[i] <= Max({ends[j] : j \in DOMAIN S})
    <2>1. {ends[i] : i \in DOMAIN S} \in SUBSET Int /\ {ends[i] : i \in DOMAIN S} # {}
          /\ IsFiniteSet({ends[i] : i \in DOMAIN S})
      BY <1>2, <1>4, Extremes
    <2>2. \A i \in DOMAIN S : ends[i] \in {ends[j] : j \in DOMAIN S}
      OBVIOUS
    <2> QED BY <2>1, <2>2, MaxOfFinite
  <1> QED BY <1>4, <1>5, <1>6, <1>7, <1>8 DEF S

LEMMA LeftFacts ==
    ASSUME NEW t \in Trip, NEW i \in StopsLeft(t)
    PROVE  /\ i \in DOMAIN t.visits /\ t.visits[i] \in Visit /\ t.visits # <<>>
           /\ ~ t.visits[i].skipped /\ VisitEnd(t.visits[i]) > now
  <1>1. t.visits \in Seq(Visit) /\ i \in DOMAIN t.visits
    BY DEF Trip, StopsLeft
  <1>2. t.visits # <<>>
    BY <1>1
  <1> QED BY <1>1, <1>2 DEF StopsLeft

\* Some trip is featured as soon as one has a stop left.
LEMMA SomeFeatured ==
    ASSUME trips \in Seq(Trip), now \in Int
    PROVE  /\ Featured \subseteq {i \in DOMAIN trips : StopsLeft(trips[i]) # {}}
           /\ Featured = {} => \A i \in DOMAIN trips : StopsLeft(trips[i]) = {}
  <1> DEFINE left == {i \in DOMAIN trips : StopsLeft(trips[i]) # {}}
             active == {i \in left : StartsAt(trips[i]) <= now /\ now < EndsAt(trips[i])}
             upcoming == {i \in left : StartsAt(trips[i]) > now}
             ofActive == {i \in active : \A j \in active : StartsAt(trips[j]) <= StartsAt(trips[i])}
             ofUpcoming == {i \in upcoming : \A j \in upcoming : StartsAt(trips[i]) <= StartsAt(trips[j])}
  <1>1. Featured = IF active # {} THEN ofActive ELSE ofUpcoming
    BY DEF Featured
  <1>2. \A i \in DOMAIN trips : trips[i] \in Trip
    OBVIOUS
  <1>3. ASSUME NEW i \in left
        PROVE  StartsAt(trips[i]) \in Int /\ (i \in active \/ i \in upcoming)
    <2>1. PICK j : j \in StopsLeft(trips[i])
      BY <1>3
    <2>2. trips[i] \in Trip
      BY <1>2, <1>3
    <2>3. trips[i].visits # <<>> /\ j \in DOMAIN trips[i].visits /\ VisitEnd(trips[i].visits[j]) > now
      BY <2>1, <2>2, LeftFacts
    <2>4. /\ StartsAt(trips[i]) \in Int /\ EndsAt(trips[i]) \in Int /\ VisitEnd(trips[i].visits[j]) \in Int
          /\ VisitEnd(trips[i].visits[j]) <= EndsAt(trips[i])
      BY <2>2, <2>3, TripSpan
    <2>5. now < EndsAt(trips[i])
      BY <2>3, <2>4
    <2> QED BY <2>4, <2>5
  <1>4. active \subseteq left /\ upcoming \subseteq left /\ left \in SUBSET (DOMAIN trips)
    OBVIOUS
  <1> HIDE DEF left, active, upcoming
  <1>5. IsFiniteSet(active) /\ IsFiniteSet(upcoming)
    <2>1. active \in SUBSET (DOMAIN trips) /\ upcoming \in SUBSET (DOMAIN trips)
      BY <1>4
    <2> QED BY <2>1, DomainFinite
  <1>6. active # {} => ofActive # {}
    <2> SUFFICES ASSUME active # {} PROVE ofActive # {}
      OBVIOUS
    <2> DEFINE F == [i \in active |-> StartsAt(trips[i])]
    <2>1. F \in [active -> Int]
      BY <1>3, <1>4
    <2>2. \A i \in active : F[i] = StartsAt(trips[i])
      OBVIOUS
    <2> HIDE DEF F
    <2>3. \E i \in active : \A j \in active : F[j] <= F[i]
      BY <2>1, <1>5, Extremes
    <2> QED BY <2>2, <2>3
  <1>7. upcoming # {} => ofUpcoming # {}
    <2> SUFFICES ASSUME upcoming # {} PROVE ofUpcoming # {}
      OBVIOUS
    <2> DEFINE F == [i \in upcoming |-> StartsAt(trips[i])]
    <2>1. F \in [upcoming -> Int]
      BY <1>3, <1>4
    <2>2. \A i \in upcoming : F[i] = StartsAt(trips[i])
      OBVIOUS
    <2> HIDE DEF F
    <2>3. \E i \in upcoming : \A j \in upcoming : F[i] <= F[j]
      BY <2>1, <1>5, Extremes
    <2> QED BY <2>2, <2>3
  <1>8. ofActive \subseteq left /\ ofUpcoming \subseteq left
    BY <1>4
  <1> HIDE DEF ofActive, ofUpcoming
  <1>9. Featured = {} => left = {}
    BY <1>1, <1>3, <1>6, <1>7
  <1>10. Featured \subseteq left
    BY <1>1, <1>8
  <1> QED BY <1>9, <1>10 DEF left

-----------------------------------------------------------------------------
(* The capacity cache and what it advertises *)

\* An entry holds the days of the catalogs that have its fingerprint.
Entry == {e \in [region : Regions, print : Catalogs, days : 0 .. Ceiling] : e.days = MaxDays[e.print][e.region]}

\* One entry for a region's catalog at most, and no more than there is room for.
CacheHolds(cache) ==
    /\ cache \in Seq(Entry) /\ Len(cache) <= CacheSize
    /\ \A i, j \in DOMAIN cache : cache[i].region = cache[j].region /\ cache[i].print = cache[j].print => i = j

LEMMA DaysForFacts ==
    ASSUME rows \in Catalogs, NEW cache, CacheHolds(cache), NEW r \in Regions
    PROVE  DaysFor(cache, r) \in 0 .. Ceiling /\ DaysFor(cache, r) \in {0, MaxDays[rows][r]}
  <1>1. Ceiling \in Nat /\ MaxDays[rows][r] \in 0 .. Ceiling
    BY MaxDaysFacts, PlanAssumption
  <1>2. ASSUME NEW i \in Cached(cache, r) PROVE cache[i].days = MaxDays[rows][r]
    <2>1. cache[i] \in Entry /\ cache[i].region = r /\ cache[i].print = Fingerprint[rows][r]
      BY DEF CacheHolds, Cached
    <2>2. cache[i].days = MaxDays[Fingerprint[rows][r]][r]
      BY <2>1 DEF Entry
    <2> QED BY <2>2, FingerprintSame
  <1> QED BY <1>1, <1>2 DEF DaysFor

LEMMA Remembered ==
    ASSUME rows \in Catalogs, NEW cache, CacheHolds(cache), NEW r \in Regions
    PROVE  CacheHolds(Remember(cache, r))
  <1> DEFINE e == [region |-> r, print |-> Fingerprint[rows][r], days |-> MaxDays[rows][r]]
             kept == IF Len(cache) >= CacheSize THEN Tail(cache) ELSE cache
  <1>1. e \in Entry /\ CacheSize \in Nat \ {0}
    <2>1. /\ e \in [region : Regions, print : Catalogs, days : 0 .. Ceiling]
          /\ e.print = Fingerprint[rows][r] /\ e.region = r /\ e.days = MaxDays[rows][r]
      BY MaxDaysFacts, FingerprintSame
    <2>2. e.days = MaxDays[e.print][e.region]
      BY <2>1, FingerprintSame
    <2> QED BY <2>1, <2>2, PlanAssumption DEF Entry
  <1>2. cache \in Seq(Entry) /\ Len(cache) <= CacheSize
    BY DEF CacheHolds
  <1>3. Remember(cache, r) \in {cache, Append(kept, e)}
    BY DEF Remember
  <1>4. Remember(cache, r) = Append(kept, e) /\ Append(kept, e) # cache =>
          \A i \in DOMAIN cache : ~ (cache[i].region = e.region /\ cache[i].print = e.print)
    BY DEF Remember, Cached
  <1> HIDE DEF e
  <1>5. /\ kept \in Seq(Entry) /\ Len(kept) < CacheSize
        /\ \E s \in {0, 1} : /\ Len(kept) + s = Len(cache)
                             /\ \A i \in 1 .. Len(kept) : kept[i] = cache[i + s]
    <2>1. CASE Len(cache) >= CacheSize
      <3>1. kept = Tail(cache) /\ cache # <<>>
        BY <1>1, <1>2, <2>1
      <3>2. kept \in Seq(Entry) /\ Len(kept) = Len(cache) - 1 /\ \A i \in 1 .. Len(kept) : kept[i] = cache[i + 1]
        BY <1>2, <3>1
      <3> QED BY <1>1, <1>2, <3>2
    <2>2. CASE Len(cache) < CacheSize
      <3>1. kept = cache
        BY <1>1, <1>2, <2>2
      <3> HIDE DEF kept
      <3> QED BY <1>1, <1>2, <2>2, <3>1
    <2> QED BY <1>1, <1>2, <2>1, <2>2
  <1> HIDE DEF kept
  <1>6. CASE Remember(cache, r) = cache
    BY <1>6
  <1>7. CASE Remember(cache, r) = Append(kept, e) /\ Append(kept, e) # cache
    <2> DEFINE new == Append(kept, e)
    <2>1. PICK s \in {0, 1} : Len(kept) + s = Len(cache) /\ \A i \in 1 .. Len(kept) : kept[i] = cache[i + s]
      BY <1>5
    <2>2. /\ new \in Seq(Entry) /\ Len(new) = Len(kept) + 1 /\ new[Len(new)] = e
          /\ \A i \in 1 .. Len(kept) : new[i] = cache[i + s] /\ i + s \in DOMAIN cache
      BY <1>1, <1>2, <1>5, <2>1
    <2>3. \A i \in DOMAIN new : i \in 1 .. Len(kept) \/ i = Len(new)
      BY <1>5, <2>2
    <2> HIDE DEF new
    <2>4. ASSUME NEW i \in DOMAIN new, NEW j \in DOMAIN new,
                 new[i].region = new[j].region, new[i].print = new[j].print
          PROVE  i = j
      <3>1. CASE i \in 1 .. Len(kept) /\ j \in 1 .. Len(kept)
        <4>1. /\ i + s \in DOMAIN cache /\ new[i] = cache[i + s]
              /\ j + s \in DOMAIN cache /\ new[j] = cache[j + s]
          BY <2>2, <3>1
        <4> DEFINE a == i + s
                   b == j + s
        <4>2. a \in DOMAIN cache /\ b \in DOMAIN cache
              /\ cache[a].region = cache[b].region /\ cache[a].print = cache[b].print
          BY <4>1, <2>4
        <4> HIDE DEF a, b
        <4>3. a = b
          BY <4>2 DEF CacheHolds
        <4> QED BY <4>3, <2>1, <3>1 DEF a, b
      <3>2. CASE i \in 1 .. Len(kept) /\ j = Len(new)
        BY <1>4, <1>7, <2>2, <2>4, <3>2
      <3>3. CASE i = Len(new) /\ j \in 1 .. Len(kept)
        BY <1>4, <1>7, <2>2, <2>4, <3>3
      <3> QED BY <2>3, <3>1, <3>2, <3>3
    <2>5. Len(new) <= CacheSize
      BY <1>1, <1>5, <2>2
    <2>6. CacheHolds(new)
      BY <2>2, <2>4, <2>5 DEF CacheHolds
    <2> QED BY <2>6, <1>7 DEF new
  <1> QED BY <1>3, <1>6, <1>7

\* What GET /trips has listed so far.
Listing(acc) ==
    /\ CacheHolds(acc.cache)
    /\ DOMAIN acc.days \in SUBSET Regions /\ acc.days \in [DOMAIN acc.days -> 0 .. Ceiling]
    /\ \A x \in DOMAIN acc.days : acc.days[x] \in {0, MaxDays[rows][x]}

LEMMA RegionAdded ==
    ASSUME rows \in Catalogs, NEW acc, Listing(acc), NEW r \in Regions
    PROVE  Listing(AddRegion(acc, r))
  <1> DEFINE days == [x \in DOMAIN acc.days \cup {r} |-> IF x = r THEN DaysFor(acc.cache, r) ELSE acc.days[x]]
             next == [cache |-> Remember(acc.cache, r), days |-> days]
  <1>1. /\ CacheHolds(acc.cache) /\ CacheHolds(Remember(acc.cache, r))
        /\ DaysFor(acc.cache, r) \in 0 .. Ceiling /\ DaysFor(acc.cache, r) \in {0, MaxDays[rows][r]}
    BY Remembered, DaysForFacts DEF Listing
  <1>2. DOMAIN acc.days \in SUBSET Regions /\ \A x \in DOMAIN acc.days : acc.days[x] \in 0 .. Ceiling
    BY DEF Listing
  <1>3. \A x \in DOMAIN acc.days \cup {r} :
            (IF x = r THEN DaysFor(acc.cache, r) ELSE acc.days[x]) \in 0 .. Ceiling
    BY <1>1, <1>2
  <1>4. days \in [DOMAIN acc.days \cup {r} -> 0 .. Ceiling]
    BY <1>3
  <1>8. \A x \in DOMAIN days : days[x] \in {0, MaxDays[rows][x]}
    <2>1. \A x \in DOMAIN acc.days : acc.days[x] \in {0, MaxDays[rows][x]}
      BY DEF Listing
    <2> QED BY <1>1, <2>1
  <1> HIDE DEF days
  <1>5. DOMAIN days \in SUBSET Regions /\ days \in [DOMAIN days -> 0 .. Ceiling]
    BY <1>2, <1>4
  <1>6. Listing(next)
    BY <1>1, <1>5, <1>8 DEF Listing
  <1>7. AddRegion(acc, r) \in {acc, next}
    BY DEF AddRegion, days
  <1> QED BY <1>6, <1>7

\* The recursion over the advertised regions defines a function.
Lists(g, N) ==
    g = [n \in 0 .. N |-> IF n = 0 THEN [cache |-> capacity, days |-> [x \in {} |-> 0]]
                                   ELSE AddRegion(g[n - 1], Preferred[n])]

LEMMA ListedExists ==
    ASSUME NEW N \in Nat
    PROVE  \E g : Lists(g, N)
  <1> DEFINE base == [cache |-> capacity, days |-> [x \in {} |-> 0]]
             step(acc, n) == AddRegion(acc, Preferred[n])
             upTo(g, k) == g = [n \in 0 .. k |-> IF n = 0 THEN base ELSE step(g[n - 1], n)]
             T == {k \in 0 .. N : ~ \E g : upTo(g, k)}
  <1>1. SUFFICES ASSUME T # {} PROVE FALSE
    <2>1. N \in 0 .. N
      OBVIOUS
    <2>2. T = {} => \E g : upTo(g, N)
      BY <2>1
    <2>3. \A g : upTo(g, N) <=> Lists(g, N)
      BY DEF Lists
    <2> HIDE DEF upTo, T
    <2> QED BY <2>2, <2>3
  <1>2. PICK k \in T : \A l \in T : k <= l
    <2>1. T \in SUBSET Nat
      OBVIOUS
    <2> HIDE DEF T
    <2> QED BY <1>1, <2>1, Least
  <1> HIDE DEF step, base
  <1>3. CASE k = 0
    <2> DEFINE g == [n \in 0 .. 0 |-> base]
    <2>1. upTo(g, 0)
      OBVIOUS
    <2> QED BY <2>1, <1>2, <1>3
  <1>4. CASE k # 0
    <2>1. k \in Nat /\ k - 1 \in 0 .. N /\ k - 1 \notin T
      BY <1>2, <1>4
    <2>2. PICK g : upTo(g, k - 1)
      BY <2>1
    <2> DEFINE h == [n \in 0 .. k |-> IF n = k THEN step(g[k - 1], k) ELSE g[n]]
    <2>3. ASSUME NEW n \in 0 .. k PROVE h[n] = IF n = 0 THEN base ELSE step(h[n - 1], n)
      <3>1. CASE n = k
        <4>1. h[k - 1] = g[k - 1] /\ h[k] = step(g[k - 1], k)
          BY <2>1, <1>4
        <4> QED BY <4>1, <3>1, <1>4
      <3>2. CASE n # k /\ n # 0
        <4>1. h[n] = g[n] /\ h[n - 1] = g[n - 1] /\ n \in 0 .. k - 1
          BY <3>2, <2>1
        <4> QED BY <4>1, <2>2, <3>2
      <3>3. CASE n = 0
        <4>1. h[n] = g[n] /\ n \in 0 .. k - 1
          BY <3>3, <2>1, <1>4
        <4> QED BY <4>1, <2>2, <3>3
      <3> QED BY <3>1, <3>2, <3>3
    <2>4. h = [n \in 0 .. k |-> h[n]]
      OBVIOUS
    <2> HIDE DEF h
    <2>5. upTo(h, k)
      BY <2>3, <2>4
    <2> QED BY <2>5, <1>2
  <1> QED BY <1>3, <1>4

LEMMA CapacitiesFacts ==
    ASSUME rows \in Catalogs, CacheHolds(capacity)
    PROVE  Listing(Capacities)
  <1> DEFINE N == Len(Preferred)
             base == [cache |-> capacity, days |-> [x \in {} |-> 0]]
             listed == CHOOSE g : Lists(g, N)
             T == {n \in 0 .. N : ~ Listing(listed[n])}
  <1>1. N \in Nat /\ \A n \in 1 .. N : Preferred[n] \in Regions
    BY PlanAssumption
  <1>2. Capacities = listed[N]
    BY DEF Capacities, Lists
  <1>3. Lists(listed, N)
    BY <1>1, ListedExists
  <1>4. \A n \in 0 .. N : listed[n] = IF n = 0 THEN base ELSE AddRegion(listed[n - 1], Preferred[n])
    <2> HIDE DEF listed, N
    <2> QED BY <1>3 DEF Lists
  <1>5. Listing(base)
    BY DEF Listing
  <1> HIDE DEF listed, N, base
  <1>6. T = {}
    <2> SUFFICES ASSUME T # {} PROVE FALSE
      OBVIOUS
    <2>1. PICK n \in T : \A l \in T : n <= l
      <3>1. T \in SUBSET Nat
        BY <1>1
      <3> HIDE DEF T
      <3> QED BY <3>1, Least
    <2>2. n \in 0 .. N /\ ~ Listing(listed[n])
      BY <2>1
    <2>3. CASE n = 0
      BY <1>4, <1>5, <2>2, <2>3
    <2>4. CASE n # 0
      <3>1. n \in 1 .. N /\ n - 1 \in 0 .. N /\ n - 1 \notin T
        BY <1>1, <2>1, <2>2, <2>4
      <3>2. Listing(listed[n - 1]) /\ Preferred[n] \in Regions
        BY <1>1, <3>1
      <3>3. Listing(AddRegion(listed[n - 1], Preferred[n]))
        BY <3>2, RegionAdded
      <3> QED BY <1>4, <2>2, <2>4, <3>3
    <2> QED BY <2>3, <2>4
  <1> QED BY <1>1, <1>2, <1>6

-----------------------------------------------------------------------------
(* The types, and the home screen *)

\* The answer advertises no days but those its catalog can fill.
HomeHonest ==
    home # NotLoaded =>
        /\ home.from \in Catalogs
        /\ \A x \in DOMAIN home.days : x \in Regions /\ home.days[x] \in {0, MaxDays[home.from][x]}

TypeInv == TypeOK /\ CacheHolds(capacity) /\ now \in Nat /\ HomeHonest

LEMMA MomentsFacts == Moments \subseteq Nat
  BY PlanAssumption

LEMMA FeaturedStopFacts ==
    ASSUME NEW t \in Trip, StopsLeft(t) # {}
    PROVE  FeaturedStop(t) \in Visit
  <1> DEFINE S == t.visits
             I == StopsLeft(t)
             F == [i \in I |-> S[i].start]
  <1>1. S \in Seq(Visit) /\ I \in SUBSET (DOMAIN S)
    BY DEF Trip, StopsLeft
  <1>2. \A i \in I : S[i] \in Visit
    BY <1>1
  <1>3. F \in [I -> Int]
    BY <1>2, VisitFacts
  <1>4. \A i \in I : F[i] = S[i].start
    OBVIOUS
  <1> HIDE DEF F
  <1>5. IsFiniteSet(I)
    BY <1>1, DomainFinite
  <1>6. \E i \in I : \A j \in I : F[i] <= F[j]
    BY <1>3, <1>5, Extremes
  <1>7. \E i \in I : \A j \in I : S[i].start <= S[j].start
    BY <1>4, <1>6
  <1>8. FeaturedStop(t) = S[CHOOSE i \in I : \A j \in I : S[i].start <= S[j].start]
    BY DEF FeaturedStop
  <1> HIDE DEF I, S
  <1> QED BY <1>2, <1>7, <1>8

LEMMA Listed ==
    ASSUME PlanInv, TypeInv, ListTrips
    PROVE  TypeInv'
  <1>1. Listing(Capacities)
    BY CapacitiesFacts DEF PlanInv, TypeInv
  <1>2. PICK i \in IF Featured = {} THEN {0} ELSE Featured :
            home' = [days |-> Capacities.days, corridors |-> AdvertisedCorridors, featured |-> i,
                     stop |-> IF i = 0 THEN NotLoaded ELSE FeaturedStop(trips[i]), from |-> rows]
    BY DEF ListTrips
  <1>3. i = 0 \/ (i \in DOMAIN trips /\ StopsLeft(trips[i]) # {})
    BY <1>2, SomeFeatured DEF PlanInv, TypeInv
  <1>4. i \in 0 .. MaxTrips /\ (i = 0 \/ FeaturedStop(trips[i]) \in Visit)
    <2>1. trips \in Seq(Trip) /\ Len(trips) <= MaxTrips /\ MaxTrips \in Nat
      BY PlanAssumption DEF PlanInv, TypeInv, TypeOK
    <2>2. CASE i = 0
      BY <2>1, <2>2
    <2>3. CASE i \in DOMAIN trips /\ StopsLeft(trips[i]) # {}
      <3>1. trips[i] \in Trip /\ i \in 0 .. MaxTrips
        BY <2>1, <2>3
      <3> QED BY <2>3, <3>1, FeaturedStopFacts
    <2> QED BY <1>3, <2>2, <2>3
  <1>5. Capacities.days \in UNION {[R -> 0 .. Ceiling] : R \in SUBSET Regions}
    BY <1>1 DEF Listing
  <1>6. AdvertisedCorridors \in SUBSET Corridors
    BY DEF AdvertisedCorridors
  <1>7. rows \in SUBSET Venues
    BY PlanAssumption DEF PlanInv
  <1> DEFINE stop == IF i = 0 THEN NotLoaded ELSE FeaturedStop(trips[i])
  <1>8. stop \in Visit \cup {NotLoaded}
    BY <1>4
  <1> HIDE DEF stop
  <1>9. home' = [days |-> Capacities.days, corridors |-> AdvertisedCorridors, featured |-> i,
                 stop |-> stop, from |-> rows]
    BY <1>2 DEF stop
  <1>10. home' \in Home
    BY <1>4, <1>5, <1>6, <1>7, <1>8, <1>9 DEF Home
  <1>11. CacheHolds(capacity)'
    BY <1>1 DEF ListTrips, Listing, CacheHolds
  <1>12. HomeHonest'
    <2>1. home'.from = rows /\ home'.days = Capacities.days /\ rows \in Catalogs
      BY <1>9 DEF PlanInv
    <2> QED BY <1>1, <2>1 DEF HomeHonest, Listing
  <1> QED BY <1>10, <1>11, <1>12 DEF TypeInv, TypeOK, ListTrips, CacheHolds

LEMMA TypeInvStep == PlanInv /\ PlanInv' /\ TypeInv /\ [Next]_vars => TypeInv'
  <1> SUFFICES ASSUME PlanInv, PlanInv', TypeInv, [Next]_vars PROVE TypeInv'
    OBVIOUS
  <1>1. CASE ListTrips
    BY <1>1, Listed
  <1>2. ASSUME NEW kind, NEW legs, NEW visits, Create(kind, legs, visits) PROVE TypeInv'
    <2>1. Len(trips') <= MaxTrips
      BY <1>2, PlanAssumption DEF Create, PlanInv
    <2> QED BY <1>2, <2>1 DEF Create, TypeInv, TypeOK, CacheHolds, PlanInv, HomeHonest
  <1>3. ASSUME NEW r \in Regions \cup {"any"}, NEW p \in Ranges, CreateDay(r, p[1]) PROVE TypeInv'
    BY <1>2, <1>3 DEF CreateDay
  <1>4. ASSUME NEW r \in Regions \cup {"any"}, NEW p \in Ranges, NEW f \in Profiles, CreateRange(r, p[1], p[2], f)
        PROVE  TypeInv'
    BY <1>2, <1>4 DEF CreateRange
  <1>5. ASSUME NEW legs \in Itineraries, CreateCorridor(legs) PROVE TypeInv'
    BY <1>2, <1>5 DEF CreateCorridor
  <1>6. CASE ChangeCatalog
    <2>1. changes' \in 0 .. MaxChanges
      BY <1>6, PlanAssumption DEF ChangeCatalog, TypeInv, TypeOK
    <2> QED BY <1>6, <2>1 DEF ChangeCatalog, TypeInv, TypeOK, CacheHolds, HomeHonest
  <1>7. ASSUME NEW i \in DOMAIN trips, NEW j \in DOMAIN trips[i].visits, Skip(i, j) PROVE TypeInv'
    <2>1. Len(trips') = Len(trips)
      BY <1>7 DEF Skip, PlanInv
    <2> QED BY <1>7, <2>1 DEF Skip, TypeInv, TypeOK, CacheHolds, PlanInv, HomeHonest
  <1>8. CASE Wait
    BY <1>8, MomentsFacts DEF Wait, TypeInv, TypeOK, CacheHolds, HomeHonest
  <1>9. CASE UNCHANGED vars
    BY <1>9 DEF vars, TypeInv, TypeOK, CacheHolds, HomeHonest
  <1> QED BY <1>1, <1>3, <1>4, <1>5, <1>6, <1>7, <1>8, <1>9 DEF Next

LEMMA TypeInvariant == Spec => [](PlanInv /\ TypeInv)
  <1>1. Init => TypeInv
    <2> SUFFICES ASSUME Init PROVE TypeInv
      OBVIOUS
    <2>1. Min(Moments) \in Moments
      <3>1. \E m \in Moments : \A n \in Moments : m <= n
        BY PlanAssumption, Least
      <3> QED BY <3>1 DEF Min
    <2>2. /\ <<>> \in Seq(Trip) /\ <<>> \in Seq(Entry) /\ Len(<<>>) = 0 /\ DOMAIN <<>> = {}
          /\ MaxTrips \in Nat /\ CacheSize \in Nat /\ MaxChanges \in Nat
      BY PlanAssumption
    <2>3. trips = <<>> /\ capacity = <<>> /\ home = NotLoaded /\ changes = 0 /\ rows \in Catalogs /\ now \in Moments
      BY <2>1 DEF Init
    <2>4. CacheHolds(capacity)
      BY <2>2, <2>3 DEF CacheHolds
    <2>5. trips \in Seq(Trip) /\ Len(trips) <= MaxTrips /\ changes \in 0 .. MaxChanges
      <3>1. Len(trips) = 0 /\ 0 <= MaxTrips
        BY <2>2, <2>3
      <3>2. MaxChanges \in Nat
        BY PlanAssumption
      <3> QED BY <2>2, <2>3, <3>1, <3>2
    <2>6. TypeOK
      BY <2>3, <2>4, <2>5 DEF TypeOK, CacheHolds
    <2> QED BY <2>3, <2>4, <2>6, MomentsFacts DEF TypeInv, HomeHonest
  <1> QED BY <1>1, PlanInvariant, TypeInvStep, PTL DEF Spec

\* The trips, the answer of GET /trips and the capacity cache keep their types:
\* no answer advertises more than the ceiling or features a trip that is not
\* there, and the cache has one entry per region and catalog and never outgrows
\* its bound (_CAPACITY_CACHE_MAX_SIZE).
THEOREM TypeCorrect == Spec => []TypeOK
  BY TypeInvariant, PTL DEF TypeInv

\* A range trip over no more days than the home screen advertised, of the same
\* catalog, has every day full: an entry of the capacity cache, however old, holds
\* the days of every catalog with its fingerprint, and so many days are filled
\* from any date and for any interests (compute_max_days_for_region,
\* _catalog_fingerprint, range_nodes_from_catalog).
THEOREM AdvertisedHolds == Spec => []AdvertisedIsKept
  <1>1. PlanInv /\ TypeInv => AdvertisedIsKept
    <2> SUFFICES ASSUME PlanInv, TypeInv, home # NotLoaded, NEW t \in ToSet(trips),
                        t.kind = "range", t.from = home.from, t.legs[1].region \in DOMAIN home.days,
                        t.legs[1].last - t.legs[1].first + 1 <= home.days[t.legs[1].region],
                        NEW d \in t.legs[1].first .. t.legs[1].last
                 PROVE  FilledBy(t, d, PerDay)
      BY DEF AdvertisedIsKept
    <2> DEFINE leg == t.legs[1]
    <2>1. PICK i \in DOMAIN trips : t = trips[i]
      BY DEF ToSet
    <2>2. SpanKept(t)
      BY <2>1 DEF PlanInv
    <2>3. leg \in Segment /\ t.from \in Catalogs
      BY <2>2 DEF SpanKept
    <2>4. leg.region \in Regions /\ home.days[leg.region] \in {0, MaxDays[t.from][leg.region]}
      BY DEF TypeInv, HomeHonest
    <2>5. leg.first \in Nat /\ leg.last \in Nat /\ d \in leg.first .. leg.last
      BY <2>3 DEF Segment
    <2>6. leg.last - leg.first + 1 <= home.days[leg.region]
      OBVIOUS
    <2>7. \/ leg.last - leg.first + 1 <= 0
          \/ leg.last - leg.first + 1 <= MaxDays[t.from][leg.region]
      <3> HIDE DEF leg
      <3> QED BY <2>4, <2>6
    <2>8. leg.first <= d /\ d <= leg.last /\ d \in Int
      <3> HIDE DEF leg
      <3> QED BY <2>5
    <2>9. leg.last - leg.first + 1 <= MaxDays[t.from][leg.region]
      <3> HIDE DEF leg
      <3> QED BY <2>5, <2>7, <2>8
    <2> QED BY <2>2, <2>9 DEF SpanKept
  <1> QED BY <1>1, TypeInvariant, PTL

\* Each answer of GET /trips features a trip exactly when some trip has a stop
\* that is neither skipped nor over (_featured_trip).
THEOREM HomeFeatures == Spec => HomeNeverBlank
  <1> DEFINE Left == \E t \in ToSet(trips) : \E v \in ToSet(t.visits) : ~v.skipped /\ VisitEnd(v) > now
  <1>1. PlanInv /\ TypeInv /\ [Next]_vars => [home' # home => (home'.featured # 0 <=> Left)]_vars
    <2> SUFFICES ASSUME PlanInv, TypeInv, [Next]_vars, home' # home PROVE home'.featured # 0 <=> Left
      BY DEF vars
    <2>1. ListTrips
      BY DEF Next, vars, Create, CreateDay, CreateRange, CreateCorridor, ChangeCatalog, Skip, Wait
    <2>2. home'.featured \in IF Featured = {} THEN {0} ELSE Featured
      BY <2>1 DEF ListTrips
    <2>3. /\ Featured \subseteq {i \in DOMAIN trips : StopsLeft(trips[i]) # {}}
          /\ Featured = {} => \A i \in DOMAIN trips : StopsLeft(trips[i]) = {}
      BY SomeFeatured DEF PlanInv, TypeInv
    <2>4. 0 \notin DOMAIN trips
      BY DEF PlanInv
    <2>5. Left <=> \E i \in DOMAIN trips : StopsLeft(trips[i]) # {}
      BY DEF ToSet, StopsLeft
    <2> HIDE DEF Left
    <2> QED BY <2>2, <2>3, <2>4, <2>5
  <1> QED BY <1>1, TypeInvariant, PTL DEF Spec, HomeNeverBlank

=============================================================================
