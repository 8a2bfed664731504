------------------------- MODULE SignalIngestProofs -------------------------
(***************************************************************************)
(* Proofs about SignalIngest, for every number of signals, instances and   *)
(* faults, and every plan of the trip.                                     *)
(***************************************************************************)
EXTENDS SignalIngest, FiniteSetTheorems, WellFoundedInduction, TLAPS

\* A set of naturals has a least element.
LEMMA Least ==
    ASSUME NEW T \in SUBSET Nat, T # {}
    PROVE  \E m \in T : \A n \in T : m <= n
  <1> DEFINE R == {p \in Nat \X Nat : p[1] < p[2]}
  <1>1. IsWellFoundedOn(R, Nat)
    BY NatLessThanWellFounded DEF OpToRel
  <1>2. PICK m \in T : \A n \in T : <<n, m>> \notin R
    <2> HIDE DEF R
    <2> QED BY <1>1, WFMin
  <1>3. ASSUME NEW n \in T PROVE m <= n
    <2>1. ~ (n < m)
      BY <1>2, n \in Nat, m \in Nat
    <2> QED BY <2>1
  <1> QED BY <1>3

\* A signal of the sequence q that is a visit on the caller's trip.
Visit(q, s) == q[s].type = "visited_confirmed" /\ q[s].trip = "mine"

First(S) == CHOOSE s \in S : \A t \in S : s <= t

\* What holds of a request h when the rows D are stored and q has been emitted:
\* each of its signals is left, rejected or stored.
Sound(h, D, q) ==
    /\ h \in Request /\ Cardinality(h.batch) <= BatchLimit
    /\ h.batch \subseteq DOMAIN q /\ h.left \subseteq h.batch /\ h.rejected \subseteq h.batch
    /\ h.batch \ (h.left \cup h.rejected) \subseteq D
    /\ h.step \in {"idle", "answer"} <=> h.left = {}
    /\ h.step = "observe" => First(h.left) \in D /\ Visit(q, First(h.left))

IngestInv ==
    /\ TypeOK
    /\ \A w \in Workers : Sound(handler[w], stored, said)
    /\ Known \ (pending \cup refused) \subseteq stored

-----------------------------------------------------------------------------
(* Numbers and sequences *)

LEMMA FirstIsIn ==
    ASSUME NEW S \in SUBSET Signals, S # {}
    PROVE  First(S) \in S
  BY Least, S \in SUBSET Nat DEF First, Signals

LEMMA CurrentIsFirst == \A w : Current(w) = First(handler[w].left)
  BY DEF Current, First

LEMMA EmitExtends ==
    ASSUME TypeOK, NEW input \in Inputs, Len(said) < MaxSignals
    PROVE  LET q == Append(said, input) IN
           /\ q \in Seq(Inputs) /\ Len(q) = Len(said) + 1 /\ Len(q) <= MaxSignals
           /\ DOMAIN q = Known \cup {Len(said) + 1} /\ Len(said) + 1 \notin Known
           /\ \A s \in Known : q[s] = said[s]
  BY SignalIngestAssumption DEF TypeOK, Known

LEMMA KnownAreSignals == TypeOK => Known \subseteq Signals /\ IsFiniteSet(Signals)
  <1>1. IsFiniteSet(Signals)
    BY FS_Interval, SignalIngestAssumption DEF Signals
  <1>2. TypeOK => Known \subseteq Signals
    BY SignalIngestAssumption DEF TypeOK, Known, Signals
  <1> QED BY <1>1, <1>2

-----------------------------------------------------------------------------
(* The ways a request changes *)

\* It stays sound as more is stored and emitted.
LEMMA SoundGrows ==
    ASSUME NEW h, NEW D, NEW q, NEW E, NEW r, Sound(h, D, q),
           D \subseteq E, DOMAIN q \subseteq DOMAIN r, \A s \in DOMAIN q : r[s] = q[s]
    PROVE  Sound(h, E, r)
  <1>1. h.step = "observe" => First(h.left) \in h.left
    BY FirstIsIn DEF Sound, Request
  <1> QED BY <1>1 DEF Sound, Visit

LEMMA SoundGoesOn ==
    ASSUME NEW h, NEW D, NEW q, Sound(h, D, q), h.left # {},
           NEW c \in [Keys -> 0 .. Uncounted], NEW step \in Steps \ {"idle", "answer"},
           step = "observe" => First(h.left) \in D /\ Visit(q, First(h.left))
    PROVE  Sound([h EXCEPT !.step = step, !.counted = c], D, q)
  BY DEF Sound, Request

LEMMA SoundStored ==
    ASSUME NEW h, NEW D, NEW q, Sound(h, D, q), h.left # {}, First(h.left) \in D,
           NEW c \in [Keys -> 0 .. Uncounted]
    PROVE  Sound([Done(h, First(h.left)) EXCEPT !.counted = c], D, q)
  BY DEF Sound, Request, Done, AfterOne, Steps

LEMMA SoundRefused ==
    ASSUME NEW h, NEW D, NEW q, Sound(h, D, q), h.left # {},
           NEW c \in [Keys -> 0 .. Uncounted]
    PROVE  Sound([Refused(h, First(h.left)) EXCEPT !.counted = c], D, q)
  <1>1. First(h.left) \in h.left
    BY FirstIsIn DEF Sound, Request
  <1> QED BY <1>1 DEF Sound, Request, Refused, Done, AfterOne, Steps

LEMMA IdleIsSound == \A D, q : Sound(Idle, D, q)
  BY FS_EmptySet, SignalIngestAssumption DEF Sound, Idle, Request, NoCounts, Steps, Uncounted, Plenty

-----------------------------------------------------------------------------
(* The steps of a request *)

\* What a step of a request w makes of it leaves the rest as it was.
LEMMA StepKeeps ==
    ASSUME IngestInv, NEW w \in Workers, NEW h, handler' = [handler EXCEPT ![w] = h],
           said' = said, pending' = pending, refused' = refused, waiting' = waiting,
           stored \subseteq stored', stored' \subseteq Known, Sound(h, stored', said),
           plan' = plan, twice' = twice, outages' \in 0 .. MaxFaults, lost' = lost, replans' = replans
    PROVE  IngestInv'
  <1>1. h \in Request /\ Cardinality(h.batch) <= BatchLimit
    BY DEF Sound
  <1>2. TypeOK'
    BY <1>1 DEF IngestInv, TypeOK, Known
  <1>3. ASSUME NEW v \in Workers PROVE Sound(handler'[v], stored', said')
    <2>1. CASE v = w
      BY <2>1 DEF IngestInv, TypeOK
    <2>2. CASE v # w
      <3>1. handler'[v] = handler[v] /\ Sound(handler[v], stored, said)
        BY <2>2 DEF IngestInv, TypeOK
      <3> QED BY <3>1, SoundGrows
    <2> QED BY <2>1, <2>2
  <1> QED BY <1>2, <1>3 DEF IngestInv, Known

\* What is true of the request at a step of one of its signals.
LEMMA AtStep ==
    ASSUME IngestInv, NEW w \in Workers, NEW step, At(w, step)
    PROVE  /\ handler[w].left # {} /\ handler[w] \in Request /\ Sound(handler[w], stored, said)
           /\ Current(w) = First(handler[w].left) /\ Current(w) \in handler[w].left
           /\ Current(w) \in Known /\ handler[w].counted \in [Keys -> 0 .. Uncounted]
           /\ handler[w].step = step
  BY CurrentIsFirst, FirstIsIn DEF IngestInv, At, Sound, Request, TypeOK, Known

LEMMA RefusingKeeps ==
    ASSUME IngestInv, NEW w \in Workers, NEW step, At(w, step),
           Refuse(w), stored' = stored, outages' \in 0 .. MaxFaults, Ingesting
    PROVE  IngestInv'
  <1> DEFINE s == Current(w)
             h == Refused(handler[w], s)
  <1>1. h = [h EXCEPT !.counted = handler[w].counted]
    BY AtStep DEF Refused, Done, Request
  <1>2. Sound(h, stored, said)
    BY <1>1, AtStep, SoundRefused
  <1>3. handler' = [handler EXCEPT ![w] = h]
    BY DEF Refuse
  <1> HIDE DEF h
  <1> QED BY <1>2, <1>3, StepKeeps DEF Ingesting, client, trip, IngestInv, TypeOK

LEMMA GoingOnKeeps ==
    ASSUME IngestInv, NEW w \in Workers, NEW step, At(w, step), NEW next \in Steps \ {"idle", "answer", "observe"},
           GoTo(w, next), stored' = stored, outages' \in 0 .. MaxFaults, Ingesting
    PROVE  IngestInv'
  <1> DEFINE h == [handler[w] EXCEPT !.step = next]
  <1>1. h = [handler[w] EXCEPT !.step = next, !.counted = handler[w].counted]
    BY AtStep DEF Request
  <1>2. Sound(h, stored, said)
    <2>1. next \in Steps \ {"idle", "answer"} /\ next # "observe"
      OBVIOUS
    <2> HIDE DEF h
    <2> QED BY <1>1, <2>1, AtStep, SoundGoesOn
  <1>3. handler' = [handler EXCEPT ![w] = h]
    BY DEF GoTo, IngestInv, TypeOK
  <1> HIDE DEF h
  <1> QED BY <1>2, <1>3, StepKeeps DEF Ingesting, client, trip, IngestInv, TypeOK

LEMMA LookupKeeps ==
    ASSUME IngestInv, LookupFails
    PROVE  outages' \in 0 .. MaxFaults
  BY SignalIngestAssumption DEF IngestInv, TypeOK, LookupFails, FaultsLeft

LEMMA CountIsBounded ==
    ASSUME IngestInv, NEW k
    PROVE  Count(k) \in 0 .. MaxSignals
  <1> DEFINE C == {s \in stored : Key(s) = k}
  <1>1. C \subseteq 1 .. MaxSignals
    BY KnownAreSignals DEF IngestInv, TypeOK, Signals
  <1>2. IsFiniteSet(1 .. MaxSignals) /\ Cardinality(1 .. MaxSignals) = MaxSignals
    BY FS_Interval, SignalIngestAssumption
  <1>3. Cardinality(C) \in Nat /\ Cardinality(C) <= MaxSignals
    BY <1>1, <1>2, FS_Subset, FS_CardinalityType
  <1> QED BY <1>3, SignalIngestAssumption DEF Count

LEMMA CountsAreTyped ==
    ASSUME IngestInv, NEW w \in Workers, NEW k, handler[w].counted \in [Keys -> 0 .. Uncounted]
    PROVE  /\ [handler[w].counted EXCEPT ![k] = Counted(w, k)] \in [Keys -> 0 .. Uncounted]
           /\ [handler[w].counted EXCEPT ![k] = Plenty] \in [Keys -> 0 .. Uncounted]
  <1>1. k \in Keys => Counted(w, k) \in 0 .. Uncounted /\ Plenty \in 0 .. Uncounted
    BY CountIsBounded, SignalIngestAssumption DEF Counted, Uncounted, Plenty
  <1> QED BY <1>1

LEMMA RatingKeeps ==
    ASSUME IngestInv, NEW w \in Workers, Rate(w) \/ CountUnknown(w)
    PROVE  IngestInv'
  <1> DEFINE s == Current(w)
             c == [handler[w].counted EXCEPT ![Key(s)] = Counted(w, Key(s))]
             d == [handler[w].counted EXCEPT ![Key(s)] = Plenty]
             go == [handler[w] EXCEPT !.step = AfterRate(s), !.counted = c]
             no == [Refused(handler[w], s) EXCEPT !.counted = c]
             out == [Refused(handler[w], s) EXCEPT !.counted = d]
  <1>1. At(w, "count") /\ stored' = stored /\ Ingesting /\ outages' \in 0 .. MaxFaults
    BY LookupKeeps DEF Rate, CountUnknown, IngestInv, TypeOK
  <1>2. /\ handler[w].left # {} /\ handler[w] \in Request /\ Sound(handler[w], stored, said)
        /\ s = First(handler[w].left) /\ handler[w].counted \in [Keys -> 0 .. Uncounted]
    BY <1>1, AtStep
  <1>3. c \in [Keys -> 0 .. Uncounted] /\ d \in [Keys -> 0 .. Uncounted]
    BY <1>2, CountsAreTyped
  <1>4. Sound(no, stored, said) /\ Sound(out, stored, said)
    <2> HIDE DEF c, d
    <2> QED BY <1>2, <1>3, SoundRefused
  <1>5. AfterRate(s) \in Steps \ {"idle", "answer"} /\ AfterRate(s) # "observe"
    BY DEF AfterRate, AfterPlace, Steps
  <1>6. Sound(go, stored, said)
    <2> HIDE DEF c
    <2> QED BY <1>2, <1>3, <1>5, SoundGoesOn
  <1>7. out = [Refused(handler[w], s) EXCEPT !.counted[Key(s)] = Plenty]
    BY <1>2 DEF Refused, Done, Request
  <1>8. \/ handler' = [handler EXCEPT ![w] = go]
        \/ handler' = [handler EXCEPT ![w] = no]
        \/ handler' = [handler EXCEPT ![w] = out]
    <2>1. CASE Rate(w)
      <3> HIDE DEF c
      <3>1. handler' = [handler EXCEPT ![w] = IF Counted(w, Key(s)) >= Cap THEN no ELSE go]
        BY <2>1 DEF Rate, c
      <3> HIDE DEF go, no
      <3> QED BY <3>1
    <2>2. CASE CountUnknown(w)
      <3> HIDE DEF go, no, out, c, d
      <3> QED BY <2>2, <1>7 DEF CountUnknown
    <2> QED BY <2>1, <2>2
  <1>9. ASSUME NEW h, Sound(h, stored, said), handler' = [handler EXCEPT ![w] = h]
        PROVE  IngestInv'
    BY <1>1, <1>9, StepKeeps DEF Ingesting, client, trip, IngestInv, TypeOK
  <1> HIDE DEF go, no, out
  <1> QED BY <1>4, <1>6, <1>8, <1>9

LEMMA AskingKeeps ==
    ASSUME IngestInv, NEW w \in Workers, GetSignal(w)
    PROVE  IngestInv'
  <1>1. PICK step \in {"rate", "place", "gps"}, next \in {"count", "place", "node", "gps", "near", "record"} :
           At(w, step) /\ GoTo(w, next)
    BY DEF GetSignal, AfterRate, AfterPlace
  <1>2. next \in Steps \ {"idle", "answer", "observe"}
    BY DEF Steps
  <1>3. stored' = stored /\ outages' \in 0 .. MaxFaults /\ Ingesting
    BY DEF GetSignal, IngestInv, TypeOK
  <1> QED BY <1>1, <1>2, <1>3, GoingOnKeeps

LEMMA RecordingKeeps ==
    ASSUME IngestInv, NEW w \in Workers, Record(w)
    PROVE  IngestInv'
  <1> DEFINE s == Current(w)
             new == s \notin stored
             h == IF new THEN CountUp(handler[w], s) ELSE handler[w]
  <1>1. At(w, "record") /\ stored' = stored \cup {s} /\ Ingesting /\ outages' = outages
    BY DEF Record, WithSignal
  <1>2. /\ handler[w].left # {} /\ handler[w] \in Request /\ Sound(handler[w], stored, said)
        /\ s = First(handler[w].left) /\ s \in Known /\ handler[w].counted \in [Keys -> 0 .. Uncounted]
    BY <1>1, AtStep
  <1>3. Sound(handler[w], stored', said)
    BY <1>1, <1>2, SoundGrows
  <1>4. PICK c \in [Keys -> 0 .. Uncounted] : h = [handler[w] EXCEPT !.counted = c]
    <2> DEFINE up == [handler[w].counted EXCEPT ![Key(s)] = @ + 1]
    <2>1. CASE h = handler[w]
      BY <1>2, <2>1 DEF Request
    <2>2. CASE Corpus(s) /\ handler[w].counted[Key(s)] < Cap /\ h = [handler[w] EXCEPT !.counted[Key(s)] = @ + 1]
      <3>1. Key(s) \in Keys => handler[w].counted[Key(s)] + 1 \in 0 .. Uncounted
        <4>1. Uncounted = MaxSignals + Cap + 1 /\ MaxSignals \in Nat /\ Cap \in Nat
          BY SignalIngestAssumption DEF Uncounted, Plenty
        <4>2. Key(s) \in Keys => handler[w].counted[Key(s)] \in 0 .. Uncounted
          BY <1>2
        <4> QED BY <4>1, <4>2, <2>2
      <3>2. up \in [Keys -> 0 .. Uncounted]
        BY <1>2, <3>1
      <3>3. h = [handler[w] EXCEPT !.counted = up]
        BY <1>2, <2>2 DEF Request
      <3> QED BY <3>2, <3>3
    <2> QED BY <2>1, <2>2 DEF CountUp
  <1>5. /\ Sound([handler[w] EXCEPT !.step = "observe", !.counted = c], stored', said) \/ ~Observable(s)
        /\ Sound([Done(handler[w], s) EXCEPT !.counted = c], stored', said)
    <2>1. s \in stored'
      BY <1>1
    <2>2. Sound([Done(handler[w], s) EXCEPT !.counted = c], stored', said)
      BY <1>2, <1>3, <2>1, SoundStored
    <2>3. CASE Observable(s)
      <3>1. Visit(said, s) /\ "observe" \in Steps \ {"idle", "answer"}
        BY <2>3 DEF Observable, Visit, Steps
      <3> QED BY <1>2, <1>3, <2>1, <2>2, <3>1, SoundGoesOn
    <2> QED BY <2>2, <2>3
  <1>6. [h EXCEPT !.step = "observe"] = [handler[w] EXCEPT !.step = "observe", !.counted = c]
        /\ Done(h, s) = [Done(handler[w], s) EXCEPT !.counted = c]
    BY <1>2, <1>4 DEF Done, Request
  <1>7. handler' = [handler EXCEPT ![w] = IF new /\ Observable(s) THEN [h EXCEPT !.step = "observe"] ELSE Done(h, s)]
    BY DEF Record
  <1>8. ASSUME NEW g, Sound(g, stored', said), handler' = [handler EXCEPT ![w] = g]
        PROVE  IngestInv'
    <2>1. stored' \subseteq Known
      BY <1>1, <1>2 DEF IngestInv, TypeOK
    <2> QED BY <1>1, <1>8, <2>1, StepKeeps DEF Ingesting, client, trip, IngestInv, TypeOK
  <1> HIDE DEF h
  <1> QED BY <1>5, <1>6, <1>7, <1>8

LEMMA ObservingKeeps ==
    ASSUME IngestInv, NEW w \in Workers, Observe(w) \/ ObserveFails(w)
    PROVE  IngestInv'
  <1> DEFINE s == Current(w)
             h == Done(handler[w], s)
  <1>1. /\ At(w, "observe") /\ stored' = stored /\ outages' \in 0 .. MaxFaults
        /\ UNCHANGED <<client, plan, twice, lost, replans>>
        /\ handler' = [handler EXCEPT ![w] = h]
    BY LookupKeeps DEF Observe, ObserveFails, Ingesting, trip, IngestInv, TypeOK
  <1>2. /\ handler[w].left # {} /\ handler[w] \in Request /\ Sound(handler[w], stored, said)
        /\ s = First(handler[w].left) /\ handler[w].step = "observe"
        /\ handler[w].counted \in [Keys -> 0 .. Uncounted]
    BY <1>1, AtStep
  <1>3. s \in stored
    BY <1>2 DEF Sound
  <1>4. h = [h EXCEPT !.counted = handler[w].counted]
    BY <1>2 DEF Done, Request
  <1> HIDE DEF h
  <1>5. Sound(h, stored, said)
    BY <1>2, <1>3, <1>4, SoundStored DEF h
  <1> QED BY <1>1, <1>5, StepKeeps DEF client, IngestInv, TypeOK

-----------------------------------------------------------------------------
(* The invariant *)

\* Nothing has been sent.
THEOREM IngestInit == Init => IngestInv
  <1> SUFFICES ASSUME Init PROVE IngestInv
    OBVIOUS
  <1>1. \A w \in Workers : Sound(handler[w], stored, said) /\ handler[w] \in Request
    BY IdleIsSound DEF Init, Sound
  <1>2. Cardinality({}) = 0 /\ said \in Seq(Inputs) /\ Known = {}
    BY FS_EmptySet DEF Init, Known
  <1>3. TypeOK
    BY <1>1, <1>2, SignalIngestAssumption DEF Init, TypeOK, Sound
  <1> QED BY <1>1, <1>2, <1>3 DEF IngestInv

\* No step of the device, of an instance or of the trip loses a signal.
THEOREM IngestStep == IngestInv /\ [Next]_vars => IngestInv'
  <1> SUFFICES ASSUME IngestInv, [Next]_vars PROVE IngestInv'
    OBVIOUS
  <1>1. ASSUME NEW input \in Inputs, Emit(input) PROVE IngestInv'
    <2>1. /\ said' \in Seq(Inputs) /\ Len(said') <= MaxSignals
          /\ Known' = Known \cup {Len(said) + 1} /\ \A s \in Known : said'[s] = said[s]
      BY <1>1, EmitExtends DEF Emit, IngestInv, Known
    <2>2. ASSUME NEW w \in Workers PROVE Sound(handler[w], stored, said')
      BY <2>1, SoundGrows DEF IngestInv, Known
    <2>3. TypeOK'
      BY <1>1, <2>1 DEF Emit, trip, IngestInv, TypeOK
    <2> QED BY <1>1, <2>1, <2>2, <2>3 DEF Emit, IngestInv
  <1>2. ASSUME NEW w \in Workers, Send(w) PROVE IngestInv'
    <2>1. PICK B \in SUBSET pending :
             /\ Sendable(B)
             /\ handler' = [handler EXCEPT ![w] = [Idle EXCEPT !.step = "check", !.batch = B, !.left = B]]
      BY <1>2 DEF Send
    <2> DEFINE h == [Idle EXCEPT !.step = "check", !.batch = B, !.left = B]
    <2>2. B \in SUBSET Signals /\ B \subseteq Known /\ B # {} /\ Cardinality(B) <= BatchLimit
      BY <2>1, KnownAreSignals DEF Sendable, IngestInv, TypeOK
    <2>3. NoCounts \in [Keys -> 0 .. Uncounted]
      BY SignalIngestAssumption DEF NoCounts, Uncounted, Plenty
    <2>4. Idle \in Request /\ Idle.rejected = {}
      BY <2>3 DEF Idle, Request, Steps
    <2>5. Sound(h, stored, said)
      <3>1. h \in Request /\ h.step = "check" /\ h.batch = B /\ h.left = B /\ h.rejected = {}
        BY <2>2, <2>4 DEF Request, Steps
      <3> HIDE DEF h
      <3> QED BY <2>2, <3>1 DEF Sound, Known
    <2> HIDE DEF h
    <2>6. \A v \in Workers : Sound(handler'[v], stored, said)
      BY <2>1, <2>5 DEF IngestInv, TypeOK, h
    <2>7. TypeOK'
      BY <1>2, <2>1, <2>6 DEF Send, trip, IngestInv, TypeOK, Known, Sound
    <2> QED BY <1>2, <2>6, <2>7 DEF Send, IngestInv, Known
  <1>3. CASE GiveUpWaiting
    BY <1>3, SignalIngestAssumption DEF GiveUpWaiting, FaultsLeft, trip, IngestInv, TypeOK, Known
  <1>4. ASSUME NEW p \in Plans, Replan(p) PROVE IngestInv'
    BY <1>4, SignalIngestAssumption DEF Replan, client, IngestInv, TypeOK, Known
  <1>5. ASSUME NEW w \in Workers, Ingest(w) PROVE IngestInv'
    <2>1. CASE Check(w)
      <3>1. AfterCheck(Current(w)) \in Steps \ {"idle", "answer", "observe"}
        BY DEF AfterCheck, AfterRate, AfterPlace, Steps
      <3>2. outages' \in 0 .. MaxFaults
        BY <2>1 DEF Check, IngestInv, TypeOK
      <3> QED BY <2>1, <3>1, <3>2, RefusingKeeps, GoingOnKeeps DEF Check
    <2>2. CASE OwnerUnknown(w)
      BY <2>2, RefusingKeeps, LookupKeeps DEF OwnerUnknown
    <2>3. CASE GetSignal(w) \/ Rate(w) \/ CountUnknown(w)
      BY <2>3, AskingKeeps, RatingKeeps
    <2>4. CASE Place(w)
      <3>1. AfterPlace(Current(w)) \in Steps \ {"idle", "answer", "observe"} /\ outages' \in 0 .. MaxFaults
        BY <2>4 DEF AfterPlace, Steps, Place, IngestInv, TypeOK
      <3> QED BY <2>4, <3>1, RefusingKeeps, GoingOnKeeps DEF Place
    <2>5. CASE PlaceUnknown(w)
      BY <2>5, RefusingKeeps, LookupKeeps DEF PlaceUnknown
    <2>6. CASE Gps(w) \/ DistanceUnknown(w)
      <3>1. "record" \in Steps \ {"idle", "answer", "observe"} /\ outages' \in 0 .. MaxFaults
        BY <2>6, LookupKeeps DEF Steps, Gps, DistanceUnknown, IngestInv, TypeOK
      <3> QED BY <2>6, <3>1, RefusingKeeps, GoingOnKeeps DEF Gps, DistanceUnknown
    <2>7. CASE Record(w)
      BY <2>7, RecordingKeeps
    <2>8. CASE Observe(w) \/ ObserveFails(w)
      BY <2>8, ObservingKeeps
    <2>9. CASE Answer(w)
      <3>1. handler' = [handler EXCEPT ![w] = Idle] /\ stored' = stored /\ said' = said
        BY <2>9 DEF Answer
      <3>2. \A v \in Workers : Sound(handler'[v], stored, said)
        BY <3>1, IdleIsSound DEF IngestInv, TypeOK
      <3>3. handler[w].batch \ handler[w].rejected \subseteq stored /\ handler[w].rejected \subseteq Known
        BY <2>9 DEF Answer, IngestInv, Sound, Known
      <3>4. TypeOK'
        BY <2>9, <3>1, <3>2, <3>3 DEF Answer, trip, IngestInv, TypeOK, Known, Sound
      <3>5. Known \ (pending' \cup refused') \subseteq stored
        BY <2>9, <3>3 DEF Answer, IngestInv
      <3> QED BY <3>1, <3>2, <3>4, <3>5 DEF IngestInv, Known
    <2>10. CASE Abort(w)
      <3>1. handler' = [handler EXCEPT ![w] = Idle] /\ UNCHANGED <<said, pending, refused, stored>>
        BY <2>10 DEF Abort
      <3>2. \A v \in Workers : Sound(handler'[v], stored, said)
        BY <3>1, IdleIsSound DEF IngestInv, TypeOK
      <3>3. TypeOK'
        BY <2>10, <3>1, <3>2, SignalIngestAssumption DEF Abort, FaultsLeft, trip, IngestInv, TypeOK, Known, Sound
      <3> QED BY <3>1, <3>2, <3>3 DEF IngestInv, Known
    <2> QED BY <1>5, <2>1, <2>2, <2>3, <2>4, <2>5, <2>6, <2>7, <2>8, <2>9, <2>10 DEF Ingest
  <1>6. CASE UNCHANGED vars
    BY <1>6 DEF vars, client, trip, IngestInv, TypeOK, Known
  <1> QED BY <1>1, <1>2, <1>3, <1>4, <1>5, <1>6 DEF Next

LEMMA Invariance == Spec => []IngestInv
  BY IngestInit, IngestStep, PTL DEF Spec

(* Every variable keeps its type; a request never holds more signals than  *)
(* SignalBatchRequest admits.                                              *)
THEOREM TypeInvariant == Spec => []TypeOK
  BY Invariance, PTL DEF IngestInv

(* Every item of a batch is stored or named in rejected[], and the device  *)
(* lets a row go only if the server has it or has refused it by name       *)
(* (signal_router.py, the loop of ingest_signals).                         *)
THEOREM NothingLost == Spec => []AcknowledgedIsStored
  <1>1. IngestInv => AcknowledgedIsStored
    <2> SUFFICES ASSUME IngestInv PROVE AcknowledgedIsStored
      OBVIOUS
    <2>1. ASSUME NEW w \in Workers
          PROVE  LET h == handler[w] IN
                 /\ h.left \subseteq h.batch /\ h.rejected \subseteq h.batch
                 /\ h.batch \ (h.left \cup h.rejected) \subseteq stored
                 /\ h.step = "observe" => Current(w) \in stored
                 /\ h.step \in {"idle", "answer"} <=> h.left = {}
      BY CurrentIsFirst DEF IngestInv, Sound
    <2> QED BY <2>1 DEF AcknowledgedIsStored, NothingSlipsBy, IngestInv
  <1> QED BY <1>1, Invariance, PTL

-----------------------------------------------------------------------------
(* The refinement *)

(* The device and the server together keep the custody that SignalCustody  *)
(* promises: emits accept, inserts store, answers release what is stored.  *)
THEOREM Refinement == Spec => ImplementsCustody
  <1>1. Init => Custody!Init
    BY DEF Init, Custody!Init, Known
  <1>2. IngestInv /\ [Next]_vars => [Custody!Next]_Custody!vars
    <2> SUFFICES ASSUME IngestInv, [Next]_vars PROVE [Custody!Next]_Custody!vars
      OBVIOUS
    <2>1. ASSUME NEW input \in Inputs, Emit(input) PROVE Custody!Next
      <3> DEFINE n == Len(said) + 1
      <3>1. Known' = Known \cup {n} /\ n \notin Known
        BY <2>1, EmitExtends DEF Emit, IngestInv, Known
      <3>2. n \in Signals
        BY <2>1, SignalIngestAssumption, Len(said) \in Nat DEF Emit, IngestInv, TypeOK, Signals
      <3>3. Custody!Accept(n)
        BY <2>1, <3>1 DEF Emit, Custody!Accept
      <3> QED BY <3>2, <3>3 DEF Custody!Next
    <2>2. ASSUME NEW w \in Workers, Record(w) PROVE Custody!Next
      <3>1. At(w, "record")
        BY <2>2 DEF Record
      <3>2. Current(w) \in Known /\ Current(w) \in Signals
        BY <3>1, AtStep, KnownAreSignals DEF IngestInv
      <3>3. Custody!Store({Current(w)})
        BY <2>2, <3>2 DEF Record, WithSignal, Ingesting, client, Known, Custody!Store
      <3> QED BY <3>2, <3>3 DEF Custody!Next
    <2>3. ASSUME NEW w \in Workers, Answer(w) PROVE Custody!Next
      <3> DEFINE S == (pending \cup refused) \ (pending' \cup refused')
      <3>1. handler[w].batch \ handler[w].rejected \subseteq stored
        BY <2>3 DEF Answer, IngestInv, Sound
      <3>2. S \subseteq stored
        BY <2>3, <3>1 DEF Answer
      <3>3. pending' \cup refused' = (pending \cup refused) \ S
        BY <2>3 DEF Answer
      <3>4. S \in SUBSET Signals
        BY KnownAreSignals DEF IngestInv, TypeOK
      <3> HIDE DEF S
      <3>5. Custody!Release(S)
        BY <2>3, <3>2, <3>3 DEF Answer, Known, Custody!Release
      <3> QED BY <3>4, <3>5 DEF Custody!Next
    <2>4. CASE UNCHANGED <<said, pending, refused, stored>>
      BY <2>4 DEF Custody!vars, Known
    <2>5. ASSUME NEW w \in Workers, Ingest(w), ~Record(w), ~Answer(w)
          PROVE  UNCHANGED <<said, pending, refused, stored>>
      BY <2>5 DEF Ingest, Check, OwnerUnknown, GetSignal, Rate, CountUnknown, Place, PlaceUnknown, Gps,
                  DistanceUnknown, Observe, ObserveFails, Abort, Ingesting, client
    <2> QED BY <2>1, <2>2, <2>3, <2>4, <2>5 DEF Next, Send, GiveUpWaiting, Replan, client, vars
  <1> QED BY <1>1, <1>2, Invariance, PTL DEF Spec, ImplementsCustody, Custody!Spec

-----------------------------------------------------------------------------
(* The spans *)

\* Rows, and what signals said, are never taken back.
LEMMA PastStays ==
    ASSUME IngestInv, [Next]_vars
    PROVE  stored \subseteq stored' /\ Known \subseteq Known' /\ \A s \in Known : said'[s] = said[s]
  <1>1. ASSUME NEW input \in Inputs, Emit(input)
        PROVE  stored \subseteq stored' /\ Known \subseteq Known' /\ \A s \in Known : said'[s] = said[s]
    BY <1>1, EmitExtends DEF Emit, IngestInv, Known
  <1>2. ASSUME NEW w \in Workers, Ingest(w) \/ Send(w)
        PROVE  stored \subseteq stored' /\ said' = said
    BY <1>2 DEF Ingest, Check, OwnerUnknown, GetSignal, Rate, CountUnknown, Place, PlaceUnknown, Gps, DistanceUnknown,
                Record, WithSignal, Observe, ObserveFails, Answer, Abort, Ingesting, client, Send
  <1>3. ASSUME GiveUpWaiting \/ UNCHANGED vars \/ \E p \in Plans : Replan(p)
        PROVE  stored \subseteq stored' /\ said' = said
    BY <1>3 DEF GiveUpWaiting, Replan, client, vars
  <1> QED BY <1>1, <1>2, <1>3 DEF Next, Known

\* A span stays real as long as the plan is the same.
LEMMA SpansStay ==
    ASSUME IngestInv, SpansAreReal, [Next]_vars, UNCHANGED <<plan, spans>>
    PROVE  SpansAreReal'
  <1>1. stored \subseteq stored' /\ \A s \in stored : said'[s] = said[s]
    BY PastStays DEF IngestInv, TypeOK
  <1> QED BY <1>1 DEF SpansAreReal, Observable, Bears, Adjacent, SameEdge

LEMMA SpanIsBetweenVisits ==
    ASSUME NEW s, NEW e \in NewSpans(s)
    PROVE  \E p \in Into(s) : \E v \in LastVisit(plan[p].place, s) :
              e = [from |-> plan[p].id, to |-> plan[p + 1].id, since |-> v, until |-> s]
  BY DEF NewSpans

LEMMA ObserveIsReal ==
    ASSUME IngestInv, SpansAreReal, NEW w \in Workers, Observe(w)
    PROVE  SpansAreReal'
  <1> DEFINE s == Current(w)
  <1>1. At(w, "observe") /\ UNCHANGED <<plan, stored, said>>
        /\ spans' = {e \in spans : \A f \in NewSpans(s) : ~SameEdge(e, f)} \cup NewSpans(s)
    BY DEF Observe, client
  <1>2. s \in stored /\ Observable(s)
    BY <1>1, AtStep DEF Sound, Visit, Observable
  <1>3. plan \in Plans /\ plan \in Seq([id : Nat, place : STRING, at : Nat])
    BY SignalIngestAssumption DEF IngestInv, TypeOK
  <1>4. ASSUME NEW e \in NewSpans(s)
        PROVE  /\ {e.since, e.until} \subseteq stored /\ e.since < e.until
               /\ Observable(e.since) /\ Observable(e.until)
               /\ Bears(e.from, said[e.since].place) /\ Bears(e.to, said[e.until].place)
               /\ Adjacent(plan, e)
    <2>1. PICK p \in Into(s) : \E v \in LastVisit(plan[p].place, s) :
             e = [from |-> plan[p].id, to |-> plan[p + 1].id, since |-> v, until |-> s]
      BY SpanIsBetweenVisits
    <2>10. PICK v \in LastVisit(plan[p].place, s) :
             e = [from |-> plan[p].id, to |-> plan[p + 1].id, since |-> v, until |-> s]
      BY <2>1
    <2>2. p \in DOMAIN plan /\ p + 1 \in DOMAIN plan /\ plan[p + 1].place = said[s].place
      BY <2>10 DEF Into, IsTarget
    <2>3. v \in stored /\ v < s /\ Observable(v) /\ said[v].place = plan[p].place
      BY <2>10 DEF LastVisit, VisitsAt
    <2>4. p \in 1 .. Len(plan) - 1
      BY <2>2, <1>3
    <2> QED BY <1>2, <1>3, <2>10, <2>2, <2>3, <2>4 DEF Bears, Adjacent
  <1>5. ASSUME NEW e \in NewSpans(s), NEW f \in NewSpans(s) PROVE e = f
    <2>1. PICK p \in Into(s) : \E v \in LastVisit(plan[p].place, s) :
             e = [from |-> plan[p].id, to |-> plan[p + 1].id, since |-> v, until |-> s]
      BY SpanIsBetweenVisits
    <2>2. PICK q \in Into(s) : \E u \in LastVisit(plan[q].place, s) :
             f = [from |-> plan[q].id, to |-> plan[q + 1].id, since |-> u, until |-> s]
      BY SpanIsBetweenVisits
    <2>10. PICK v \in LastVisit(plan[p].place, s) :
             e = [from |-> plan[p].id, to |-> plan[p + 1].id, since |-> v, until |-> s]
      BY <2>1
    <2>11. PICK u \in LastVisit(plan[q].place, s) :
             f = [from |-> plan[q].id, to |-> plan[q + 1].id, since |-> u, until |-> s]
      BY <2>2
    <2>3. p \in Nat /\ q \in Nat /\ p + 1 \in DOMAIN plan /\ q + 1 \in DOMAIN plan /\ DOMAIN plan = 1 .. Len(plan)
      BY <2>1, <2>10, <2>11, <2>2, <1>3 DEF Into
    <2>4. p = q
      <3>1. IsTarget(p + 1, said[s].place) /\ IsTarget(q + 1, said[s].place)
        BY <2>1, <2>10, <2>11, <2>2 DEF Into
      <3>2. ~(p < q) /\ ~(q < p)
        BY <2>3, <3>1 DEF IsTarget
      <3> QED BY <2>3, <3>2
    <2>5. u = v
      <3>1. u \in Nat /\ v \in Nat
        BY <2>1, <2>10, <2>11, <2>2, KnownAreSignals DEF LastVisit, VisitsAt, IngestInv, TypeOK, Signals
      <3>2. u <= v /\ v <= u
        BY <2>1, <2>10, <2>11, <2>2, <2>4 DEF LastVisit
      <3> QED BY <3>1, <3>2
    <2> QED BY <2>1, <2>10, <2>11, <2>2, <2>4, <2>5
  <1>6. ASSUME NEW e \in spans', NEW f \in spans', SameEdge(e, f) PROVE e = f
    <2>1. SameEdge(f, e)
      BY <1>6 DEF SameEdge
    <2> QED BY <1>1, <1>5, <1>6, <2>1 DEF SpansAreReal
  <1> HIDE DEF s
  <1>7. ASSUME NEW e \in spans'
        PROVE  /\ {e.since, e.until} \subseteq stored /\ e.since < e.until
               /\ Observable(e.since) /\ Observable(e.until)
               /\ Bears(e.from, said[e.since].place) /\ Bears(e.to, said[e.until].place)
               /\ Adjacent(plan, e)
    BY <1>1, <1>4 DEF SpansAreReal
  <1>8. ASSUME NEW e \in spans'
        PROVE  /\ {e.since, e.until} \subseteq stored' /\ e.since < e.until
               /\ Observable(e.since)' /\ Observable(e.until)'
               /\ Bears(e.from, said'[e.since].place) /\ Bears(e.to, said'[e.until].place)
               /\ Adjacent(plan', e)
    BY <1>1, <1>7 DEF Observable
  <1> QED BY <1>6, <1>8 DEF SpansAreReal

(* Whatever order visits arrive in and however the trip is edited between, *)
(* a duration on an edge is the time between two stored visits, in order,  *)
(* of its two places (observed_duration_service.py).                       *)
THEOREM RealSpans == Spec => []SpansAreReal
  <1>1. Init => SpansAreReal
    BY DEF Init, SpansAreReal
  <1>2. IngestInv /\ SpansAreReal /\ [Next]_vars => SpansAreReal'
    <2> SUFFICES ASSUME IngestInv, SpansAreReal, [Next]_vars PROVE SpansAreReal'
      OBVIOUS
    <2>1. ASSUME NEW w \in Workers, Observe(w) PROVE SpansAreReal'
      BY <2>1, ObserveIsReal
    <2>2. ASSUME NEW p \in Plans, Replan(p) PROVE SpansAreReal'
      BY <2>2 DEF Replan, client, SpansAreReal, Observable, Bears, SameEdge
    <2>3. CASE UNCHANGED <<plan, spans>>
      BY <2>3, SpansStay
    <2>4. ASSUME NEW w \in Workers, Ingest(w), ~Observe(w) PROVE UNCHANGED <<plan, spans>>
      BY <2>4 DEF Ingest, Check, OwnerUnknown, GetSignal, Rate, CountUnknown, Place, PlaceUnknown, Gps,
                  DistanceUnknown, Record, ObserveFails, Answer, Abort, Ingesting, trip
    <2> QED BY <2>1, <2>2, <2>3, <2>4 DEF Next, Emit, Send, GiveUpWaiting, trip, vars
  <1> QED BY <1>1, <1>2, Invariance, PTL DEF Spec

-----------------------------------------------------------------------------
(* The causes of a refusal *)

\* A row that two requests hold has been noted, and so has one that came in
\* between a retry's get_signal and its count.
NotedTwice == \A v, w \in Workers : v # w => handler[v].batch \cap handler[w].batch \subseteq twice
NotedLate(w) == handler[w].step = "count" /\ Current(w) \in stored => Current(w) \in twice

TwiceInv == NotedTwice /\ \A w \in Workers : NotedLate(w)

\* As long as no lookup has failed and the trip is as it was: what a request has
\* rejected has its cause, and it never counts more rows than there are.
Caused(s) == Hopeless(s) \/ s \in stored \cap twice

Justified(w) ==
    /\ \A s \in handler[w].rejected : Caused(s)
    /\ \A k \in Keys : handler[w].counted[k] = Uncounted \/ handler[w].counted[k] <= Count(k)
    /\ handler[w].step \in {"rate", "count"} => Corpus(Current(w))
    /\ handler[w].step \in {"place", "node"} =>
          said[Current(w)].trip = "mine" /\ said[Current(w)].type # "session_start"

CauseInv ==
    outages = 0 /\ replans = 0 =>
        (\A s \in refused : Caused(s)) /\ \A w \in Workers : Justified(w)

\* What a step may do to the past and the plan without touching a cause.
Onward ==
    /\ stored \subseteq stored' /\ \A s \in Known : said'[s] = said[s]
    /\ plan' = plan /\ twice \subseteq twice'

LEMMA RowsAreFinite == IngestInv => IsFiniteSet(stored) /\ stored \subseteq Known
  BY KnownAreSignals, FS_Subset DEF IngestInv, TypeOK

LEMMA CountGrows ==
    ASSUME IngestInv, IngestInv', Onward, NEW k
    PROVE  /\ Count(k) <= Count(k)' /\ Count(k) \in Nat /\ Count(k)' \in Nat
           /\ (\E s \in stored' \ stored : Key(s)' = k) => Count(k) + 1 <= Count(k)'
  <1> DEFINE C == {s \in stored : Key(s) = k}
             D == {s \in stored' : Key(s)' = k}
  <1>1. IsFiniteSet(stored) /\ stored \subseteq Known
    BY RowsAreFinite
  <1>2. IsFiniteSet(stored')
    <2>1. (IngestInv => IsFiniteSet(stored))'
      BY RowsAreFinite, PTL
    <2> QED BY <2>1
  <1>3. C \subseteq D /\ C \subseteq stored /\ D \subseteq stored'
    BY <1>1 DEF Onward, Key
  <1>4. IsFiniteSet(C) /\ IsFiniteSet(D)
    BY <1>1, <1>2, <1>3, FS_Subset
  <1>5. Cardinality(C) <= Cardinality(D) /\ Cardinality(C) \in Nat /\ Cardinality(D) \in Nat
    BY <1>3, <1>4, FS_Subset, FS_CardinalityType
  <1>6. ASSUME NEW s \in stored' \ stored, Key(s)' = k PROVE Cardinality(C) + 1 <= Cardinality(D)
    <2>1. s \in D /\ s \notin C
      BY <1>6
    <2>2. Cardinality(C) # Cardinality(D)
      BY <1>3, <1>4, <2>1, FS_Subset
    <2> QED BY <1>5, <2>2
  <1>7. Count(k) = Cardinality(C) /\ Count(k)' = Cardinality(D)
    BY DEF Count
  <1> QED BY <1>5, <1>6, <1>7

LEMMA CorpusIsByKey ==
    ASSUME NEW s
    PROVE  Alike(s) = {t \in stored : Key(t) = Key(s)} /\ Cardinality(Alike(s)) = Count(Key(s))
  <1>1. Alike(s) = {t \in stored : Key(t) = Key(s)}
    BY DEF Alike, Key
  <1> QED BY <1>1 DEF Count

LEMMA TwiceGrows == [Next]_vars => twice \subseteq twice'
  <1>1. ASSUME NEW w \in Workers, Ingest(w) \/ Send(w) PROVE twice \subseteq twice'
    BY <1>1 DEF Ingest, Check, OwnerUnknown, GetSignal, Rate, CountUnknown, Place, PlaceUnknown, Gps, DistanceUnknown,
                Record, Observe, ObserveFails, Answer, Abort, Ingesting, Send
  <1> QED BY <1>1 DEF Next, Emit, GiveUpWaiting, Replan, vars

\* What a step makes of the request it is about.
LEMMA RequestGoesOn ==
    ASSUME IngestInv, NEW w \in Workers, Ingest(w)
    PROVE  /\ \A v \in Workers \ {w} : handler'[v] = handler[v]
           /\ handler'[w].batch \subseteq handler[w].batch
           /\ \/ handler'[w].step # "count"
              \/ /\ handler'[w].left = handler[w].left
                 /\ Current(w) \notin stored /\ stored' = stored
  <1>1. handler \in [Workers -> Request] /\ handler[w] \in Request
    BY DEF IngestInv, TypeOK
  <1>2. /\ Done(handler[w], Current(w)).batch = handler[w].batch
        /\ Done(handler[w], Current(w)).step # "count"
        /\ Refused(handler[w], Current(w)).batch = handler[w].batch
        /\ Refused(handler[w], Current(w)).step # "count"
    BY <1>1 DEF Done, Refused, Request, AfterOne
  <1>3. \A h \in Request : \A c : [h EXCEPT !.counted = c].batch = h.batch /\ [h EXCEPT !.counted = c].step = h.step
    BY DEF Request
  <1>4. AfterRate(Current(w)) # "count" /\ AfterPlace(Current(w)) # "count" /\ AfterCheck(Current(w)) # "count"
    BY DEF AfterRate, AfterPlace, AfterCheck
  <1>5. CASE Check(w) \/ OwnerUnknown(w) \/ Place(w) \/ PlaceUnknown(w) \/ Gps(w) \/ DistanceUnknown(w)
    <2>1. Refuse(w) \/ \E next : next # "count" /\ GoTo(w, next)
      BY <1>4, <1>5 DEF Check, OwnerUnknown, Place, PlaceUnknown, Gps, DistanceUnknown
    <2> QED BY <1>1, <1>2, <2>1 DEF Refuse, GoTo, Request
  <1>6. CASE GetSignal(w)
    <2>1. PICK next : GoTo(w, next) /\ (next # "count" \/ Current(w) \notin stored)
      BY <1>4, <1>6 DEF GetSignal, Resent
    <2>2. stored' = stored
      BY <1>6 DEF GetSignal
    <2> QED BY <1>1, <2>1, <2>2 DEF GoTo, Request
  <1>7. CASE Rate(w) \/ CountUnknown(w)
    <2>1. PICK h, c : /\ handler' = [handler EXCEPT ![w] = [h EXCEPT !.counted = c]]
                      /\ h = Refused(handler[w], Current(w)) \/ h = [handler[w] EXCEPT !.step = AfterRate(Current(w))]
      <3>1. CASE Rate(w)
        <4> DEFINE c == [handler[w].counted EXCEPT ![Key(Current(w))] = Counted(w, Key(Current(w)))]
        <4>1. handler' = [handler EXCEPT ![w] =
                 IF Counted(w, Key(Current(w))) >= Cap THEN [Refused(@, Current(w)) EXCEPT !.counted = c]
                 ELSE [@ EXCEPT !.step = AfterRate(Current(w)), !.counted = c]]
          BY <3>1 DEF Rate
        <4> HIDE DEF c
        <4> QED BY <4>1
      <3>2. CASE CountUnknown(w)
        BY <3>2 DEF CountUnknown
      <3> QED BY <1>7, <3>1, <3>2
    <2> QED BY <1>1, <1>2, <1>4, <2>1 DEF Request
  <1>8. CASE Record(w)
    <2> DEFINE s == Current(w)
               h == IF s \notin stored THEN CountUp(handler[w], s) ELSE handler[w]
    <2>1. handler' = [handler EXCEPT ![w] =
             IF s \notin stored /\ Observable(s) THEN [h EXCEPT !.step = "observe"] ELSE Done(h, s)]
      BY <1>8 DEF Record
    <2>2. PICK c : h = [handler[w] EXCEPT !.counted = c]
      BY <1>1 DEF CountUp, Request
    <2> HIDE DEF h
    <2>3. handler'[w] \in {[h EXCEPT !.step = "observe"], Done(h, s)}
          /\ \A v \in Workers \ {w} : handler'[v] = handler[v]
      BY <1>1, <2>1
    <2> QED BY <1>1, <2>2, <2>3 DEF Done, AfterOne, Request
  <1>9. CASE Observe(w) \/ ObserveFails(w)
    <2>1. handler' = [handler EXCEPT ![w] = Done(handler[w], Current(w))]
      BY <1>9 DEF Observe, ObserveFails
    <2> QED BY <1>1, <1>2, <2>1
  <1>10. CASE Answer(w) \/ Abort(w)
    <2>1. handler' = [handler EXCEPT ![w] = Idle]
      BY <1>10 DEF Answer, Abort
    <2> QED BY <1>1, <2>1 DEF Idle
  <1> QED BY <1>5, <1>6, <1>7, <1>8, <1>9, <1>10 DEF Ingest

\* Only an insert adds a row: one of its own request.
LEMMA OnlyRecordStores ==
    ASSUME IngestInv, [Next]_vars, NEW s, s \in stored' \ stored
    PROVE  \E w \in Workers : Record(w) /\ s = Current(w) /\ s \in handler[w].batch
  <1>1. PICK w \in Workers : Record(w)
    <2>1. ASSUME NEW w \in Workers, Ingest(w) \/ Send(w), ~Record(w) PROVE stored' = stored
      BY <2>1 DEF Ingest, Check, OwnerUnknown, GetSignal, Rate, CountUnknown, Place, PlaceUnknown, Gps, DistanceUnknown,
                  Observe, ObserveFails, Answer, Abort, Ingesting, client, Send
    <2> QED BY <2>1 DEF Next, Emit, GiveUpWaiting, Replan, vars
  <1>2. At(w, "record") /\ stored' = stored \cup {Current(w)}
    BY <1>1 DEF Record, WithSignal
  <1>3. Current(w) \in handler[w].batch
    BY <1>2, AtStep DEF Sound
  <1> QED BY <1>1, <1>2, <1>3

LEMMA TwiceStep == IngestInv /\ IngestInv' /\ TwiceInv /\ [Next]_vars => TwiceInv'
  <1> SUFFICES ASSUME IngestInv, IngestInv', TwiceInv, [Next]_vars PROVE TwiceInv'
    OBVIOUS
  <1>1. twice \subseteq twice' /\ handler \in [Workers -> Request]
    BY TwiceGrows DEF IngestInv, TypeOK
  \* A request whose signal waits for its count, and another that stores it.
  <1>2. ASSUME NEW w \in Workers, handler'[w].step = "count", handler'[w].left = handler[w].left,
               handler[w].step = "count" \/ Current(w) \notin stored,
               \A v \in Workers : Record(v) => v # w
        PROVE  NotedLate(w)'
    <2>1. Current(w)' = Current(w)
      BY <1>2 DEF Current
    <2>2. CASE Current(w) \in stored
      BY <1>1, <1>2, <2>1, <2>2 DEF NotedLate, TwiceInv
    <2>3. CASE Current(w) \in stored' \ stored
      <3>1. PICK v \in Workers : Record(v) /\ Current(w) \in handler[v].batch
        BY <2>3, OnlyRecordStores
      <3>2. handler'[w].left # {}
        BY <1>2 DEF IngestInv, Sound
      <3>3. Current(w) \in handler[w].batch
        BY <1>2, <3>2, CurrentIsFirst, FirstIsIn DEF IngestInv, Sound, Request
      <3> QED BY <1>1, <1>2, <3>1, <3>3 DEF TwiceInv, NotedTwice, NotedLate, Current
    <2> QED BY <2>1, <2>2, <2>3 DEF NotedLate
  <1>3. ASSUME NEW w \in Workers, Ingest(w) PROVE TwiceInv'
    <2>1. NotedTwice'
      BY <1>1, <1>3, RequestGoesOn DEF NotedTwice, TwiceInv
    <2>2. NotedLate(w)'
      <3>1. CASE handler'[w].step # "count"
        BY <3>1 DEF NotedLate
      <3>2. CASE handler'[w].left = handler[w].left /\ Current(w) \notin stored /\ stored' = stored
        BY <3>2 DEF NotedLate, Current
      <3> QED BY <1>3, <3>1, <3>2, RequestGoesOn
    <2>3. ASSUME NEW v \in Workers \ {w} PROVE NotedLate(v)'
      <3>1. handler'[v] = handler[v]
        BY <1>3, RequestGoesOn
      <3>2. \A u \in Workers : Record(u) => u # v
        <4>1. ASSUME Record(v) PROVE FALSE
          <5>1. handler'[v].step # "record" /\ handler[v].step = "record"
            BY <1>1, <4>1 DEF Record, At, Done, AfterOne, CountUp, Request
          <5> QED BY <3>1, <5>1
        <4> QED BY <4>1
      <3>3. CASE handler[v].step = "count"
        BY <1>2, <3>1, <3>2, <3>3
      <3> QED BY <3>1, <3>3 DEF NotedLate
    <2> QED BY <2>1, <2>2, <2>3 DEF TwiceInv
  <1>4. ASSUME NEW w \in Workers, Send(w) PROVE TwiceInv'
    <2>1. PICK B \in SUBSET pending :
             /\ handler' = [handler EXCEPT ![w] = [Idle EXCEPT !.step = "check", !.batch = B, !.left = B]]
             /\ twice' = twice \cup (B \cap Held)
      BY <1>4 DEF Send
    <2>2. /\ handler'[w].batch = B /\ handler'[w].step = "check"
          /\ \A v \in Workers \ {w} : handler'[v] = handler[v]
      BY <1>1, <2>1 DEF Idle
    <2>3. NotedTwice'
      <3> SUFFICES ASSUME NEW u \in Workers, NEW v \in Workers, u # v
                   PROVE  handler'[u].batch \cap handler'[v].batch \subseteq twice'
        BY DEF NotedTwice
      <3>1. \A x \in Workers : handler[x].batch \subseteq Held
        BY DEF Held
      <3>2. CASE u = w
        BY <2>1, <2>2, <3>1, <3>2
      <3>3. CASE v = w
        BY <2>1, <2>2, <3>1, <3>3
      <3>4. CASE u # w /\ v # w
        BY <1>1, <2>2, <3>4 DEF TwiceInv, NotedTwice
      <3> QED BY <3>2, <3>3, <3>4
    <2>4. stored' = stored
      BY <1>4 DEF Send
    <2>5. ASSUME NEW v \in Workers PROVE NotedLate(v)'
      <3>1. CASE v = w
        BY <2>2, <3>1 DEF NotedLate
      <3>2. CASE v # w
        BY <1>1, <2>2, <2>4, <3>2 DEF NotedLate, Current, TwiceInv
      <3> QED BY <3>1, <3>2
    <2> QED BY <2>3, <2>5 DEF TwiceInv
  <1>5. CASE handler' = handler /\ stored' = stored
    BY <1>1, <1>5 DEF TwiceInv, NotedTwice, NotedLate, Current
  <1> QED BY <1>3, <1>4, <1>5 DEF Next, Emit, GiveUpWaiting, Replan, vars

LEMMA TwiceInvariance == Spec => []TwiceInv
  <1>1. Init => TwiceInv
    BY DEF Init, TwiceInv, NotedTwice, NotedLate, Idle
  <1>2. IngestInv /\ [Next]_vars => IngestInv'
    BY IngestStep
  <1> QED BY <1>1, <1>2, TwiceStep, Invariance, PTL DEF Spec

LEMMA OthersGrow ==
    ASSUME IngestInv, IngestInv', Onward, NEW s \in Known
    PROVE  /\ Cardinality(Alike(s) \ {s}) <= Cardinality(Alike(s) \ {s})'
           /\ Cardinality(Alike(s) \ {s}) \in Nat /\ Cardinality(Alike(s) \ {s})' \in Nat
  <1> DEFINE C == Alike(s) \ {s}
             D == Alike(s)' \ {s}
  <1>1. IsFiniteSet(stored) /\ stored \subseteq Known
    BY RowsAreFinite
  <1>2. IsFiniteSet(stored')
    <2>1. (IngestInv => IsFiniteSet(stored))'
      BY RowsAreFinite, PTL
    <2> QED BY <2>1
  <1>3. C \subseteq D /\ C \subseteq stored /\ D \subseteq stored'
    BY <1>1 DEF Onward, Alike
  <1> HIDE DEF C, D
  <1>4. IsFiniteSet(C) /\ IsFiniteSet(D)
    BY <1>1, <1>2, <1>3, FS_Subset
  <1>5. Cardinality(C) <= Cardinality(D) /\ Cardinality(C) \in Nat /\ Cardinality(D) \in Nat
    BY <1>3, <1>4, FS_Subset, FS_CardinalityType
  <1> QED BY <1>5 DEF C, D

LEMMA HopelessStays ==
    ASSUME IngestInv, IngestInv', Onward, NEW s \in Known, Hopeless(s)
    PROVE  Hopeless(s)'
  <1>1. said'[s] = said[s]
    BY DEF Onward
  <1>2. CASE Corpus(s) /\ Cardinality(Alike(s) \ {s}) >= Cap
    <2>1. Corpus(s)'
      BY <1>1, <1>2 DEF Corpus
    <2>2. Cardinality(Alike(s) \ {s})' >= Cap
      <3> DEFINE m == Cardinality(Alike(s) \ {s})
                 n == Cardinality(Alike(s) \ {s})'
      <3>1. m <= n /\ m \in Nat /\ n \in Nat
        BY OthersGrow
      <3>2. m >= Cap /\ Cap \in Nat
        BY <1>2, SignalIngestAssumption
      <3> HIDE DEF m, n
      <3>3. n >= Cap
        BY <3>1, <3>2
      <3> QED BY <3>3 DEF n
    <2> QED BY <2>1, <2>2 DEF Hopeless
  <1>3. ASSUME ~(Corpus(s) /\ Cardinality(Alike(s) \ {s}) >= Cap)
        PROVE  \/ (~Acceptable(s))' \/ Implausible(s)' \/ (~Granted(s))'
               \/ (said[s].trip = "mine" /\ said[s].type # "session_start" /\ ~OnPlan(said[s].place))'
    <2>1. plan' = plan
      BY DEF Onward
    <2>2. \/ ~Acceptable(s) \/ Implausible(s) \/ ~Granted(s)
          \/ said[s].trip = "mine" /\ said[s].type # "session_start" /\ ~OnPlan(said[s].place)
      BY <1>3 DEF Hopeless
    <2> QED BY <1>1, <2>1, <2>2 DEF Acceptable, Implausible, Distant, Granted, OnPlan
  <1> QED BY <1>2, <1>3 DEF Hopeless

LEMMA CausedStays ==
    ASSUME IngestInv, IngestInv', Onward, NEW s \in Known, Caused(s)
    PROVE  Caused(s)'
  <1>1. CASE Hopeless(s)
    BY <1>1, HopelessStays DEF Caused
  <1>2. CASE s \in stored \cap twice
    BY <1>2 DEF Caused, Onward
  <1> QED BY <1>1, <1>2 DEF Caused

CausedOnes == {s \in Known : Caused(s)}

LEMMA JustifiedBecomes ==
    ASSUME IngestInv, IngestInv', Onward, NEW w \in Workers, Justified(w),
           handler'[w].rejected \subseteq handler[w].rejected \cup CausedOnes,
           \A k \in Keys : \/ handler'[w].counted[k] = Uncounted \/ handler'[w].counted[k] = handler[w].counted[k]
                           \/ handler'[w].counted[k] <= Count(k)',
           handler'[w].step \in {"rate", "count"} => Corpus(Current(w))',
           handler'[w].step \in {"place", "node"} =>
               (said[Current(w)].trip = "mine" /\ said[Current(w)].type # "session_start")'
    PROVE  Justified(w)'
  <1>1. handler[w].rejected \subseteq Known /\ handler[w].counted \in [Keys -> 0 .. Uncounted]
    BY DEF IngestInv, TypeOK, Sound, Request, Known
  <1>2. ASSUME NEW s \in handler'[w].rejected PROVE Caused(s)'
    <2>1. s \in Known /\ Caused(s)
      BY <1>1 DEF Justified, CausedOnes
    <2> QED BY <2>1, CausedStays
  <1>3. ASSUME NEW k \in Keys
        PROVE  handler'[w].counted[k] = Uncounted \/ handler'[w].counted[k] <= Count(k)'
    <2>1. Count(k) <= Count(k)' /\ Count(k) \in Nat /\ Count(k)' \in Nat
      BY CountGrows
    <2>2. handler[w].counted[k] = Uncounted \/ handler[w].counted[k] <= Count(k)
      BY DEF Justified
    <2>3. Uncounted \in Nat /\ handler[w].counted[k] \in 0 .. Uncounted
      BY <1>1, SignalIngestAssumption DEF Uncounted, Plenty
    <2> HIDE DEF Count, Uncounted
    <2> QED BY <2>1, <2>2, <2>3
  <1>4. Uncounted' = Uncounted
    BY DEF Uncounted, Plenty
  <1> QED BY <1>2, <1>3, <1>4 DEF Justified

LEMMA JustifiedStays ==
    ASSUME IngestInv, IngestInv', Onward, NEW w \in Workers, Justified(w),
           handler'[w] = handler[w]
    PROVE  Justified(w)'
  <1>1. handler[w].step \in {"rate", "count", "place", "node"} => Current(w) \in Known /\ Current(w)' = Current(w)
    <2>1. handler[w].step \in {"rate", "count", "place", "node"} => handler[w].left # {}
      BY DEF IngestInv, Sound
    <2>2. handler[w].left # {} => Current(w) \in Known
      BY CurrentIsFirst, FirstIsIn DEF IngestInv, Sound, Request, Known
    <2>3. Current(w)' = Current(w)
      BY DEF Current
    <2> QED BY <2>1, <2>2, <2>3
  <1>2. /\ handler'[w].step \in {"rate", "count"} => Corpus(Current(w))'
        /\ handler'[w].step \in {"place", "node"} =>
             (said[Current(w)].trip = "mine" /\ said[Current(w)].type # "session_start")'
    BY <1>1 DEF Justified, Onward, Corpus
  <1>3. handler'[w].rejected \subseteq handler[w].rejected \cup CausedOnes
    OBVIOUS
  <1>4. \A k \in Keys :    \/ handler'[w].counted[k] = Uncounted \/ handler'[w].counted[k] = handler[w].counted[k]
                           \/ handler'[w].counted[k] <= Count(k)'
    OBVIOUS
  <1> QED BY <1>2, <1>3, <1>4, JustifiedBecomes

\* A request that rejects its signal, or is done with it.
LEMMA JustifiedLeaves ==
    ASSUME IngestInv, IngestInv', Onward, NEW w \in Workers, Justified(w), NEW step, At(w, step),
           handler'[w].step \in {"check", "answer", "observe"},
           \/ handler'[w].rejected = handler[w].rejected
           \/ handler'[w].rejected = handler[w].rejected \cup {Current(w)} /\ Caused(Current(w)),
           \A k \in Keys : \/ handler'[w].counted[k] = Uncounted \/ handler'[w].counted[k] = handler[w].counted[k]
                           \/ handler'[w].counted[k] <= Count(k)'
    PROVE  Justified(w)'
  <1>1. Current(w) \in Known
    BY AtStep
  <1>2. handler'[w].rejected \subseteq handler[w].rejected \cup CausedOnes
    BY <1>1 DEF CausedOnes
  <1> QED BY <1>2, JustifiedBecomes

\* A request that takes its signal to the next step.
LEMMA JustifiedGoesOn ==
    ASSUME IngestInv, IngestInv', Onward, NEW w \in Workers, Justified(w), NEW step, At(w, step),
           handler'[w].left = handler[w].left, handler'[w].rejected = handler[w].rejected,
           handler'[w].step \in {"rate", "count"} => Corpus(Current(w)),
           handler'[w].step \in {"place", "node"} =>
               said[Current(w)].trip = "mine" /\ said[Current(w)].type # "session_start",
           \A k \in Keys : \/ handler'[w].counted[k] = Uncounted \/ handler'[w].counted[k] = handler[w].counted[k]
                           \/ handler'[w].counted[k] <= Count(k)'
    PROVE  Justified(w)'
  <1>1. Current(w) \in Known /\ Current(w)' = Current(w)
    BY AtStep DEF Current
  <1>2. /\ handler'[w].step \in {"rate", "count"} => Corpus(Current(w))'
        /\ handler'[w].step \in {"place", "node"} =>
             (said[Current(w)].trip = "mine" /\ said[Current(w)].type # "session_start")'
    BY <1>1 DEF Onward, Corpus
  <1> QED BY <1>2, JustifiedBecomes

LEMMA CountedIsThere ==
    ASSUME IngestInv, IngestInv', Onward, NEW w \in Workers, Justified(w), NEW k \in Keys
    PROVE  Counted(w, k) <= Count(k) /\ Counted(w, k) <= Count(k)'
  <1>1. Count(k) <= Count(k)' /\ Count(k) \in Nat /\ Count(k)' \in Nat
    BY CountGrows
  <1>2. handler[w].counted[k] \in 0 .. Uncounted /\ Uncounted \in Nat
    BY SignalIngestAssumption DEF IngestInv, TypeOK, Request, Uncounted, Plenty
  <1>3. Counted(w, k) <= Count(k) /\ Counted(w, k) \in Nat
    <2> HIDE DEF Count, Uncounted
    <2> QED BY <1>1, <1>2 DEF Counted, Justified
  <1> HIDE DEF Count, Counted
  <1> QED BY <1>1, <1>3

LEMMA KeyOfCurrent ==
    ASSUME IngestInv, NEW w \in Workers, NEW step, At(w, step)
    PROVE  Key(Current(w)) \in Keys
  <1>1. Current(w) \in Known
    BY AtStep
  <1>2. said[Current(w)] \in Inputs
    BY <1>1 DEF IngestInv, TypeOK, Known
  <1> QED BY <1>2, SignalIngestAssumption DEF Key, Keys, Places, SignalIn

\* The steps of a request that no fault and no edit has touched.
CalmStep(w) ==
    \/ Check(w) \/ GetSignal(w) \/ Rate(w) \/ Place(w) \/ Gps(w) \/ Record(w) \/ Observe(w)

LEMMA RefusingIsJustified ==
    ASSUME IngestInv, IngestInv', Onward, NEW w \in Workers, Justified(w), NEW step, At(w, step),
           Refuse(w), Caused(Current(w))
    PROVE  Justified(w)'
  <1>1. handler[w] \in Request /\ handler'[w] = Refused(handler[w], Current(w))
    BY DEF Refuse, IngestInv, TypeOK
  <1>2. /\ handler'[w].rejected = handler[w].rejected \cup {Current(w)}
        /\ handler'[w].counted = handler[w].counted
        /\ handler'[w].step \in {"check", "answer"}
    BY <1>1 DEF Refused, Done, Request, AfterOne
  <1> QED BY <1>2, JustifiedLeaves

LEMMA GoingOnIsJustified ==
    ASSUME IngestInv, IngestInv', Onward, NEW w \in Workers, Justified(w), NEW step, At(w, step),
           NEW next, GoTo(w, next),
           next \in {"rate", "count"} => Corpus(Current(w)),
           next \in {"place", "node"} => said[Current(w)].trip = "mine" /\ said[Current(w)].type # "session_start"
    PROVE  Justified(w)'
  <1>1. /\ handler'[w].left = handler[w].left /\ handler'[w].rejected = handler[w].rejected
        /\ handler'[w].counted = handler[w].counted /\ handler'[w].step = next
    BY DEF GoTo, IngestInv, TypeOK, Request
  <1> QED BY <1>1, JustifiedGoesOn

LEMMA CheckIsJustified ==
    ASSUME IngestInv, IngestInv', Onward, NEW w \in Workers, Justified(w), Check(w)
    PROVE  Justified(w)'
  <1> DEFINE s == Current(w)
  <1>1. At(w, "check") /\ IF Acceptable(s) THEN GoTo(w, AfterCheck(s)) ELSE Refuse(w)
    BY DEF Check
  <1>2. CASE Acceptable(s)
    <2>1. /\ AfterCheck(s) \in {"rate", "count"} => Corpus(s)
          /\ AfterCheck(s) \in {"place", "node"} => said[s].trip = "mine" /\ said[s].type # "session_start"
      BY DEF AfterCheck, AfterRate, AfterPlace
    <2> QED BY <1>1, <1>2, <2>1, GoingOnIsJustified
  <1>3. CASE ~Acceptable(s)
    <2>1. Caused(s)
      BY <1>3 DEF Hopeless, Caused
    <2> QED BY <1>1, <1>3, <2>1, RefusingIsJustified
  <1> QED BY <1>2, <1>3

LEMMA AskingIsJustified ==
    ASSUME IngestInv, IngestInv', Onward, NEW w \in Workers, Justified(w), GetSignal(w)
    PROVE  Justified(w)'
  <1> DEFINE s == Current(w)
  <1>1. PICK step, next :
           /\ At(w, step) /\ GoTo(w, next)
           /\ \/ step = "rate" /\ next \in {AfterRate(s), "count"}
              \/ step = "place" /\ next \in {AfterPlace(s), "node"}
              \/ step = "gps" /\ next \in {"record", "near"}
    BY DEF GetSignal
  <1>2. /\ AfterRate(s) \notin {"rate", "count", "node"} /\ AfterPlace(s) \in {"gps", "record"}
        /\ AfterRate(s) = "place" => said[s].trip = "mine" /\ said[s].type # "session_start"
    BY DEF AfterRate, AfterPlace
  <1>3. /\ next \in {"rate", "count"} => Corpus(s)
        /\ next \in {"place", "node"} => said[s].trip = "mine" /\ said[s].type # "session_start"
    BY <1>1, <1>2 DEF At, Justified
  <1> QED BY <1>1, <1>3, GoingOnIsJustified

LEMMA PlaceIsJustified ==
    ASSUME IngestInv, IngestInv', Onward, NEW w \in Workers, Justified(w), Place(w) \/ Gps(w)
    PROVE  Justified(w)'
  <1> DEFINE s == Current(w)
  <1>1. CASE Place(w)
    <2>1. /\ At(w, "node")
          /\ IF OnPlan(said[s].place) THEN GoTo(w, AfterPlace(s)) ELSE Refuse(w)
      BY <1>1 DEF Place
    <2>2. CASE GoTo(w, AfterPlace(s))
      <3>1. AfterPlace(s) \notin {"rate", "count", "place", "node"}
        BY DEF AfterPlace
      <3> QED BY <2>1, <2>2, <3>1, GoingOnIsJustified
    <2>3. CASE Refuse(w) /\ ~OnPlan(said[s].place)
      <3>1. Caused(s)
        BY <2>1, <2>3 DEF Hopeless, Caused, Justified, At
      <3> QED BY <2>1, <2>3, <3>1, RefusingIsJustified
    <2> QED BY <2>1, <2>2, <2>3
  <1>2. CASE Gps(w)
    <2>1. /\ At(w, "near")
          /\ IF Implausible(s) \/ ~Granted(s) THEN Refuse(w) ELSE GoTo(w, "record")
      BY <1>2 DEF Gps
    <2>2. CASE GoTo(w, "record")
      BY <2>1, <2>2, GoingOnIsJustified
    <2>3. CASE Refuse(w) /\ (Implausible(s) \/ ~Granted(s))
      <3>1. Caused(s)
        BY <2>3 DEF Hopeless, Caused
      <3> QED BY <2>1, <2>3, <3>1, RefusingIsJustified
    <2> QED BY <2>1, <2>2, <2>3
  <1> QED BY <1>1, <1>2

LEMMA RateIsJustified ==
    ASSUME IngestInv, IngestInv', Onward, NEW w \in Workers, Justified(w), NotedLate(w), Rate(w),
           NEW s, s = Current(w), NEW k, k = Key(s), NEW n, n = Counted(w, k)
    PROVE  Justified(w)'
  <1> DEFINE c == [handler[w].counted EXCEPT ![k] = n]
  <1>1. At(w, "count") /\ handler[w] \in Request /\ k \in Keys /\ Corpus(s)
    <2>1. At(w, "count")
      BY DEF Rate
    <2> QED BY <2>1, AtStep, KeyOfCurrent DEF Justified
  <1>2. n <= Count(k) /\ n <= Count(k)'
    BY <1>1, CountedIsThere
  <1>3. /\ AfterRate(s) \notin {"rate", "count", "observe", "node"}
        /\ AfterRate(s) = "place" => said[s].trip = "mine" /\ said[s].type # "session_start"
    BY DEF AfterRate, AfterPlace
  <1>4. ASSUME handler'[w].counted = c
        PROVE  \A j \in Keys : \/ handler'[w].counted[j] = Uncounted \/ handler'[w].counted[j] = handler[w].counted[j]
                               \/ handler'[w].counted[j] <= Count(j)'
    <2> SUFFICES ASSUME NEW j \in Keys, c[j] # handler[w].counted[j] PROVE c[j] <= Count(j)'
      BY <1>4
    <2>1. j = k /\ c[j] = n
      BY <1>1 DEF Request
    <2> QED BY <1>2, <2>1
  <1> HIDE DEF c
  <1>5. handler' = [handler EXCEPT ![w] =
           IF n >= Cap THEN [Refused(@, s) EXCEPT !.counted = c] ELSE [@ EXCEPT !.step = AfterRate(s), !.counted = c]]
    BY DEF Rate, c
  <1>6. CASE n >= Cap
    <2>1. handler'[w] = [Refused(handler[w], s) EXCEPT !.counted = c]
      BY <1>5, <1>6 DEF IngestInv, TypeOK
    <2>2. /\ handler'[w].rejected = handler[w].rejected \cup {s} /\ handler'[w].counted = c
          /\ handler'[w].step \in {"check", "answer"}
      BY <1>1, <2>1 DEF Refused, Done, Request, AfterOne
    <2>3. CASE s \in stored
      <3>1. Caused(s)
        BY <1>1, <2>3 DEF NotedLate, At, Caused
      <3> QED BY <1>1, <1>4, <2>2, <3>1, JustifiedLeaves
    <2>4. CASE s \notin stored
      <3>1. Alike(s) \ {s} = Alike(s)
        BY <2>4 DEF Alike
      <3>2. Cardinality(Alike(s)) = Count(k) /\ Count(k) \in Nat
        BY CorpusIsByKey, CountIsBounded
      <3>3. n \in Nat
        BY <1>1, <3>2, SignalIngestAssumption DEF Counted, Request, Uncounted, Plenty
      <3>4. Cardinality(Alike(s)) >= Cap
        BY <1>2, <1>6, <3>2, <3>3, SignalIngestAssumption
      <3>5. Caused(s)
        BY <1>1, <3>1, <3>4 DEF Hopeless, Caused
      <3> QED BY <1>1, <1>4, <2>2, <3>5, JustifiedLeaves
    <2> QED BY <2>3, <2>4
  <1>7. CASE ~(n >= Cap)
    <2>1. /\ handler'[w].rejected = handler[w].rejected /\ handler'[w].left = handler[w].left
          /\ handler'[w].counted = c /\ handler'[w].step = AfterRate(s)
      BY <1>1, <1>5, <1>7 DEF IngestInv, TypeOK, Request
    <2> QED BY <1>1, <1>3, <1>4, <2>1, JustifiedGoesOn
  <1> QED BY <1>6, <1>7

LEMMA RecordIsJustified ==
    ASSUME IngestInv, IngestInv', Onward, NEW w \in Workers, Justified(w), Record(w),
           NEW s, s = Current(w), NEW k, k = Key(s)
    PROVE  Justified(w)'
  <1> DEFINE h == IF s \notin stored THEN CountUp(handler[w], s) ELSE handler[w]
  <1>1. At(w, "record") /\ handler[w] \in Request /\ k \in Keys /\ stored' = stored \cup {s} /\ s \in Known
    <2>1. At(w, "record") /\ stored' = stored \cup {s}
      BY DEF Record, WithSignal
    <2> QED BY <2>1, AtStep, KeyOfCurrent
  <1>2. PICK c : /\ h = [handler[w] EXCEPT !.counted = c]
                 /\ \/ c = handler[w].counted
                    \/ /\ s \notin stored /\ handler[w].counted[k] < Cap
                       /\ c = [handler[w].counted EXCEPT ![k] = @ + 1]
    BY <1>1 DEF CountUp, Request
  <1>3. ASSUME NEW j \in Keys, c[j] # handler[w].counted[j] PROVE c[j] <= Count(j)'
    <2>1. j = k /\ s \notin stored /\ handler[w].counted[k] < Cap /\ c[j] = handler[w].counted[k] + 1
      BY <1>1, <1>2, <1>3 DEF Request
    <2>2. Count(j) \in Nat /\ Count(j)' \in Nat
      BY CountGrows
    <2>3. Count(j) + 1 <= Count(j)'
      <3>1. s \in stored' \ stored /\ Key(s)' = j
        BY <1>1, <2>1 DEF Onward, Key
      <3> QED BY <3>1, CountGrows
    <2>4. handler[w].counted[k] \in Nat /\ handler[w].counted[k] # Uncounted
      BY <1>1, <2>1, SignalIngestAssumption DEF Request, Uncounted, Plenty
    <2>5. handler[w].counted[k] <= Count(j)
      BY <1>1, <2>1, <2>4 DEF Justified
    <2> QED BY <2>1, <2>2, <2>3, <2>4, <2>5
  <1>4. handler' = [handler EXCEPT ![w] =
           IF s \notin stored /\ Observable(s) THEN [h EXCEPT !.step = "observe"] ELSE Done(h, s)]
    BY DEF Record
  <1>5. /\ handler'[w].rejected = handler[w].rejected /\ handler'[w].counted = c
        /\ handler'[w].step \in {"check", "answer", "observe"}
    <2> HIDE DEF h
    <2>1. handler'[w] \in {[h EXCEPT !.step = "observe"], Done(h, s)}
      BY <1>4 DEF IngestInv, TypeOK
    <2> QED BY <1>1, <1>2, <2>1 DEF Done, AfterOne, Request
  <1>6. \A j \in Keys : \/ handler'[w].counted[j] = Uncounted \/ handler'[w].counted[j] = handler[w].counted[j]
                        \/ handler'[w].counted[j] <= Count(j)'
    BY <1>3, <1>5
  <1> QED BY <1>1, <1>5, <1>6, JustifiedLeaves

LEMMA ObserveIsJustified ==
    ASSUME IngestInv, IngestInv', Onward, NEW w \in Workers, Justified(w), Observe(w)
    PROVE  Justified(w)'
  <1>1. At(w, "observe") /\ handler[w] \in Request /\ handler'[w] = Done(handler[w], Current(w))
    BY DEF Observe, IngestInv, TypeOK
  <1>2. /\ handler'[w].rejected = handler[w].rejected /\ handler'[w].counted = handler[w].counted
        /\ handler'[w].step \in {"check", "answer"}
    BY <1>1 DEF Done, Request, AfterOne
  <1> QED BY <1>1, <1>2, JustifiedLeaves

LEMMA CalmIsJustified ==
    ASSUME IngestInv, IngestInv', Onward, NEW w \in Workers, Justified(w), NotedLate(w), CalmStep(w)
    PROVE  Justified(w)'
  <1>1. CASE Rate(w)
    <2>1. \E s, k, n : s = Current(w) /\ k = Key(s) /\ n = Counted(w, k)
      OBVIOUS
    <2> QED BY <1>1, <2>1, RateIsJustified
  <1>2. CASE Record(w)
    <2>1. \E s, k : s = Current(w) /\ k = Key(s)
      OBVIOUS
    <2> QED BY <1>2, <2>1, RecordIsJustified
  <1> QED BY <1>1, <1>2, CheckIsJustified, AskingIsJustified, PlaceIsJustified, ObserveIsJustified DEF CalmStep

\* A request that begins, ends or is cut off holds no rejection that it is to answer for.
LEMMA FreshIsJustified ==
    ASSUME IngestInv, IngestInv', Onward, NEW w \in Workers, Justified(w),
           handler'[w].rejected = {}, handler'[w].counted = NoCounts,
           handler'[w].step \in {"idle", "check"}
    PROVE  Justified(w)'
  <1>1. \A k \in Keys : handler'[w].counted[k] = Uncounted
    BY DEF NoCounts
  <1> QED BY <1>1, JustifiedBecomes

\* Edits are counted, and so is every lookup that fails.
LEMMA CountersOnly ==
    ASSUME IngestInv, [Next]_vars, outages' = 0, replans' = 0
    PROVE  /\ outages = 0 /\ replans = 0
           /\ \A w \in Workers : ~OwnerUnknown(w) /\ ~CountUnknown(w) /\ ~PlaceUnknown(w)
                                 /\ ~DistanceUnknown(w) /\ ~ObserveFails(w)
           /\ \A p \in Plans : ~Replan(p)
  <1>1. outages \in Nat /\ replans \in Nat
    BY SignalIngestAssumption DEF IngestInv, TypeOK
  <1>2. \A w \in Workers : ~OwnerUnknown(w) /\ ~CountUnknown(w) /\ ~PlaceUnknown(w)
                           /\ ~DistanceUnknown(w) /\ ~ObserveFails(w)
    BY <1>1 DEF OwnerUnknown, CountUnknown, PlaceUnknown, DistanceUnknown, ObserveFails, LookupFails
  <1>3. \A p \in Plans : ~Replan(p)
    BY <1>1 DEF Replan
  <1>4. outages' = outages /\ replans' = replans
    <2>1. ASSUME NEW w \in Workers, Ingest(w) PROVE outages' = outages /\ replans' = replans
      BY <1>2, <2>1 DEF Ingest, Check, GetSignal, Rate, Place, Gps, Record, Observe, Answer, Abort, Ingesting
    <2> QED BY <1>3, <2>1 DEF Next, Emit, Send, GiveUpWaiting, vars
  <1> QED BY <1>1, <1>2, <1>3, <1>4

LEMMA CalmGoesOnward ==
    ASSUME IngestInv, [Next]_vars, outages' = 0, replans' = 0
    PROVE  Onward
  <1>1. plan' = plan
    <2>1. ASSUME NEW w \in Workers, Ingest(w) \/ Send(w) PROVE plan' = plan
      BY <2>1 DEF Ingest, Check, OwnerUnknown, GetSignal, Rate, CountUnknown, Place, PlaceUnknown, Gps, DistanceUnknown,
                  Record, Observe, ObserveFails, Answer, Abort, Ingesting, trip, Send
    <2> QED BY <2>1, CountersOnly DEF Next, Emit, GiveUpWaiting, trip, vars
  <1> QED BY <1>1, PastStays, TwiceGrows DEF Onward

\* Requests but w are as before, and nothing is refused that w had not rejected.
LEMMA OnlyOne ==
    ASSUME IngestInv, IngestInv', Onward, CauseInv, outages = 0, replans = 0, NEW w \in Workers,
           Justified(w)', \A v \in Workers \ {w} : handler'[v] = handler[v],
           refused' \subseteq refused \cup handler[w].rejected
    PROVE  CauseInv'
  <1>1. Justified(w) /\ \A v \in Workers : Justified(v)
    BY DEF CauseInv
  <1>2. ASSUME NEW v \in Workers PROVE Justified(v)'
    <2>1. CASE v # w
      BY <1>1, <2>1, JustifiedStays
    <2> QED BY <2>1
  <1>3. ASSUME NEW s \in refused' PROVE Caused(s)'
    <2>1. Caused(s)
      BY <1>1 DEF CauseInv, Justified
    <2>2. s \in Known
      BY DEF IngestInv, TypeOK, Sound, Known
    <2> QED BY <2>1, <2>2, CausedStays
  <1> QED BY <1>2, <1>3 DEF CauseInv

LEMMA CauseStep ==
    ASSUME IngestInv, IngestInv', CauseInv, TwiceInv, [Next]_vars, outages' = 0, replans' = 0
    PROVE  CauseInv'
  <1>1. outages = 0 /\ replans = 0 /\ Onward
    BY CountersOnly, CalmGoesOnward
  <1>2. \A w \in Workers : Justified(w)
    BY <1>1 DEF CauseInv
  <1>3. ASSUME NEW w \in Workers, CalmStep(w) PROVE CauseInv'
    <2>1. Justified(w)'
      BY <1>1, <1>2, <1>3, CalmIsJustified DEF TwiceInv
    <2>2. \A v \in Workers \ {w} : handler'[v] = handler[v]
      BY <1>3 DEF CalmStep, Check, GetSignal, Rate, Place, Gps, Record, Observe, GoTo, Refuse, IngestInv, TypeOK
    <2>3. refused' = refused
      BY <1>3 DEF CalmStep, Check, GetSignal, Rate, Place, Gps, Record, Observe, Ingesting, client
    <2> QED BY <1>1, <2>1, <2>2, <2>3, OnlyOne
  <1>4. ASSUME NEW w \in Workers, Send(w) \/ Answer(w) \/ Abort(w) PROVE CauseInv'
    <2>1. /\ handler'[w].rejected = {} /\ handler'[w].counted = NoCounts
          /\ handler'[w].step \in {"idle", "check"}
          /\ \A v \in Workers \ {w} : handler'[v] = handler[v]
      <3>1. CASE Send(w)
        <4>1. PICK B : handler' = [handler EXCEPT ![w] = [Idle EXCEPT !.step = "check", !.batch = B, !.left = B]]
          BY <3>1 DEF Send
        <4>2. handler'[w] = [Idle EXCEPT !.step = "check", !.batch = B, !.left = B]
              /\ \A v \in Workers \ {w} : handler'[v] = handler[v]
          BY <4>1 DEF IngestInv, TypeOK
        <4> QED BY <4>2 DEF Idle
      <3>2. CASE Answer(w) \/ Abort(w)
        BY <3>2 DEF Answer, Abort, Idle, IngestInv, TypeOK
      <3> QED BY <1>4, <3>1, <3>2
    <2>2. refused' \subseteq refused \cup handler[w].rejected
      BY <1>4 DEF Send, Answer, Abort
    <2>3. Justified(w)'
      BY <1>1, <1>2, <2>1, FreshIsJustified
    <2> QED BY <1>1, <2>1, <2>2, <2>3, OnlyOne
  <1>5. CASE handler' = handler /\ refused' = refused
    <2>1. \A w \in Workers : Justified(w)'
      BY <1>1, <1>2, <1>5, JustifiedStays
    <2>2. ASSUME NEW s \in refused' PROVE Caused(s)'
      <3>1. Caused(s) /\ s \in Known
        BY <1>1, <1>5, <2>2 DEF CauseInv, IngestInv, TypeOK
      <3> QED BY <1>1, <3>1, CausedStays
    <2> QED BY <2>1, <2>2 DEF CauseInv
  <1>6. \/ handler' = handler /\ refused' = refused
        \/ \E w \in Workers : CalmStep(w) \/ Send(w) \/ Answer(w) \/ Abort(w)
    <2>1. ASSUME NEW w \in Workers, Ingest(w) PROVE CalmStep(w) \/ Answer(w) \/ Abort(w)
      BY <2>1, CountersOnly DEF Ingest, CalmStep
    <2> QED BY <2>1, CountersOnly DEF Next, Emit, GiveUpWaiting, vars, client
  <1> QED BY <1>3, <1>4, <1>5, <1>6

(* As long as no lookup fails and the trip is not edited, a signal that the *)
(* device is told to give up is one that cannot be taken: a resend, a       *)
(* duplicate or the end of a request is no cause (signal_router.py).        *)
THEOREM Causes == Spec => []RefusedForCause
  <1>1. Init => CauseInv
    <2> SUFFICES ASSUME Init PROVE refused = {} /\ \A w \in Workers : Justified(w)
      BY DEF CauseInv
    <2>1. \A w \in Workers : handler[w] = Idle
      BY DEF Init
    <2> QED BY <2>1 DEF Init, Justified, Idle, NoCounts
  <1>2. IngestInv /\ TwiceInv /\ CauseInv /\ [Next]_vars => CauseInv'
    <2> SUFFICES ASSUME IngestInv, TwiceInv, CauseInv, [Next]_vars, ~(outages' = 0 /\ replans' = 0) \/ CauseInv'
                 PROVE  CauseInv'
      BY IngestStep, CauseStep
    <2>1. CASE ~(outages' = 0 /\ replans' = 0)
      BY <2>1 DEF CauseInv
    <2> QED BY <2>1
  <1>3. CauseInv => RefusedForCause
    BY DEF CauseInv, Caused, RefusedForCause
  <1> QED BY <1>1, <1>2, <1>3, TwiceInvariance, Invariance, PTL DEF Spec


-----------------------------------------------------------------------------
(* The cap of a place *)

\* The keys of the corpus, and the signals of one that may still be stored on
\* the strength of a count already taken: one pair for each that an instance
\* would let through.
Ranked(k) == k[1] \in {"visited_confirmed", "user_loved"}
Room(k) == {p \in Workers \X (1 .. Cap) : handler[p[1]].counted[k] < p[2]}

\* A signal of the corpus that is past its count was let through by it.
LetThrough(w) ==
    handler[w].step \in {"place", "node", "gps", "near", "record"} /\ Corpus(Current(w)) /\ Current(w) \notin stored
    => handler[w].counted[Key(Current(w))] < Cap

\* Whatever the instances have counted, what is stored and what they may still
\* store stays within one cap each.
CapInv ==
    /\ \A k \in Keys : Ranked(k) => Count(k) + Cardinality(Room(k)) <= Cap * Cardinality(Workers)
    /\ \A w \in Workers : LetThrough(w)

LEMMA RoomIsFinite ==
    ASSUME NEW R \in SUBSET (Workers \X (1 .. Cap))
    PROVE  /\ IsFiniteSet(R) /\ Cardinality(R) \in Nat
           /\ Cardinality(R) <= Cap * Cardinality(Workers)
           /\ Cardinality(Workers) \in Nat /\ Cap * Cardinality(Workers) \in Nat
           /\ \A S \in SUBSET R : Cardinality(S) \in Nat /\ Cardinality(S) <= Cardinality(R)
  <1> DEFINE All == Workers \X (1 .. Cap)
  <1>1. IsFiniteSet(1 .. Cap) /\ Cardinality(1 .. Cap) = Cap /\ Cap \in Nat
    BY FS_Interval, SignalIngestAssumption
  <1>2. IsFiniteSet(Workers) /\ Cardinality(Workers) \in Nat
    BY FS_CardinalityType, SignalIngestAssumption
  <1>3. IsFiniteSet(All) /\ Cardinality(All) = Cardinality(Workers) * Cap
    BY <1>1, <1>2, FS_Product
  <1>4. Cardinality(Workers) * Cap = Cap * Cardinality(Workers) /\ Cap * Cardinality(Workers) \in Nat
    BY <1>1, <1>2
  <1>5. IsFiniteSet(R) /\ Cardinality(R) <= Cardinality(All)
    BY <1>3, FS_Subset
  <1> HIDE DEF All
  <1>6. Cardinality(R) \in Nat /\ \A S \in SUBSET R : Cardinality(S) \in Nat /\ Cardinality(S) <= Cardinality(R)
    BY <1>5, FS_Subset, FS_CardinalityType
  <1> QED BY <1>2, <1>3, <1>4, <1>5, <1>6

\* A first count takes the room of one instance, less what it counted.
LEMMA RoomOfCount ==
    ASSUME NEW w \in Workers, NEW c \in 0 .. Cap, NEW R \in SUBSET (Workers \X (1 .. Cap)),
           \A n \in 1 .. Cap : <<w, n>> \in R => c < n
    PROVE  c + Cardinality(R) <= Cap * Cardinality(Workers)
  <1> DEFINE Taken == {w} \X (1 .. c)
  <1>1. c \in Nat /\ Cap \in Nat /\ c <= Cap
    BY SignalIngestAssumption
  <1>2. IsFiniteSet(Taken) /\ Cardinality(Taken) = c
    <2>1. IsFiniteSet(1 .. c) /\ Cardinality(1 .. c) = c
      BY <1>1, FS_Interval
    <2>2. IsFiniteSet({w}) /\ Cardinality({w}) = 1
      BY FS_Singleton
    <2>3. IsFiniteSet(Taken) /\ Cardinality(Taken) = 1 * c
      BY <2>1, <2>2, FS_Product
    <2> QED BY <1>1, <2>3
  <1>3. Taken \cap R = {}
    BY <1>1
  <1>4. Taken \cup R \in SUBSET (Workers \X (1 .. Cap))
    BY <1>1
  <1> HIDE DEF Taken
  <1>5. IsFiniteSet(R) /\ Cardinality(R) \in Nat /\ Cardinality(Taken \cup R) <= Cap * Cardinality(Workers)
        /\ Cap * Cardinality(Workers) \in Nat
    BY <1>4, RoomIsFinite
  <1>6. Cardinality(Taken \cup R) = Cardinality(Taken) + Cardinality(R) - Cardinality(Taken \cap R)
    BY <1>2, <1>5, FS_Union
  <1>7. Cardinality(Taken \cap R) = 0
    BY <1>3, FS_EmptySet
  <1> QED BY <1>1, <1>2, <1>5, <1>6, <1>7


LEMMA CountStays ==
    ASSUME IngestInv, stored' = stored, \A s \in Known : said'[s] = said[s], NEW k
    PROVE  Count(k)' = Count(k)
  <1>1. {s \in stored : Key(s) = k}' = {s \in stored : Key(s) = k}
    BY DEF IngestInv, TypeOK, Key
  <1> QED BY <1>1 DEF Count

NumbersInv == \A w \in Workers : \A k \in Keys : handler[w].counted[k] \in Nat /\ Count(k) \in Nat

LEMMA CountsAreNumbers == IngestInv => NumbersInv
  <1> SUFFICES ASSUME IngestInv, NEW w \in Workers, NEW k \in Keys
               PROVE  handler[w].counted[k] \in Nat /\ Count(k) \in Nat
    BY DEF NumbersInv
  <1>1. handler[w].counted[k] \in 0 .. Uncounted /\ Uncounted \in Nat
    BY SignalIngestAssumption DEF IngestInv, TypeOK, Request, Uncounted, Plenty
  <1> QED BY <1>1, CountIsBounded

\* A step that stores nothing leaves room for no more than before, or for what
\* a fresh count allows.
LEMMA RoomKept ==
    ASSUME IngestInv, IngestInv', CapInv, stored' = stored, \A s \in Known : said'[s] = said[s],
           NEW w \in Workers, \A v \in Workers \ {w} : handler'[v] = handler[v],
           NEW k \in Keys, Ranked(k),
           \/ handler'[w].counted[k] >= handler[w].counted[k]
           \/ handler'[w].counted[k] >= Cap
           \/ handler'[w].counted[k] = Count(k)
    PROVE  Count(k)' + Cardinality(Room(k)') <= Cap * Cardinality(Workers)
  <1> DEFINE R == Room(k)
             Q == Room(k)'
             n == handler[w].counted[k]
             m == handler'[w].counted[k]
  <1>1. n \in Nat /\ m \in Nat /\ Count(k) \in Nat /\ Cap \in Nat
    <2>1. (IngestInv => NumbersInv)'
      BY CountsAreNumbers, PTL
    <2> QED BY <2>1, CountsAreNumbers, SignalIngestAssumption DEF NumbersInv
  <1>2. R \in SUBSET (Workers \X (1 .. Cap)) /\ Q \in SUBSET (Workers \X (1 .. Cap))
    BY DEF Room
  <1>3. Count(k)' = Count(k)
    BY CountStays
  <1>4. Count(k) + Cardinality(R) <= Cap * Cardinality(Workers)
    BY DEF CapInv
  <1>5. CASE m >= n \/ m >= Cap
    <2>1. Q \subseteq R
      <3> SUFFICES ASSUME NEW p \in Q PROVE p \in R
        OBVIOUS
      <3>1. p[1] \in Workers /\ p[2] \in 1 .. Cap /\ handler'[p[1]].counted[k] < p[2]
            /\ p \in Workers \X (1 .. Cap)
        BY DEF Room
      <3>2. CASE p[1] = w
        <4>1. m < p[2] /\ p[2] \in Nat /\ p[2] <= Cap
          BY <1>1, <3>1, <3>2
        <4>2. n < p[2]
          BY <1>1, <1>5, <4>1
        <4> QED BY <3>1, <3>2, <4>2 DEF Room
      <3>3. CASE p[1] # w
        BY <3>1, <3>3 DEF Room
      <3> QED BY <3>2, <3>3
    <2> HIDE DEF Q, R
    <2>2. Cardinality(Q) <= Cardinality(R) /\ Cardinality(Q) \in Nat /\ Cardinality(R) \in Nat
          /\ Cap * Cardinality(Workers) \in Nat
      BY <1>2, <2>1, RoomIsFinite
    <2>3. Count(k) + Cardinality(Q) <= Cap * Cardinality(Workers)
      BY <1>1, <1>4, <2>2
    <2> QED BY <1>3, <2>3 DEF Q
  <1>6. CASE m = Count(k) /\ m < Cap
    <2>1. m \in 0 .. Cap /\ \A i \in 1 .. Cap : <<w, i>> \in Q => m < i
      BY <1>1, <1>6 DEF Room
    <2> HIDE DEF Q, m
    <2>2. m + Cardinality(Q) <= Cap * Cardinality(Workers)
      BY <1>2, <2>1, RoomOfCount
    <2> QED BY <1>3, <1>6, <2>2 DEF Q
  <1> QED BY <1>1, <1>5, <1>6

\* What has been let through stays so while others go on.
LEMMA LetThroughStays ==
    ASSUME IngestInv, stored \subseteq stored', \A s \in Known : said'[s] = said[s],
           NEW v \in Workers, handler'[v] = handler[v], LetThrough(v)
    PROVE  LetThrough(v)'
  <1>1. CASE handler[v].step \in {"place", "node", "gps", "near", "record"}
    <2>1. handler[v].left # {}
      BY <1>1 DEF IngestInv, Sound
    <2>2. Current(v) \in Known /\ Current(v)' = Current(v)
      BY <2>1, CurrentIsFirst, FirstIsIn DEF IngestInv, Sound, Request, Known, Current
    <2>3. said'[Current(v)] = said[Current(v)]
      BY <2>2
    <2> QED BY <2>2, <2>3 DEF LetThrough, Corpus, Key
  <1>2. CASE handler[v].step \notin {"place", "node", "gps", "near", "record"}
    BY <1>2 DEF LetThrough
  <1> QED BY <1>1, <1>2

\* A step of one request that stores nothing, and takes its signal past the
\* count only on its strength.
LEMMA CapKept ==
    ASSUME IngestInv, IngestInv', CapInv, stored' = stored, \A s \in Known : said'[s] = said[s],
           NEW w \in Workers, \A v \in Workers \ {w} : handler'[v] = handler[v],
           \A k \in Keys : \/ handler'[w].counted[k] >= handler[w].counted[k]
                           \/ handler'[w].counted[k] >= Cap
                           \/ handler'[w].counted[k] = Count(k),
           LetThrough(w)'
    PROVE  CapInv'
  <1>1. \A k \in Keys : Ranked(k) => Count(k)' + Cardinality(Room(k)') <= Cap * Cardinality(Workers)
    BY RoomKept
  <1>2. \A v \in Workers : LetThrough(v)'
    BY LetThroughStays DEF CapInv
  <1>3. \A k \in Keys : (Ranked(k) => Count(k) + Cardinality(Room(k)) <= Cap * Cardinality(Workers))'
    BY <1>1 DEF Ranked
  <1> QED BY <1>2, <1>3 DEF CapInv


\* The steps that end a request's business with a signal, or begin one: nothing
\* is past its count.
LEMMA CapCalm ==
    ASSUME IngestInv, IngestInv', CapInv, stored' = stored, \A s \in Known : said'[s] = said[s],
           NEW w \in Workers, \A v \in Workers \ {w} : handler'[v] = handler[v],
           handler'[w].counted = handler[w].counted \/ handler'[w].counted = NoCounts,
           handler'[w].step \notin {"place", "node", "gps", "near", "record"}
    PROVE  CapInv'
  <1>1. ASSUME NEW k \in Keys
        PROVE  \/ handler'[w].counted[k] >= handler[w].counted[k]
               \/ handler'[w].counted[k] >= Cap \/ handler'[w].counted[k] = Count(k)
    <2>1. handler[w].counted[k] \in Nat
      BY CountsAreNumbers DEF NumbersInv
    <2>2. NoCounts[k] >= Cap
      BY SignalIngestAssumption DEF NoCounts, Uncounted, Plenty
    <2> QED BY <2>1, <2>2
  <1>2. LetThrough(w)'
    BY DEF LetThrough
  <1> QED BY <1>1, <1>2, CapKept

\* A signal that goes on is of the corpus only if it is through already.
LEMMA CapGoingOn ==
    ASSUME IngestInv, IngestInv', CapInv, stored' = stored, said' = said, NEW w \in Workers,
           NEW step, At(w, step), NEW next, GoTo(w, next),
           next \in {"place", "node", "gps", "near", "record"} /\ Corpus(Current(w)) /\ Current(w) \notin stored =>
               step \in {"place", "node", "gps", "near", "record"}
    PROVE  CapInv'
  <1>1. handler[w] \in Request /\ handler \in [Workers -> Request] /\ handler[w].step = step
    BY AtStep DEF IngestInv, TypeOK
  <1>2. /\ \A v \in Workers \ {w} : handler'[v] = handler[v]
        /\ handler'[w].counted = handler[w].counted /\ handler'[w].step = next
        /\ handler'[w].left = handler[w].left
    BY <1>1 DEF GoTo, Request
  <1>3. Current(w)' = Current(w)
    BY <1>2 DEF Current
  <1>4. LetThrough(w)
    BY DEF CapInv
  <1>5. LetThrough(w)'
    BY <1>1, <1>2, <1>3, <1>4 DEF LetThrough, Corpus, Key
  <1>6. ASSUME NEW k \in Keys
        PROVE  handler'[w].counted[k] >= handler[w].counted[k]
    <2>1. handler[w].counted[k] \in Nat
      BY CountsAreNumbers DEF NumbersInv
    <2> QED BY <1>2, <2>1
  <1> QED BY <1>2, <1>5, <1>6, CapKept

LEMMA CapRefusing ==
    ASSUME IngestInv, IngestInv', CapInv, stored' = stored, said' = said, NEW w \in Workers,
           NEW step, At(w, step), Refuse(w) \/ handler' = [handler EXCEPT ![w] = Done(@, Current(w))]
    PROVE  CapInv'
  <1>1. handler[w] \in Request /\ handler \in [Workers -> Request]
    BY AtStep DEF IngestInv, TypeOK
  <1>2. handler'[w] \in {Done(handler[w], Current(w)), Refused(handler[w], Current(w))}
        /\ \A v \in Workers \ {w} : handler'[v] = handler[v]
    BY <1>1 DEF Refuse
  <1>3. handler'[w].counted = handler[w].counted /\ handler'[w].step \in {"check", "answer"}
    BY <1>1, <1>2 DEF Done, Refused, Request, AfterOne
  <1> QED BY <1>2, <1>3, CapCalm

\* A count lets a signal through only below the cap.
LEMMA CapRating ==
    ASSUME IngestInv, IngestInv', CapInv, NEW w \in Workers, Rate(w) \/ CountUnknown(w),
           NEW s, s = Current(w), NEW k, k = Key(s), NEW n, n = Counted(w, k)
    PROVE  CapInv'
  <1>1. At(w, "count") /\ stored' = stored /\ said' = said
    BY DEF Rate, CountUnknown, Ingesting, client
  <1>2. handler[w] \in Request /\ handler \in [Workers -> Request] /\ k \in Keys
    BY <1>1, AtStep, KeyOfCurrent DEF IngestInv, TypeOK
  <1>3. \/ n = handler[w].counted[k] \/ n = Count(k)
    BY DEF Counted
  <1>4. \A j \in Keys : handler[w].counted[j] \in Nat /\ Count(j) \in Nat
    BY CountsAreNumbers DEF NumbersInv
  <1>5. Plenty >= Cap /\ Cap \in Nat
    BY SignalIngestAssumption DEF Plenty
  <1>6. ASSUME NEW m, handler'[w].counted = [handler[w].counted EXCEPT ![k] = m], m = n \/ m = Plenty,
               \A v \in Workers \ {w} : handler'[v] = handler[v], LetThrough(w)'
        PROVE  CapInv'
    <2>1. ASSUME NEW j \in Keys
          PROVE  \/ handler'[w].counted[j] >= handler[w].counted[j]
                 \/ handler'[w].counted[j] >= Cap \/ handler'[w].counted[j] = Count(j)
      <3>1. CASE j = k
        <4>1. handler'[w].counted[j] = m
          BY <1>2, <1>6, <3>1 DEF Request
        <4> QED BY <1>3, <1>4, <1>5, <1>6, <3>1, <4>1
      <3>2. CASE j # k
        <4>1. handler'[w].counted[j] = handler[w].counted[j]
          BY <1>2, <1>6, <3>2 DEF Request
        <4> QED BY <1>4, <4>1
      <3> QED BY <3>1, <3>2
    <2> QED BY <1>1, <1>6, <2>1, CapKept
  <1>7. ASSUME Rate(w)
        PROVE  handler' = [handler EXCEPT ![w] =
                  IF n >= Cap THEN [Refused(@, s) EXCEPT !.counted = [handler[w].counted EXCEPT ![k] = n]]
                  ELSE [@ EXCEPT !.step = AfterRate(s), !.counted = [handler[w].counted EXCEPT ![k] = n]]]
    BY <1>7 DEF Rate
  <1>8. CASE Rate(w) /\ n >= Cap
    <2>1. handler' = [handler EXCEPT ![w] = [Refused(@, s) EXCEPT !.counted = [handler[w].counted EXCEPT ![k] = n]]]
      BY <1>7, <1>8
    <2>2. /\ handler'[w].counted = [handler[w].counted EXCEPT ![k] = n]
          /\ handler'[w].step \in {"check", "answer"}
          /\ \A v \in Workers \ {w} : handler'[v] = handler[v]
      <3>1. handler'[w] = [Refused(handler[w], s) EXCEPT !.counted = [handler[w].counted EXCEPT ![k] = n]]
            /\ \A v \in Workers \ {w} : handler'[v] = handler[v]
        BY <1>2, <2>1
      <3> QED BY <1>2, <3>1 DEF Refused, Done, Request, AfterOne
    <2>3. LetThrough(w)'
      BY <2>2 DEF LetThrough
    <2> QED BY <1>6, <2>2, <2>3
  <1>9. CASE Rate(w) /\ ~(n >= Cap)
    <2>1. handler' = [handler EXCEPT ![w] = [@ EXCEPT !.step = AfterRate(s), !.counted = [handler[w].counted EXCEPT ![k] = n]]]
      BY <1>7, <1>9
    <2>2. /\ handler'[w].counted = [handler[w].counted EXCEPT ![k] = n]
          /\ handler'[w].left = handler[w].left
          /\ \A v \in Workers \ {w} : handler'[v] = handler[v]
      BY <1>2, <2>1 DEF Request
    <2>3. Current(w)' = s /\ Key(s)' = k
      BY <1>1, <2>2 DEF Current, Key
    <2>4. handler'[w].counted[k] = n /\ n \in Nat /\ n < Cap
      BY <1>2, <1>3, <1>4, <1>5, <1>9, <2>2 DEF Request
    <2>5. LetThrough(w)'
      BY <2>3, <2>4 DEF LetThrough
    <2> QED BY <1>6, <2>2, <2>5
  <1>10. CASE CountUnknown(w)
    <2>1. handler' = [handler EXCEPT ![w] = [Refused(@, s) EXCEPT !.counted[k] = Plenty]]
      BY <1>10 DEF CountUnknown
    <2>2. /\ handler'[w].counted = [handler[w].counted EXCEPT ![k] = Plenty]
          /\ handler'[w].step \in {"check", "answer"}
          /\ \A v \in Workers \ {w} : handler'[v] = handler[v]
      <3>1. handler'[w] = [Refused(handler[w], s) EXCEPT !.counted[k] = Plenty]
            /\ \A v \in Workers \ {w} : handler'[v] = handler[v]
        BY <1>2, <2>1
      <3> QED BY <1>2, <3>1 DEF Refused, Done, Request, AfterOne
    <2>3. LetThrough(w)'
      BY <2>2 DEF LetThrough
    <2> QED BY <1>6, <2>2, <2>3
  <1> QED BY <1>8, <1>9, <1>10


\* A new row of the corpus takes one place of the room its instance had.
LEMMA CapRecording ==
    ASSUME IngestInv, IngestInv', CapInv, NEW w \in Workers, Record(w),
           NEW s, s = Current(w), NEW k, k = Key(s)
    PROVE  CapInv'
  <1> DEFINE h == IF s \notin stored THEN CountUp(handler[w], s) ELSE handler[w]
  <1>1. /\ At(w, "record") /\ stored' = stored \cup {s} /\ said' = said
        /\ handler' = [handler EXCEPT ![w] =
              IF s \notin stored /\ Observable(s) THEN [h EXCEPT !.step = "observe"] ELSE Done(h, s)]
    BY DEF Record, WithSignal, Ingesting, client
  <1>2. /\ handler[w] \in Request /\ handler \in [Workers -> Request] /\ k \in Keys /\ s \in Known
        /\ handler[w].step = "record"
    BY <1>1, AtStep, KeyOfCurrent DEF IngestInv, TypeOK
  <1>3. PICK c : /\ h = [handler[w] EXCEPT !.counted = c]
                 /\ \/ /\ c = handler[w].counted
                       /\ s \in stored \/ ~Corpus(s) \/ ~(handler[w].counted[k] < Cap)
                    \/ /\ s \notin stored /\ Corpus(s) /\ handler[w].counted[k] < Cap
                       /\ c = [handler[w].counted EXCEPT ![k] = @ + 1]
    BY <1>2 DEF CountUp, Request
  <1>4. /\ handler'[w].counted = c /\ handler'[w].step \in {"check", "answer", "observe"}
        /\ \A v \in Workers \ {w} : handler'[v] = handler[v]
    <2> HIDE DEF h
    <2>1. handler'[w] \in {[h EXCEPT !.step = "observe"], Done(h, s)}
          /\ \A v \in Workers \ {w} : handler'[v] = handler[v]
      BY <1>1, <1>2
    <2> QED BY <1>2, <1>3, <2>1 DEF Done, AfterOne, Request
  <1> HIDE DEF h
  <1>5. \A v \in Workers : LetThrough(v)'
    <2>1. LetThrough(w)'
      BY <1>4 DEF LetThrough
    <2>2. ASSUME NEW v \in Workers \ {w} PROVE LetThrough(v)'
      BY <1>1, <1>4, LetThroughStays DEF CapInv
    <2> QED BY <2>1, <2>2
  <1>6. CASE s \in stored
    <2>1. stored' = stored /\ handler'[w].counted = handler[w].counted
      BY <1>1, <1>3, <1>4, <1>6
    <2> QED BY <1>1, <1>4, <2>1, CapCalm
  <1>7. CASE s \notin stored
    <2>1. Corpus(s) => handler[w].counted[k] < Cap
      BY <1>2, <1>7 DEF CapInv, LetThrough
    <2>2. Corpus(s) <=> Ranked(k)
      BY DEF Corpus, Ranked, Key
    <2>3. ASSUME NEW j \in Keys, Ranked(j), j # k
          PROVE  Count(j)' + Cardinality(Room(j)') <= Cap * Cardinality(Workers)
      <3>1. Count(j)' = Count(j)
        <4>1. {t \in stored : Key(t) = j}' = {t \in stored : Key(t) = j}
          BY <1>1, <2>3 DEF Key
        <4> QED BY <4>1 DEF Count
      <3>2. \A v \in Workers : handler'[v].counted[j] = handler[v].counted[j]
        BY <1>2, <1>3, <1>4, <2>3 DEF Request
      <3>3. Room(j)' = Room(j)
        BY <3>2 DEF Room
      <3> QED BY <2>3, <3>1, <3>3 DEF CapInv
    <2>4. ASSUME Ranked(k) PROVE Count(k)' + Cardinality(Room(k)') <= Cap * Cardinality(Workers)
      <3> DEFINE n == handler[w].counted[k]
                 C == {t \in stored : Key(t) = k}
                 R == Room(k)
      <3>1. n \in Nat /\ n < Cap /\ Cap \in Nat /\ Count(k) \in Nat
        BY <1>2, <2>1, <2>2, <2>4, CountsAreNumbers, SignalIngestAssumption DEF NumbersInv
      <3>2. Count(k)' = Count(k) + 1
        <4>1. {t \in stored : Key(t) = k}' = C \cup {s} /\ s \notin C
          BY <1>1, <1>7 DEF Key
        <4>2. IsFiniteSet(C)
          BY RowsAreFinite, FS_Subset
        <4> HIDE DEF C
        <4>3. Cardinality(C \cup {s}) = Cardinality(C) + 1
          BY <4>1, <4>2, FS_AddElement
        <4> QED BY <4>1, <4>3 DEF Count, C
      <3>3. handler'[w].counted[k] = n + 1
        BY <1>2, <1>3, <1>4, <1>7, <2>1, <2>2, <2>4 DEF Request
      <3>4. Room(k)' = R \ {<<w, n + 1>>} /\ <<w, n + 1>> \in R /\ R \in SUBSET (Workers \X (1 .. Cap))
        <4>1. n + 1 \in 1 .. Cap /\ n < n + 1
          BY <3>1
        <4>2. <<w, n + 1>> \in R
          BY <4>1 DEF Room
        <4>3. ASSUME NEW p \in Workers \X (1 .. Cap)
              PROVE  handler'[p[1]].counted[k] < p[2] <=>
                         handler[p[1]].counted[k] < p[2] /\ p # <<w, n + 1>>
          <5>1. CASE p[1] = w
            <6>1. p[2] \in Nat /\ (p # <<w, n + 1>> <=> p[2] # n + 1)
              BY <5>1
            <6> HIDE DEF n
            <6>2. n + 1 < p[2] <=> n < p[2] /\ p[2] # n + 1
              BY <3>1, <6>1
            <6> QED BY <3>3, <5>1, <6>1, <6>2 DEF n
          <5>2. CASE p[1] # w
            BY <1>4, <5>2
          <5> QED BY <5>1, <5>2
        <4> QED BY <4>2, <4>3 DEF Room
      <3> HIDE DEF R
      <3>5. IsFiniteSet(R) /\ Cardinality(R) \in Nat
        BY <3>4, RoomIsFinite
      <3>6. Cardinality(Room(k)') = Cardinality(R) - 1
        <4>1. <<w, n + 1>> \in R
          BY <3>4
        <4>2. Cardinality(R \ {<<w, n + 1>>}) = Cardinality(R) - 1
          BY <3>5, <4>1, FS_RemoveElement
        <4> QED BY <3>4, <4>2
      <3>7. Count(k) + Cardinality(R) <= Cap * Cardinality(Workers)
        BY <1>2, <2>4 DEF CapInv, R
      <3> QED
        <4>1. Count(k)' + Cardinality(Room(k)') = Count(k) + Cardinality(R)
          BY <3>1, <3>2, <3>5, <3>6
        <4> QED BY <3>7, <4>1
    <2>5. \A j \in Keys : (Ranked(j) => Count(j) + Cardinality(Room(j)) <= Cap * Cardinality(Workers))'
      BY <2>3, <2>4 DEF Ranked
    <2> QED BY <1>5, <2>5 DEF CapInv
  <1> QED BY <1>6, <1>7


LEMMA CapStep == IngestInv /\ IngestInv' /\ CapInv /\ [Next]_vars => CapInv'
  <1> SUFFICES ASSUME IngestInv, IngestInv', CapInv, [Next]_vars PROVE CapInv'
    OBVIOUS
  <1>1. \A s \in Known : said'[s] = said[s]
    BY PastStays
  <1>2. ASSUME stored' = stored, handler' = handler PROVE CapInv'
    <2>1. ASSUME NEW v \in Workers PROVE LetThrough(v)'
      BY <1>1, <1>2, LetThroughStays DEF CapInv
    <2>2. ASSUME NEW k \in Keys PROVE Count(k)' = Count(k) /\ Room(k)' = Room(k)
      BY <1>1, <1>2, CountStays DEF Room
    <2>3. \A k \in Keys : (Ranked(k) => Count(k) + Cardinality(Room(k)) <= Cap * Cardinality(Workers))'
      BY <2>2 DEF CapInv, Ranked
    <2> QED BY <2>1, <2>3 DEF CapInv
  <1>3. ASSUME NEW w \in Workers, Send(w) \/ Answer(w) \/ Abort(w) PROVE CapInv'
    <2>1. stored' = stored /\ handler \in [Workers -> Request]
      BY <1>3 DEF Send, Answer, Abort, IngestInv, TypeOK
    <2>2. /\ handler'[w].counted = NoCounts /\ handler'[w].step \in {"idle", "check"}
          /\ \A v \in Workers \ {w} : handler'[v] = handler[v]
      <3>1. CASE Send(w)
        <4>1. PICK B : handler' = [handler EXCEPT ![w] = [Idle EXCEPT !.step = "check", !.batch = B, !.left = B]]
          BY <3>1 DEF Send
        <4> QED BY <2>1, <4>1 DEF Idle
      <3>2. CASE Answer(w) \/ Abort(w)
        BY <2>1, <3>2 DEF Answer, Abort, Idle
      <3> QED BY <1>3, <3>1, <3>2
    <2> QED BY <1>1, <2>1, <2>2, CapCalm
  <1>4. ASSUME NEW w \in Workers, NEW step, At(w, step), stored' = stored, said' = said,
               \/ Refuse(w)
               \/ handler' = [handler EXCEPT ![w] = Done(@, Current(w))]
        PROVE  CapInv'
    BY <1>4, CapRefusing
  <1>5. ASSUME NEW w \in Workers, Check(w) \/ OwnerUnknown(w) PROVE CapInv'
    <2>1. At(w, "check") /\ stored' = stored /\ said' = said
          /\ (Refuse(w) \/ GoTo(w, AfterCheck(Current(w))))
      BY <1>5 DEF Check, OwnerUnknown, Ingesting, client
    <2>2. Corpus(Current(w)) => AfterCheck(Current(w)) = "rate"
      BY DEF AfterCheck
    <2>3. CASE GoTo(w, AfterCheck(Current(w)))
      BY <2>1, <2>2, <2>3, CapGoingOn
    <2> QED BY <1>4, <2>1, <2>3
  <1>6. ASSUME NEW w \in Workers, Place(w) \/ PlaceUnknown(w) PROVE CapInv'
    <2>1. /\ At(w, "node") /\ stored' = stored /\ said' = said
          /\ Refuse(w) \/ GoTo(w, AfterPlace(Current(w)))
      BY <1>6 DEF Place, PlaceUnknown, Ingesting, client
    <2>2. CASE GoTo(w, AfterPlace(Current(w)))
      BY <2>1, <2>2, CapGoingOn
    <2> QED BY <1>4, <2>1, <2>2
  <1>7. ASSUME NEW w \in Workers, Gps(w) \/ DistanceUnknown(w) PROVE CapInv'
    <2>1. At(w, "near") /\ stored' = stored /\ said' = said /\ (Refuse(w) \/ GoTo(w, "record"))
      BY <1>7 DEF Gps, DistanceUnknown, Ingesting, client
    <2>2. CASE GoTo(w, "record")
      BY <2>1, <2>2, CapGoingOn
    <2> QED BY <1>4, <2>1, <2>2
  <1>8. ASSUME NEW w \in Workers, Observe(w) \/ ObserveFails(w) PROVE CapInv'
    <2>1. At(w, "observe") /\ stored' = stored /\ said' = said
          /\ handler' = [handler EXCEPT ![w] = Done(@, Current(w))]
      BY <1>8 DEF Observe, ObserveFails, Ingesting, client
    <2> QED BY <1>4, <2>1
  <1>9. ASSUME NEW w \in Workers, Rate(w) \/ CountUnknown(w) PROVE CapInv'
    <2>1. \E s, k, n : s = Current(w) /\ k = Key(s) /\ n = Counted(w, k)
      OBVIOUS
    <2> QED BY <1>9, <2>1, CapRating
  <1>10. ASSUME NEW w \in Workers, Record(w) PROVE CapInv'
    <2>1. \E s, k : s = Current(w) /\ k = Key(s)
      OBVIOUS
    <2> QED BY <1>10, <2>1, CapRecording
  <1>12. ASSUME NEW w \in Workers, GetSignal(w) PROVE CapInv'
    <2>1. stored' = stored /\ said' = said
      BY <1>12 DEF GetSignal, Ingesting, client
    <2>2. PICK step, next :
             /\ At(w, step) /\ GoTo(w, next)
             /\ step \in {"place", "gps"} \/ next = "count" \/ Current(w) \in stored
      BY <1>12 DEF GetSignal, Resent
    <2> QED BY <2>1, <2>2, CapGoingOn
  <1>11. ASSUME \/ \E input \in Inputs : Emit(input)
                \/ GiveUpWaiting \/ UNCHANGED vars
                \/ \E p \in Plans : Replan(p)
         PROVE  stored' = stored /\ handler' = handler
    BY <1>11 DEF Emit, GiveUpWaiting, Replan, vars
  <1> QED BY <1>2, <1>3, <1>5, <1>6, <1>7, <1>8, <1>9, <1>10, <1>11, <1>12 DEF Next, Ingest

(* However many instances count at the same time, and whatever is resent,  *)
(* cut off or refused meanwhile: what is stored of one type at one place   *)
(* is within one cap an instance.                                          *)
THEOREM CapHolds == Spec => []CapPerInstance
  <1>1. Init => CapInv
    <2> SUFFICES ASSUME Init PROVE CapInv
      OBVIOUS
    <2>1. \A w \in Workers : handler[w] = Idle
      BY DEF Init
    <2>2. Cap \in Nat /\ \A k \in Keys : NoCounts[k] = Uncounted /\ Uncounted \in Nat /\ Uncounted > Cap
      BY SignalIngestAssumption DEF NoCounts, Uncounted, Plenty
    <2>3. ASSUME NEW k \in Keys PROVE Room(k) = {} /\ Count(k) = 0
      <3>1. Room(k) = {}
        BY <2>1, <2>2 DEF Room, Idle
      <3>2. {s \in stored : Key(s) = k} = {}
        BY DEF Init
      <3> QED BY <3>1, <3>2, FS_EmptySet DEF Count
    <2>4. Cardinality({}) = 0 /\ Cap * Cardinality(Workers) \in Nat
      BY RoomIsFinite, FS_EmptySet
    <2>5. \A w \in Workers : LetThrough(w)
      BY <2>1 DEF LetThrough, Idle
    <2> QED BY <2>3, <2>4, <2>5 DEF CapInv
  <1>2. IngestInv /\ CapInv => CapPerInstance
    <2> SUFFICES ASSUME IngestInv, CapInv, NEW s \in stored, Corpus(s)
                 PROVE  Cardinality(Alike(s)) <= Cap * Cardinality(Workers)
      BY DEF CapPerInstance
    <2>1. said[s] \in Inputs
      BY DEF IngestInv, TypeOK, Known
    <2>2. Key(s) \in Keys /\ Ranked(Key(s))
      BY <2>1, SignalIngestAssumption DEF Key, Keys, Places, SignalIn, Ranked, Corpus
    <2> DEFINE k == Key(s)
    <2>3. Count(k) + Cardinality(Room(k)) <= Cap * Cardinality(Workers)
      BY <2>2 DEF CapInv
    <2>4. Cardinality(Room(k)) \in Nat /\ Cap * Cardinality(Workers) \in Nat
      <3>1. Room(k) \in SUBSET (Workers \X (1 .. Cap))
        BY DEF Room
      <3> QED BY <3>1, RoomIsFinite
    <2>5. Cardinality(Alike(s)) = Count(k) /\ Count(k) \in Nat
      BY CorpusIsByKey, CountIsBounded
    <2> HIDE DEF k
    <2> QED BY <2>3, <2>4, <2>5
  <1>3. IngestInv /\ [Next]_vars => IngestInv'
    BY IngestStep
  <1> QED BY <1>1, <1>2, <1>3, CapStep, Invariance, PTL DEF Spec

=============================================================================
