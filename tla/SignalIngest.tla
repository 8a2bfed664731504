---------------------------- MODULE SignalIngest ----------------------------
(***************************************************************************)
(* POST /api/v1/signals (routers/signal_router.py) with the services it    *)
(* calls: what happens to every signal of a batch between the client's     *)
(* request and its answer.                                                 *)
(*                                                                         *)
(* ingest_signals has no await between its checks, so the requests of one  *)
(* server instance run one after the other; the interleavings are those of *)
(* several instances (Workers), of a client that stopped waiting and sent  *)
(* the same rows again, and of edits of the trip.  A batch goes through    *)
(* its signals in order, each through its checks, the insert and the       *)
(* derivation.  A check is cut between its reads of the database: is the   *)
(* signal there (rate, place, gps), and if not, may it be (count, node,    *)
(* near).  The insert and the derivation are a step each.                  *)
(*                                                                         *)
(* A signal is its number: numbers are in the order of captured_at.        *)
(* Consent has no ledger yet, so every optional purpose is refused.        *)
(***************************************************************************)
EXTENDS Naturals, FiniteSets, Sequences

CONSTANTS
    MaxSignals,        \* bound: signals the device emits
    Inputs,            \* what a signal may say, see SignalIn
    Plans,             \* node lists the trip may have
    FirstPlan,         \* its node list at creation
    Workers,           \* server instances
    NoWorker,          \* the client waits for nobody
    Cap,               \* RANKING_CORPUS_PER_PLACE_CAP (3 in the code)
    BatchLimit,        \* SignalBatchRequest.max_length (100 in the code)
    MaxFaults,         \* bound: database lookups that fail and requests
                       \* without a (timely) answer, together
    MaxReplans,        \* bound: edits of the trip
    SignalTypeColumn   \* table signal has a column signal_type: the in-memory
                       \* service has it, the Postgres schema has not

Signals == 1 .. MaxSignals

Types == {"visited_confirmed", "node_skipped", "user_loved", "session_start"}

\* Trips: the caller's, somebody else's (or one that is not there), none.
Trips == {"mine", "other", "none"}

\* A signal's claim of position: no coordinates, near the place it names, far
\* from it, or not a pair of coordinates at all.
Positions == {"none", "near", "far", "bad"}

Places == {i.place : i \in Inputs}

SignalIn ==
    [type : Types, trip : Trips, place : Places, sound : BOOLEAN, gps : Positions]

Keys == Types \X Places

ASSUME SignalIngestAssumption ==
    /\ MaxSignals \in Nat /\ Cap \in Nat \ {0} /\ BatchLimit \in Nat \ {0}
    /\ MaxFaults \in Nat /\ MaxReplans \in Nat
    /\ Inputs \subseteq SignalIn
    /\ FirstPlan \in Plans /\ Plans \subseteq Seq([id : Nat, place : STRING, at : Nat])
    /\ IsFiniteSet(Workers) /\ NoWorker \notin Workers
    /\ SignalTypeColumn \in BOOLEAN

VARIABLES
    said,      \* the signals emitted so far: signal -> what it says
    pending,   \* rows of the device that are still to be sent
    refused,   \* rows the device gave up because the server said so
    waiting,   \* the instance whose answer the device waits for
    handler,   \* the request each instance is busy with
    stored,    \* rows of table signal
    plan,      \* nodes of the trip: [id, place, at], in list order
    spans,     \* observed durations on the edges of the trip
    twice,     \* history: signals that two instances have held at once
    outages, lost, replans   \* counters of the bounded faults and edits

client == <<said, pending, refused, waiting>>
trip == <<plan, spans>>
vars == <<client, handler, stored, trip, twice, outages, lost, replans>>

Known == DOMAIN said
Corpus(s) == said[s].type \in {"visited_confirmed", "user_loved"}
Key(s) == <<said[s].type, said[s].place>>
Count(k) == Cardinality({s \in stored : Key(s) = k})
Plenty == MaxSignals + Cap      \* for 1,000,000: at or above any cap
Uncounted == Plenty + 1
NoCounts == [k \in Keys |-> Uncounted]

Idle == [step |-> "idle", batch |-> {}, left |-> {}, rejected |-> {}, counted |-> NoCounts]
Steps ==
    {"idle", "check", "rate", "count", "place", "node", "gps", "near", "record", "observe", "answer"}
Request ==
    [step : Steps, batch : SUBSET Signals, left : SUBSET Signals, rejected : SUBSET Signals,
     counted : [Keys -> 0 .. Uncounted]]

Init ==
    /\ said = <<>> /\ pending = {} /\ refused = {} /\ waiting = NoWorker
    /\ handler = [w \in Workers |-> Idle]
    /\ stored = {}
    /\ plan = FirstPlan /\ spans = {} /\ twice = {}
    /\ outages = 0 /\ lost = 0 /\ replans = 0

-----------------------------------------------------------------------------
(* The device: SignalSync models how it queues and retries. *)

Emit(input) ==
    /\ Len(said) < MaxSignals
    /\ said' = Append(said, input)
    /\ pending' = pending \cup {Len(said) + 1}
    /\ UNCHANGED <<refused, waiting, handler, stored, trip, twice, outages, lost, replans>>

SendableAll(B) == B # {} /\ B \subseteq pending

\* Any due rows, but no more than a batch may hold.
Sendable(B) == B # {} /\ B \subseteq pending /\ Cardinality(B) <= BatchLimit

\* What requests still hold, answered or not.
Held == UNION {handler[w].batch : w \in Workers}

Send(w) ==
    /\ waiting = NoWorker /\ handler[w].step = "idle"
    /\ \E B \in SUBSET pending :
         /\ Sendable(B)
         /\ handler' = [handler EXCEPT ![w] =
                          [Idle EXCEPT !.step = "check", !.batch = B, !.left = B]]
         /\ twice' = twice \cup (B \cap Held)
    /\ waiting' = w
    /\ UNCHANGED <<said, pending, refused, stored, trip, outages, lost, replans>>

FaultsLeft == outages + lost < MaxFaults

\* A timeout or a lost connection: the instance goes on all the same.
GiveUpWaiting ==
    /\ waiting # NoWorker /\ FaultsLeft
    /\ waiting' = NoWorker /\ lost' = lost + 1
    /\ UNCHANGED <<said, pending, refused, handler, stored, trip, twice, outages, replans>>

-----------------------------------------------------------------------------
(* One signal of a batch. *)

Current(w) == CHOOSE s \in handler[w].left : \A t \in handler[w].left : s <= t

At(w, step) == handler[w].step = step /\ handler[w].left # {}

\* The step that follows the last step of a signal.
AfterOne(left) == IF left = {} THEN "answer" ELSE "check"

\* has_consent: what trips cannot do without is granted, nothing else is.
Granted(s) == said[s].type # "user_loved"

\* A signal only takes the steps that may refuse it.
AfterPlace(s) == IF said[s].gps \in {"far", "bad"} \/ ~Granted(s) THEN "gps" ELSE "record"
AfterRate(s) ==
    IF said[s].trip = "mine" /\ said[s].type # "session_start" THEN "place" ELSE AfterPlace(s)
AfterCheck(s) == IF Corpus(s) THEN "rate" ELSE AfterRate(s)

GoTo(w, step) == handler' = [handler EXCEPT ![w].step = step]

Done(h, s) == [h EXCEPT !.left = @ \ {s}, !.step = AfterOne(h.left \ {s})]

Refused(h, s) == [Done(h, s) EXCEPT !.rejected = @ \cup {s}]

Refuse(w) == handler' = [handler EXCEPT ![w] = Refused(@, Current(w))]

\* Only the answer and the database are touched by a step.
Ingesting == UNCHANGED <<client, trip, twice, lost, replans>>

\* A lookup that fails where the code takes failure for a refusal.
LookupFails == FaultsLeft /\ outages' = outages + 1

\* Known type, closed value_json, dish reference, captured_at within its
\* bounds (all of them: sound), and a trip of the caller's or none.
Acceptable(s) == said[s].sound /\ said[s].trip # "other"

Check(w) ==
    /\ At(w, "check")
    /\ IF Acceptable(Current(w)) THEN GoTo(w, AfterCheck(Current(w))) ELSE Refuse(w)
    /\ UNCHANGED <<stored, outages>> /\ Ingesting

\* get_owned_trip fails closed.
OwnerUnknown(w) ==
    /\ At(w, "check") /\ said[Current(w)].trip # "none"
    /\ LookupFails /\ Refuse(w) /\ UNCHANGED stored /\ Ingesting

NeverResent(s) == FALSE

\* get_signal: a retry of a stored signal skips the cap, the place and the
\* position, each of which asks for it anew.
Resent(s) == s \in stored

GetSignal(w) ==
    LET s == Current(w) IN
    /\ \/ At(w, "rate") /\ GoTo(w, IF Resent(s) THEN AfterRate(s) ELSE "count")
       \/ At(w, "place") /\ GoTo(w, IF Resent(s) THEN AfterPlace(s) ELSE "node")
       \/ At(w, "gps") /\ GoTo(w, IF Resent(s) THEN "record" ELSE "near")
    /\ UNCHANGED <<stored, outages>> /\ Ingesting

\* The count is read once per key and batch, then kept up to date by hand.
Counted(w, k) == IF handler[w].counted[k] = Uncounted THEN Count(k) ELSE handler[w].counted[k]

Rate(w) ==
    LET s == Current(w)
        counted == [handler[w].counted EXCEPT ![Key(s)] = Counted(w, Key(s))]
    IN  /\ At(w, "count")
        /\ handler' = [handler EXCEPT ![w] =
             IF Counted(w, Key(s)) >= Cap
             THEN [Refused(@, s) EXCEPT !.counted = counted]
             ELSE [@ EXCEPT !.step = AfterRate(s), !.counted = counted]]
        /\ UNCHANGED <<stored, outages>> /\ Ingesting

\* count_signals_for_user_place answers 1,000,000 when its query fails.
CountUnknown(w) ==
    LET s == Current(w) IN
    /\ At(w, "count") /\ handler[w].counted[Key(s)] = Uncounted
    /\ LookupFails
    /\ handler' = [handler EXCEPT ![w] =
         [Refused(@, s) EXCEPT !.counted[Key(s)] = Plenty]]
    /\ UNCHANGED stored /\ Ingesting

OnPlan(place) == \E i \in DOMAIN plan : plan[i].place = place

Place(w) ==
    /\ At(w, "node")
    /\ IF OnPlan(said[Current(w)].place) THEN GoTo(w, AfterPlace(Current(w))) ELSE Refuse(w)
    /\ UNCHANGED <<stored, outages>> /\ Ingesting

PlaceUnknownSkips(w) ==
    /\ At(w, "node")
    /\ LookupFails /\ handler' = [handler EXCEPT ![w] = Done(@, Current(w))] /\ UNCHANGED stored
    /\ Ingesting

\* is_place_on_trip fails closed.
PlaceUnknown(w) ==
    /\ At(w, "node")
    /\ LookupFails /\ Refuse(w) /\ UNCHANGED stored /\ Ingesting

\* Coordinates are for types that can have them; how far they are from the
\* place matters for the claims of presence, and only if the node is there.
Distant(s) ==
    said[s].gps = "far" /\ said[s].trip = "mine" /\ said[s].type \in {"visited_confirmed", "node_skipped"}

Implausible(s) ==
    \/ said[s].gps = "bad" /\ said[s].type # "session_start"
    \/ Distant(s) /\ OnPlan(said[s].place)

\* gps_error, then require_consent: that asks for the signal once more, but
\* what it refuses is never there.
Gps(w) ==
    LET s == Current(w) IN
    /\ At(w, "near")
    /\ IF Implausible(s) \/ ~Granted(s) THEN Refuse(w) ELSE GoTo(w, "record")
    /\ UNCHANGED <<stored, outages>> /\ Ingesting

\* gps_distance_error takes a failed lookup for a node it does not know.
DistanceUnknown(w) ==
    LET s == Current(w) IN
    /\ At(w, "near") /\ Distant(s) /\ Granted(s)
    /\ LookupFails /\ GoTo(w, "record")
    /\ UNCHANGED stored /\ Ingesting

Observable(s) == said[s].type = "visited_confirmed" /\ said[s].trip = "mine"

CountUpNever(h, s) == h

\* An accepted signal of the corpus counts in the rest of the batch.
CountUp(h, s) ==
    IF Corpus(s) /\ h.counted[Key(s)] < Cap THEN [h EXCEPT !.counted[Key(s)] = @ + 1] ELSE h

\* record_signal: ON CONFLICT (signal_id) DO NOTHING.
WithSignal(s) == stored \cup {s}

\* Only a new row of a visit goes on to its derivation; the row is committed
\* by then.
Record(w) ==
    LET s == Current(w)
        new == s \notin stored
        h == IF new THEN CountUp(handler[w], s) ELSE handler[w]
    IN  /\ At(w, "record")
        /\ stored' = WithSignal(s)
        /\ handler' = [handler EXCEPT ![w] =
             IF new /\ Observable(s) THEN [h EXCEPT !.step = "observe"] ELSE Done(h, s)]
        /\ UNCHANGED outages /\ Ingesting

-----------------------------------------------------------------------------
(* derive_observed_duration: the span on the edge into the visited node. *)

VisitsAt(place) == {s \in stored : Observable(s) /\ said[s].place = place}

\* The target is the first node with that name, its predecessor is by time.
IsTarget(i, place) == plan[i].place = place /\ \A j \in 1 .. i - 1 : plan[j].place # place
IsBefore(p, i) ==
    /\ plan[p].at < plan[i].at
    /\ \A j \in DOMAIN plan : plan[j].at < plan[i].at => plan[j].at <= plan[p].at

\* The edge from the visit before to this one: neighbours in time and in the
\* list, for only neighbours of the list are joined by an edge.
Into(s) ==
    {p \in DOMAIN plan : /\ SignalTypeColumn
                        /\ p + 1 \in DOMAIN plan
                        /\ IsTarget(p + 1, said[s].place) /\ IsBefore(p, p + 1)}

LastVisitOfAll(place, s) == {v \in VisitsAt(place) : \A u \in VisitsAt(place) : u <= v}

\* The latest visit there, if the span is positive.
LastVisit(place, s) ==
    {v \in VisitsAt(place) : v < s /\ \A u \in VisitsAt(place) : u <= v}

NewSpans(s) ==
    UNION {{[from |-> plan[p].id, to |-> plan[p + 1].id, since |-> v, until |-> s] :
              v \in LastVisit(plan[p].place, s)} : p \in Into(s)}

SameEdge(e, f) == e.from = f.from /\ e.to = f.to

Observe(w) ==
    LET s == Current(w) IN
    /\ At(w, "observe")
    /\ spans' = {e \in spans : \A f \in NewSpans(s) : ~SameEdge(e, f)} \cup NewSpans(s)
    /\ handler' = [handler EXCEPT ![w] = Done(@, s)]
    /\ UNCHANGED <<client, stored, plan, twice, outages, lost, replans>>

\* Any failure of the derivation is swallowed.
ObserveFails(w) ==
    /\ At(w, "observe") /\ LookupFails
    /\ handler' = [handler EXCEPT ![w] = Done(@, Current(w))]
    /\ UNCHANGED stored /\ Ingesting

-----------------------------------------------------------------------------
(* The answer, and its loss. *)

AnswerForgets(w) ==
    /\ handler[w].step = "answer"
    /\ handler' = [handler EXCEPT ![w] = Idle]
    /\ IF waiting = w
       THEN /\ pending' = pending \ handler[w].batch
            /\ waiting' = NoWorker
       ELSE UNCHANGED <<pending, waiting>>
    /\ UNCHANGED <<refused, said, stored, trip, twice, outages, lost, replans>>

\* Stored and duplicate rows leave the queue, rejected ones are given up.
Answer(w) ==
    /\ handler[w].step = "answer"
    /\ handler' = [handler EXCEPT ![w] = Idle]
    /\ IF waiting = w
       THEN /\ pending' = pending \ handler[w].batch
            /\ refused' = refused \cup (handler[w].rejected \cap pending)
            /\ waiting' = NoWorker
       ELSE UNCHANGED <<pending, refused, waiting>>
    /\ UNCHANGED <<said, stored, trip, twice, outages, lost, replans>>

\* An error of get_signal or record_signal, or the end of the instance: the
\* client gets a 500 or nothing, and what was recorded stays.
Abort(w) ==
    /\ handler[w].step # "idle" /\ FaultsLeft /\ lost' = lost + 1
    /\ handler' = [handler EXCEPT ![w] = Idle]
    /\ waiting' = IF waiting = w THEN NoWorker ELSE waiting
    /\ UNCHANGED <<said, pending, refused, stored, trip, twice, outages, replans>>

Adjacent(p, e) == \E i \in 1 .. Len(p) - 1 : p[i].id = e.from /\ p[i + 1].id = e.to

\* A committed command replaces the nodes and the edges of the trip; the
\* durations observed on edges that survive are carried over.
Replan(p) ==
    /\ replans < MaxReplans /\ p # plan
    /\ plan' = p /\ replans' = replans + 1
    /\ spans' = {e \in spans : Adjacent(p, e)}
    /\ UNCHANGED <<client, handler, stored, twice, outages, lost>>

Ingest(w) ==
    \/ Check(w) \/ OwnerUnknown(w)
    \/ GetSignal(w)
    \/ Rate(w) \/ CountUnknown(w)
    \/ Place(w) \/ PlaceUnknown(w)
    \/ Gps(w) \/ DistanceUnknown(w)
    \/ Record(w)
    \/ Observe(w) \/ ObserveFails(w)
    \/ Answer(w) \/ Abort(w)

Next ==
    \/ \E input \in Inputs : Emit(input)
    \/ \E w \in Workers : Send(w) \/ Ingest(w)
    \/ GiveUpWaiting
    \/ \E p \in Plans : Replan(p)

Spec == Init /\ [][Next]_vars

-----------------------------------------------------------------------------
(* Properties. *)

\* Type invariant; a request never holds more than max_length signals.
TypeOK ==
    /\ said \in Seq(Inputs) /\ Len(said) <= MaxSignals
    /\ pending \subseteq Known /\ refused \subseteq Known /\ stored \subseteq Known
    /\ twice \subseteq Known
    /\ waiting \in Workers \cup {NoWorker}
    /\ handler \in [Workers -> Request]
    /\ \A w \in Workers : Cardinality(handler[w].batch) <= BatchLimit
    /\ plan \in Plans
    /\ outages \in 0 .. MaxFaults /\ lost \in 0 .. MaxFaults /\ replans \in 0 .. MaxReplans

\* Nothing is lost on the way: what a request has been through is stored or
\* named in rejected[] (no continue, error or duplicate of ingest_signals lets
\* an item slip by unnamed, and none is named that the request did not hold);
\* and a row leaves the device's queue only when the server has it or has
\* refused it by name, whatever was repeated, cut off or answered late.
NothingSlipsBy ==
    \A w \in Workers :
        LET h == handler[w] IN
        /\ h.left \subseteq h.batch /\ h.rejected \subseteq h.batch
        /\ h.batch \ (h.left \cup h.rejected) \subseteq stored
        /\ h.step = "observe" => Current(w) \in stored
        /\ h.step \in {"idle", "answer"} <=> h.left = {}

AcknowledgedIsStored ==
    NothingSlipsBy /\ Known \ (pending \cup refused) \subseteq stored

\* Without outages and edits of the trip, the device is told to give a signal
\* up only for what the signal says or because other signals fill its place
\* (signal_router.py: "permanently rejected (client should not retry)").  A
\* retry is refused otherwise only if the server has the signal, and two
\* requests have held it at once: nothing is lost, and a retry of a request
\* that is over is a duplicate.
Alike(s) == {t \in stored : said[t].type = said[s].type /\ said[t].place = said[s].place}

Hopeless(s) ==
    \/ ~Acceptable(s) \/ Implausible(s) \/ ~Granted(s)
    \/ said[s].trip = "mine" /\ said[s].type # "session_start" /\ ~OnPlan(said[s].place)
    \/ Corpus(s) /\ Cardinality(Alike(s) \ {s}) >= Cap

RefusedForCause ==
    outages = 0 /\ replans = 0 => \A s \in refused : Hopeless(s) \/ s \in stored \cap twice

\* The cap per user, type and place is read before it is used: instances that
\* serve the same user at once overshoot it, but never by more than one cap
\* each (RANKING_CORPUS_PER_PLACE_CAP).
CapPerInstance ==
    \A s \in stored : Corpus(s) => Cardinality(Alike(s)) <= Cap * Cardinality(Workers)

\* A duration on an edge is the time between two stored visits, in order, of
\* places that the two nodes of the edge have or had.
Bears(id, place) == \E p \in Plans : \E i \in DOMAIN p : p[i].id = id /\ p[i].place = place

SpansAreReal ==
    \A e \in spans :
        /\ {e.since, e.until} \subseteq stored /\ e.since < e.until
        /\ Observable(e.since) /\ Observable(e.until)
        /\ Bears(e.from, said[e.since].place) /\ Bears(e.to, said[e.until].place)
        /\ Adjacent(plan, e)
        /\ \A f \in spans : SameEdge(e, f) => e = f

\* Requests and answers implement the custody that SignalCustody promises:
\* a row the device gave up is still on it (failed_permanent).
Custody == INSTANCE SignalCustody WITH
    known <- Known, held <- pending \cup refused, stored <- stored, wiped <- {}

ImplementsCustody == Custody!Spec

\* signal_router.py:344: "A retry of a stored signal_id skips the cap and stays
\* a duplicate".  Not when the first request stores it between the retry's
\* get_signal and its count.
RetriesStayDuplicates == outages = 0 /\ replans = 0 => refused \cap stored = {}

\* observed_duration_service.py: "When consecutive nodes both have confirmed
\* arrivals, their connecting edge stores the whole-minute span".
ConsecutiveArrivalsHaveTheirSpan ==
    (\A w \in Workers : handler[w].step = "idle") =>
        \A p \in 1 .. Len(plan) - 1 : \A v, s \in stored :
            /\ Observable(v) /\ said[v].place = plan[p].place
            /\ Observable(s) /\ said[s].place = plan[p + 1].place
            /\ v < s
            => \E e \in spans : e.from = plan[p].id /\ e.to = plan[p + 1].id
=============================================================================
