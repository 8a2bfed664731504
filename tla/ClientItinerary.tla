-------------------------- MODULE ClientItinerary --------------------------
(***************************************************************************)
(* The itinerary controller of the app (itinerary_notifier.dart) between   *)
(* the screens, the trip endpoints and the SQLite tables cache_trip,       *)
(* node_outcome and loved_places (offline_database.dart).                  *)
(*                                                                         *)
(* Dart runs one piece of code at a time, up to its next await.  Every     *)
(* action below is such a piece: load(), applyEvent(), recordVisited() and *)
(* recordSkipped() are cut at their awaits and interleave there.  The      *)
(* database runs one statement at a time, in the order they were issued;   *)
(* a statement and the code that waits for it are one action.              *)
(*                                                                         *)
(* A trip is a version and the set of its stops that are cancelled; an     *)
(* empty list of stops is version 0.                                       *)
(***************************************************************************)
EXTENDS Naturals, FiniteSets, Sequences

CONSTANTS
    Nodes,        \* stops of the trip, all begun
    Current,      \* those in progress and not locked (nodeIsCurrentWindow)
    Loads,        \* bound: load() calls, the first one at launch
    Screens,      \* bound: events of the screens at once
    Decisions,    \* bound: runs of recordVisited() and recordSkipped() at once
    MaxVersions,  \* bound: versions of the trip on the server
    MaxKills,     \* bound: the app is killed and launched again
    MaxFailures   \* bound: requests and statements that fail

ASSUME ClientItineraryAssumption ==
    /\ Current \subseteq Nodes
    /\ Loads # {} /\ Screens \cap Decisions = {}
    /\ MaxVersions \in Nat \ {0} /\ MaxKills \in Nat /\ MaxFailures \in Nat

VARIABLES
    server,    \* the trip on the server
    screen,    \* ItineraryState
    sheet,     \* the stop whose outcome sheet is open, if any
    loads,     \* the runs of load()
    events,    \* the runs of applyEvent(); a skip sends at most one of its own
    record,    \* the runs of recordVisited() and recordSkipped()
    emitted,   \* stops with a signal enqueued in the outbox
    saved,     \* node_outcome
    hearts,    \* loved_places
    cached,    \* cache_trip, if there is a row
    writes,    \* statements issued and not awaited, in order
    kills, failures,
    overlapped,  \* the last load() began while another one ran
    unread       \* the last load() to end could not read node_outcome

memory == <<screen, sheet, loads, events, record, writes>>
disk == <<saved, hearts, cached, emitted>>
ghost == <<kills, failures, overlapped, unread>>
vars == <<server, memory, disk, ghost>>

Senders == Screens \cup Decisions

Trip == [version : 0 .. MaxVersions, cancelled : SUBSET Nodes]
NoTrip == [version |-> 0, cancelled |-> {}]

ItineraryState ==
    [trip : Trip, loading : BOOLEAN, error : BOOLEAN, processing : BOOLEAN, outcomes : SUBSET Nodes,
     recording : SUBSET Nodes, loved : SUBSET Nodes]

\* What load() remembers from its start, and what it has read since.
Load ==
    [step : {"unused", "fetch", "served", "offline", "hearts", "outcomes", "done"}, online : BOOLEAN,
     outcomes : SUBSET Nodes, recording : SUBSET Nodes, loved : SUBSET Nodes,
     trip : Trip, found : SUBSET Nodes]

\* heard: the app that sent it still runs; listed: the answer lists stops.
Event ==
    [step : {"idle", "sent", "answered", "refused"}, heard : BOOLEAN, listed : BOOLEAN,
     target : SUBSET Nodes, trip : Trip]

Recording == [step : {"idle", "emit", "persist", "cancel"}, stop : SUBSET Nodes, skipped : BOOLEAN]
NoRecording == [step |-> "idle", stop |-> {}, skipped |-> FALSE]

Statement ==
    [kind : {"write", "update", "heart", "read"}, trip : Trip, heart : SUBSET Nodes, load : SUBSET Loads]
Nothing == [kind |-> "write", trip |-> NoTrip, heart |-> {}, load |-> {}]
WriteTrip(trip) == [Nothing EXCEPT !.trip = trip]
UpdateTrip(trip) == [Nothing EXCEPT !.kind = "update", !.trip = trip]
WriteHeart(n) == [Nothing EXCEPT !.kind = "heart", !.heart = {n}]
ReadTrip(i) == [Nothing EXCEPT !.kind = "read", !.load = {i}]

NoLoad ==
    [step |-> "unused", online |-> TRUE, outcomes |-> {}, recording |-> {}, loved |-> {},
     trip |-> NoTrip, found |-> {}]
OldLoad == [NoLoad EXCEPT !.step = "done"]
NoEvent == [step |-> "idle", heard |-> TRUE, listed |-> TRUE, target |-> {}, trip |-> NoTrip]
Sent(target) == [NoEvent EXCEPT !.step = "sent", !.target = target]

Blank ==
    [trip |-> NoTrip, loading |-> TRUE, error |-> FALSE, processing |-> FALSE,
     outcomes |-> {}, recording |-> {}, loved |-> {}]

ReloadingHeartless(s) == [Blank EXCEPT !.outcomes = s.outcomes, !.recording = s.recording]

\* What a reload keeps of the state, on the screen and aside.
Reloading(s) == [Blank EXCEPT !.outcomes = s.outcomes, !.recording = s.recording, !.loved = s.loved]
Started(s) ==
    [NoLoad EXCEPT !.step = "fetch", !.outcomes = s.outcomes, !.recording = s.recording, !.loved = s.loved]

\* Runs are alike: one that is not in use stands for all.
FirstLoad == CHOOSE i \in Loads : TRUE

Init ==
    /\ server = [version |-> 1, cancelled |-> {}]
    /\ screen = Blank /\ sheet = {}
    /\ loads = [i \in Loads |-> IF i = FirstLoad THEN Started(Blank) ELSE NoLoad]
    /\ events = [e \in Senders |-> NoEvent]
    /\ record = [r \in Decisions |-> NoRecording]
    /\ emitted = {} /\ saved = {} /\ hearts = {} /\ cached = {} /\ writes = <<>>
    /\ kills = 0 /\ failures = 0 /\ overlapped = FALSE /\ unread = FALSE

Fails == failures < MaxFailures /\ failures' = failures + 1

LoadsRunning == {i \in Loads : loads[i].step \notin {"unused", "done"}}

UnusedLoad(i) == loads[i] = NoLoad /\ i = CHOOSE j \in Loads : loads[j] = NoLoad
IdleDecision(r) == record[r] = NoRecording /\ r = CHOOSE d \in Decisions : record[d] = NoRecording

-----------------------------------------------------------------------------
(* load() *)

\* After Ask-to-Add in the chat, or Retry on the error view.
Reload(i) ==
    /\ UnusedLoad(i)
    /\ screen' = Reloading(screen)
    /\ loads' = [loads EXCEPT ![i] = Started(screen)]
    /\ overlapped' = (LoadsRunning # {})
    /\ UNCHANGED <<server, sheet, events, record, writes, disk, kills, failures, unread>>

\* GET /trip answers with the trip of that moment.
Serve(i) ==
    /\ loads[i].step = "fetch"
    /\ loads' = [loads EXCEPT ![i].step = "served", ![i].trip = server]
    /\ UNCHANGED <<server, screen, sheet, events, record, writes, disk, ghost>>

Arrive(i) ==
    /\ loads[i].step = "served"
    /\ loads' = [loads EXCEPT ![i].step = "hearts"]
    /\ UNCHANGED <<server, screen, sheet, events, record, writes, disk, ghost>>

LoadFails(i) ==
    /\ loads[i].step \in {"fetch", "served"} /\ Fails
    /\ loads' = [loads EXCEPT ![i].step = "offline", ![i].online = FALSE, ![i].trip = NoTrip]
    /\ writes' = Append(writes, ReadTrip(i))
    /\ UNCHANGED <<server, screen, sheet, events, record, disk, kills, overlapped, unread>>

CachedTripReadUnended(i, row) ==
    \/ /\ \E trip \in row : loads' = [loads EXCEPT ![i].step = "hearts", ![i].trip = trip]
       /\ UNCHANGED screen
    \/ /\ row = {}
       /\ loads' = [loads EXCEPT ![i] = OldLoad]
       /\ screen' = [Reloading(loads[i]) EXCEPT !.error = TRUE]

\* Without a cached trip the screen shows the error.
CachedTripRead(i, row) ==
    \/ /\ \E trip \in row : loads' = [loads EXCEPT ![i].step = "hearts", ![i].trip = trip]
       /\ UNCHANGED screen
    \/ /\ row = {}
       /\ loads' = [loads EXCEPT ![i] = OldLoad]
       /\ screen' = [Reloading(loads[i]) EXCEPT !.loading = FALSE, !.error = TRUE]

\* A statement of a restore that fails finds nothing.
RestoreLovedRefs(i) ==
    /\ loads[i].step = "hearts"
    /\ \E found \in {hearts, {}} :
          /\ loads' = [loads EXCEPT ![i].step = "outcomes", ![i].found = found]
          /\ IF found = hearts THEN UNCHANGED failures ELSE Fails
    /\ UNCHANGED <<server, screen, sheet, events, record, writes, disk, kills, overlapped, unread>>

Restored(l, outcomes) ==
    [Reloading(l) EXCEPT !.trip = l.trip, !.loading = FALSE,
                         !.outcomes = outcomes \cup @, !.loved = @ \cup l.found]

\* The last await of load(): the whole state is replaced.
RestoreNodeOutcomes(i) ==
    /\ loads[i].step = "outcomes"
    /\ loads' = [loads EXCEPT ![i] = OldLoad]
    /\ \/ screen' = Restored(loads[i], saved) /\ unread' = FALSE /\ UNCHANGED failures
       \/ screen' = Restored(loads[i], {}) /\ unread' = TRUE /\ Fails
    /\ writes' = IF loads[i].online
                 THEN Append(writes, WriteTrip(loads[i].trip))
                 ELSE writes
    /\ UNCHANGED <<server, sheet, events, record, disk, kills, overlapped>>

-----------------------------------------------------------------------------
(* applyEvent() *)

\* From the timeline, a sheet or the chat; a second one is ignored.
ApplyEvent(e, target) ==
    /\ events[e] = NoEvent /\ ~screen.processing
    /\ screen' = [screen EXCEPT !.processing = TRUE]
    /\ events' = [events EXCEPT ![e] = Sent(target)]
    /\ UNCHANGED <<server, sheet, loads, record, writes, disk, ghost>>

\* The answer of a question, or of an event that left no stop, lists none.
ServeEvent(e) ==
    /\ events[e].step = "sent" /\ server.version < MaxVersions
    /\ server' = [version |-> server.version + 1, cancelled |-> server.cancelled \cup events[e].target]
    /\ \E listed \in {TRUE} \cup {events[e].target # {}} :
          events' = [events EXCEPT ![e] =
                        IF @.heard
                        THEN [@ EXCEPT !.step = "answered", !.listed = listed, !.trip = server']
                        ELSE NoEvent]
    /\ UNCHANGED <<screen, sheet, loads, record, writes, disk, ghost>>

\* The reroute limit, or an event the server finds invalid.
RefuseEvent(e) ==
    /\ events[e].step = "sent"
    /\ events' = [events EXCEPT ![e] = IF @.heard THEN [@ EXCEPT !.step = "refused"] ELSE NoEvent]
    /\ UNCHANGED <<server, screen, sheet, loads, record, writes, disk, ghost>>

\* A skip that waited for its cancel_activity is finished with it.
Finish(s, stop) == [s EXCEPT !.recording = @ \ stop]
Finished(done) == [r \in Decisions |-> IF r \in done THEN NoRecording ELSE record[r]]
Ends(e, s) ==
    /\ events' = [events EXCEPT ![e] = NoEvent]
    /\ screen' = Finish([s EXCEPT !.processing = FALSE], UNION {record[r].stop : r \in Decisions \cap {e}})
    /\ record' = Finished({e})

\* The stops on the screen stay, and go to cache_trip, when the answer has none.
ReceiveEvent(e) ==
    /\ events[e].step = "answered"
    /\ LET trip == IF events[e].listed THEN events[e].trip ELSE screen.trip IN
       /\ Ends(e, [screen EXCEPT !.trip = trip])
       /\ writes' = Append(writes, UpdateTrip(trip))
    /\ UNCHANGED <<server, sheet, loads, disk, ghost>>

EventEndsUnended(e) ==
    /\ events[e].heard
    /\ \/ events[e].step = "refused" /\ UNCHANGED failures
       \/ events[e].step \in {"sent", "answered"} /\ Fails
    /\ events' = [events EXCEPT ![e] = NoEvent]
    /\ screen' = Finish(screen, UNION {record[r].stop : r \in Decisions \cap {e}})
    /\ record' = Finished({e})
    /\ UNCHANGED <<server, sheet, loads, writes, disk, kills, overlapped, unread>>

\* A refusal, or an error of the network before or after the server's part.
EventEnds(e) ==
    /\ events[e].heard
    /\ \/ events[e].step = "refused" /\ UNCHANGED failures
       \/ events[e].step \in {"sent", "answered"} /\ Fails
    /\ Ends(e, screen)
    /\ UNCHANGED <<server, sheet, loads, writes, disk, kills, overlapped, unread>>

-----------------------------------------------------------------------------
(* Statements nobody awaits. *)

\* cache_trip is read, its nodes replaced, and written.
UpdateThenWrite(s) ==
    IF cached = {} THEN Tail(writes) ELSE Append(Tail(writes), WriteTrip(s.trip))

CachedTripReads(s, row) ==
    \/ s.kind # "read" /\ UNCHANGED <<screen, loads>>
    \/ s.kind = "read" /\ \E i \in s.load : CachedTripRead(i, row)

RunStatement ==
    /\ writes # <<>>
    /\ LET s == Head(writes) IN
       /\ writes' = IF s.kind = "update" THEN UpdateThenWrite(s) ELSE Tail(writes)
       /\ cached' = IF s.kind = "write" THEN {s.trip} ELSE cached
       /\ hearts' = hearts \cup s.heart
       /\ CachedTripReads(s, cached)
    /\ UNCHANGED <<server, sheet, events, record, saved, emitted, ghost>>

StatementFails ==
    /\ writes # <<>> /\ Fails
    /\ writes' = Tail(writes)
    /\ CachedTripReads(Head(writes), {})
    /\ UNCHANGED <<server, sheet, events, record, disk, kills, overlapped, unread>>

-----------------------------------------------------------------------------
(* Outcomes and hearts, tapped on the timeline. *)

Shown == ~screen.loading /\ ~screen.error

\* nodeCanRecordOutcome and the prompt of the card.
CanRecord(n) ==
    /\ Shown /\ ~screen.processing
    /\ n \notin screen.trip.cancelled /\ n \notin screen.outcomes /\ n \notin screen.recording

OpenSheet(n) ==
    /\ sheet = {} /\ CanRecord(n)
    /\ sheet' = {n}
    /\ UNCHANGED <<server, screen, loads, events, record, writes, disk, ghost>>

DismissSheet ==
    /\ sheet # {} /\ sheet' = {}
    /\ UNCHANGED <<server, screen, loads, events, record, writes, disk, ghost>>

\* The sheet keeps the stop it was opened with; only outcomes and marks of the
\* state of now stop a decision (_beginOutcomeRecording).
Record(r, skipped) ==
    /\ sheet # {} /\ sheet' = {}
    /\ IdleDecision(r)
    /\ IF sheet \cap (screen.outcomes \cup screen.recording) = {}
       THEN /\ record' = [record EXCEPT ![r] = [step |-> "emit", stop |-> sheet, skipped |-> skipped]]
            /\ screen' = [screen EXCEPT !.recording = @ \cup sheet]
       ELSE UNCHANGED <<record, screen>>
    /\ UNCHANGED <<server, loads, events, writes, disk, ghost>>

\* The insert into the outbox, which SignalSync models.
Emit(r) ==
    /\ record[r].step = "emit"
    /\ record' = [record EXCEPT ![r].step = "persist"]
    /\ emitted' = emitted \cup record[r].stop
    /\ UNCHANGED <<server, screen, sheet, loads, events, writes, saved, hearts, cached, ghost>>

EmitFailsUnseen(r) ==
    /\ record[r].step = "emit" /\ Fails
    /\ record' = [record EXCEPT ![r].step = "persist"]
    /\ UNCHANGED <<server, screen, sheet, loads, events, writes, disk, kills, overlapped, unread>>

EmitFails(r) ==
    /\ record[r].step = "emit" /\ Fails
    /\ record' = [record EXCEPT ![r] = NoRecording]
    /\ screen' = Finish(screen, record[r].stop)
    /\ UNCHANGED <<server, sheet, loads, events, writes, disk, kills, overlapped, unread>>

\* A skip of the stop in progress also cancels it, but applyEvent() returns
\* at once if another event is being processed.
Acknowledge(r) ==
    LET s == [screen EXCEPT !.outcomes = @ \cup record[r].stop]
        cancels == record[r].skipped /\ record[r].stop \subseteq Current /\ ~s.processing
    IN  \/ /\ cancels /\ events[r] = NoEvent
           /\ screen' = [s EXCEPT !.processing = TRUE]
           /\ events' = [events EXCEPT ![r] = Sent(record[r].stop)]
           /\ record' = [record EXCEPT ![r].step = "cancel"]
        \/ /\ ~cancels
           /\ screen' = Finish(s, record[r].stop)
           /\ record' = [record EXCEPT ![r] = NoRecording]
           /\ UNCHANGED events

Persist(r) ==
    /\ record[r].step = "persist"
    /\ saved' = saved \cup record[r].stop
    /\ Acknowledge(r)
    /\ UNCHANGED <<server, sheet, loads, writes, hearts, cached, emitted, ghost>>

\* The acknowledgement stays, in memory only.
PersistFails(r) ==
    /\ record[r].step = "persist" /\ Fails
    /\ Acknowledge(r)
    /\ UNCHANGED <<server, sheet, loads, writes, disk, kills, overlapped, unread>>

MarkLoved(n) ==
    /\ Shown /\ n \notin screen.loved
    /\ screen' = [screen EXCEPT !.loved = @ \cup {n}]
    /\ writes' = Append(writes, WriteHeart(n))
    /\ UNCHANGED <<server, sheet, loads, events, record, disk, ghost>>

-----------------------------------------------------------------------------

\* The app is killed and launched again: what is on disk stays, and so does
\* a request on its way.
Relaunch(i) ==
    /\ kills < MaxKills /\ kills' = kills + 1
    /\ UnusedLoad(i)
    /\ screen' = Blank /\ sheet' = {}
    /\ loads' = [j \in Loads |->
                   IF j = i THEN Started(Blank) ELSE IF loads[j] = NoLoad THEN NoLoad ELSE OldLoad]
    /\ events' = [e \in Senders |->
                    IF events[e].step = "sent" THEN [events[e] EXCEPT !.heard = FALSE] ELSE NoEvent]
    /\ record' = [r \in Decisions |-> NoRecording]
    /\ writes' = <<>>
    /\ overlapped' = FALSE /\ unread' = FALSE
    /\ UNCHANGED <<server, disk, failures>>

LoadStep(i) ==
    Serve(i) \/ Arrive(i) \/ LoadFails(i) \/ RestoreLovedRefs(i) \/ RestoreNodeOutcomes(i)
EventStep(e) == ServeEvent(e) \/ RefuseEvent(e) \/ ReceiveEvent(e) \/ EventEnds(e)
RecordStep(r) == Emit(r) \/ EmitFails(r) \/ Persist(r) \/ PersistFails(r)

Next ==
    \/ \E i \in Loads : Reload(i) \/ LoadStep(i) \/ Relaunch(i)
    \/ \E e \in Screens, target \in {{}} \cup {{n} : n \in Nodes} : ApplyEvent(e, target)
    \/ \E e \in Senders : EventStep(e)
    \/ RunStatement \/ StatementFails
    \/ \E n \in Nodes : OpenSheet(n) \/ MarkLoved(n)
    \/ DismissSheet
    \/ \E r \in Decisions :
         \/ \E skipped \in BOOLEAN : Record(r, skipped)
         \/ RecordStep(r)

Spec == Init /\ [][Next]_vars

-----------------------------------------------------------------------------
(* Properties. *)

\* Type invariant; an error is shown, not a load that never ends.
TypeOK ==
    /\ server \in Trip /\ cached \subseteq Trip /\ screen \in ItineraryState /\ sheet \subseteq Nodes
    /\ loads \in [Loads -> Load] /\ events \in [Senders -> Event]
    /\ record \in [Decisions -> Recording]
    /\ emitted \subseteq Nodes /\ saved \subseteq Nodes /\ hearts \subseteq Nodes
    /\ writes \in Seq(Statement)
    /\ kills \in 0 .. MaxKills /\ failures \in 0 .. MaxFailures
    /\ overlapped \in BOOLEAN /\ unread \in BOOLEAN
    /\ screen.error => ~screen.loading

\* Whatever taps, reloads, offline launches, failures and kills interleave, an
\* outcome is shown or stored as recorded only once its signal is in the outbox
\* ("Persist and emit in the right order"); and a timeline shows every outcome on
\* disk ("Preserve them through reload and applyEvent"), through loads that
\* overlap too, unless the last one to end could not read them.
OutcomeIsEmitted == screen.outcomes \cup saved \subseteq emitted
SavedIsShown == Shown /\ ~unread => saved \subseteq screen.outcomes

OutcomesHold == OutcomeIsEmitted /\ SavedIsShown

\* "Preserve already-filled hearts through reload", unless two loads overlap.
HeartsStay ==
    [][kills' = kills /\ ~overlapped => screen.loved \subseteq screen'.loved]_vars

\* Whatever overlaps and fails, nobody waits for what will never come: the
\* shimmer has a load() that will replace it, the lock that ignores a second
\* event has a request that will release it, a skip has the answer it waits for,
\* and an offline load its read of cache_trip.
InFlight(e) == events[e].heard /\ events[e].step # "idle"

WaitsEnd ==
    /\ screen.loading => LoadsRunning # {}
    /\ screen.processing => \E e \in Senders : InFlight(e)
    /\ \A r \in Decisions : record[r].step = "cancel" => InFlight(r)
    /\ \A i \in Loads : loads[i].step = "offline" =>
          \E k \in DOMAIN writes : writes[k].kind = "read" /\ writes[k].load = {i}

-----------------------------------------------------------------------------
(* What the code does not do. *)

\* docs/briefs/GENIE_SPEC_30_REMAINDER.md: "Disable the outcome sheet while a
\* decision is being persisted so a double tap cannot enqueue duplicates."  A
\* load() that ends takes the mark of a decision made since it began.
OneDecision ==
    \A r, q \in Decisions :
        r # q /\ {record[r].step, record[q].step} \subseteq {"emit", "persist"}
        => record[r].stop \cap record[q].stop = {}

\* A load() that ends brings back the mark of a decision that ended since it
\* began: the prompt of a stop nobody decides on stays disabled.
MarksEnd == Shown => screen.recording \subseteq UNION {record[r].stop : r \in Decisions}

\* A load() that ends replaces what an event has brought since its answer.
NeverGoesBack ==
    [][Shown /\ Shown' => screen.trip.version <= screen'.trip.version]_vars

\* At rest, with nothing failed, cache_trip is what the screen shows; the later
\* of two writes may carry the older stops.
CacheFollows ==
    Shown /\ writes = <<>> /\ LoadsRunning = {} /\ failures = 0 => cached = {screen.trip}

\* itinerary_notifier.dart:220-221: the fallback for an answer without stops is
\* "always safe".  While a load() runs the screen has none, and they are cached.
CacheHasStops == NoTrip \notin cached

\* docs/briefs/GENIE_SPEC_30_REMAINDER.md: "If the node is currently active,
\* unlocked, and still pending, send the existing cancel_activity".  The code
\* does not: a skip recorded while an event is processed never sends it.
SkipCancels ==
    [][\A r \in Decisions :
          /\ record[r].step = "persist" /\ record'[r].step # "persist" /\ kills' = kills
          /\ record[r].skipped /\ record[r].stop \subseteq Current
          => events'[r].step = "sent"]_vars
=============================================================================
