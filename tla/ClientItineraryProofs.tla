----------------------- MODULE ClientItineraryProofs -----------------------
(***************************************************************************)
(* Proofs about ClientItinerary.  IInv is inductive: every place that      *)
(* holds an outcome holds one whose signal is in the outbox, a load that   *)
(* runs alone hides the timeline and remembers its hearts, and every       *)
(* suspended piece of code has what resumes it.                            *)
(***************************************************************************)
EXTENDS ClientItinerary, TLAPS

-----------------------------------------------------------------------------
(* The inductive invariant. *)

\* Everywhere an outcome is held or about to be, its signal is in the outbox.
SignalsHold ==
    /\ OutcomeIsEmitted
    /\ \A i \in Loads : loads[i].outcomes \subseteq emitted
    /\ \A r \in Decisions : record[r].step = "persist" => record[r].stop \subseteq emitted

\* A load that runs alone hides the timeline and remembers the hearts it will
\* show again.
LoadAlone(i) ==
    /\ screen.loading /\ screen.loved \subseteq loads[i].loved
    /\ \A j \in LoadsRunning : j = i

HeartsHold == ~overlapped => \A i \in LoadsRunning : LoadAlone(i)

\* A read of cache_trip is the one an offline load waits for.
IsRead(s, k, i) == s[k].kind = "read" /\ s[k].load = {i}
ReadsOf(s, i) == \A k, l \in DOMAIN s : IsRead(s, k, i) /\ IsRead(s, l, i) => k = l
Awaits(s, i) == \E k \in DOMAIN s : IsRead(s, k, i)
Owned(s) == \A k \in DOMAIN s : s[k].kind = "read" => \E i \in Loads : s[k].load = {i}

ReadsHold ==
    /\ Owned(writes)
    /\ \A i \in Loads :
          /\ ReadsOf(writes, i)
          /\ Awaits(writes, i) <=> loads[i].step = "offline"

\* Locks and skips have the request they wait for.
LocksHold ==
    /\ screen.loading => LoadsRunning # {}
    /\ screen.processing => \E e \in Senders : InFlight(e)
    /\ \A r \in Decisions : record[r].step = "cancel" => InFlight(r)

IInv == TypeOK /\ SignalsHold /\ SavedIsShown /\ HeartsHold /\ ReadsHold /\ LocksHold

-----------------------------------------------------------------------------
(* The statements that wait, as sequences. *)

LEMMA StatementFacts ==
    /\ \A t : WriteTrip(t).kind = "write" /\ WriteTrip(t).heart = {}
    /\ \A t : UpdateTrip(t).kind = "update" /\ UpdateTrip(t).heart = {}
    /\ \A n : WriteHeart(n).kind = "heart" /\ WriteHeart(n).heart = {n}
    /\ \A i : ReadTrip(i).kind = "read" /\ ReadTrip(i).heart = {} /\ ReadTrip(i).load = {i}
BY DEF Nothing, WriteTrip, UpdateTrip, WriteHeart, ReadTrip

LEMMA TripFacts == NoTrip \in Trip
BY ClientItineraryAssumption DEF NoTrip, Trip

LEMMA StatementTypes ==
    /\ \A t \in Trip : WriteTrip(t) \in Statement /\ UpdateTrip(t) \in Statement
    /\ \A n \in Nodes : WriteHeart(n) \in Statement
    /\ \A i \in Loads : ReadTrip(i) \in Statement
BY TripFacts DEF Statement, Nothing, WriteTrip, UpdateTrip, WriteHeart, ReadTrip

\* What is appended to and taken from a sequence of statements.
LEMMA Appended ==
    ASSUME NEW s \in Seq(Statement), NEW t \in Statement
    PROVE  /\ Append(s, t) \in Seq(Statement)
           /\ DOMAIN s = 1 .. Len(s) /\ Len(s) \in Nat
           /\ DOMAIN Append(s, t) = 1 .. Len(s) + 1
           /\ \A k \in 1 .. Len(s) : Append(s, t)[k] = s[k]
           /\ Append(s, t)[Len(s) + 1] = t
OBVIOUS

LEMMA Taken ==
    ASSUME NEW s \in Seq(Statement), s # <<>>
    PROVE  /\ Tail(s) \in Seq(Statement) /\ Head(s) = s[1] /\ Head(s) \in Statement
           /\ DOMAIN s = 1 .. Len(s) /\ Len(s) \in Nat \ {0}
           /\ Len(Tail(s)) = Len(s) - 1
           /\ DOMAIN Tail(s) = 1 .. Len(s) - 1
           /\ \A k \in 1 .. Len(s) - 1 : Tail(s)[k] = s[k + 1]
OBVIOUS

\* A statement that reads nothing leaves the reads as they are.
LEMMA AppendOther ==
    ASSUME NEW s \in Seq(Statement), NEW t \in Statement, t.kind # "read", Owned(s)
    PROVE  /\ Owned(Append(s, t))
           /\ \A i : Awaits(Append(s, t), i) <=> Awaits(s, i)
           /\ \A i : ReadsOf(s, i) => ReadsOf(Append(s, t), i)
<1> DEFINE a == Append(s, t)
<1>1. /\ DOMAIN s = 1 .. Len(s) /\ Len(s) \in Nat /\ DOMAIN a = 1 .. Len(s) + 1
      /\ \A k \in 1 .. Len(s) : a[k] = s[k]
      /\ a[Len(s) + 1] = t
  BY Appended
<1> HIDE DEF a
<1>2. \A k \in DOMAIN a : a[k].kind = "read" => k \in DOMAIN s /\ a[k] = s[k]
  BY <1>1
<1>3. \A k \in DOMAIN s : k \in DOMAIN a /\ a[k] = s[k]
  BY <1>1
<1>4. Owned(a)
  BY <1>2 DEF Owned
<1>5. \A i : Awaits(a, i) <=> Awaits(s, i)
  BY <1>2, <1>3 DEF Awaits, IsRead
<1>6. \A i : ReadsOf(s, i) => ReadsOf(a, i)
  BY <1>2 DEF ReadsOf, IsRead
<1> QED BY <1>4, <1>5, <1>6 DEF a

\* A load issues its only read.
LEMMA AppendRead ==
    ASSUME NEW s \in Seq(Statement), NEW i \in Loads, Owned(s), ~Awaits(s, i)
    PROVE  LET a == Append(s, ReadTrip(i)) IN
           /\ Owned(a) /\ Awaits(a, i) /\ ReadsOf(a, i)
           /\ \A j : j # i => (Awaits(a, j) <=> Awaits(s, j))
           /\ \A j : j # i /\ ReadsOf(s, j) => ReadsOf(a, j)
<1> DEFINE a == Append(s, ReadTrip(i))
<1>0. ReadTrip(i) \in Statement /\ ReadTrip(i).kind = "read" /\ ReadTrip(i).load = {i}
  BY StatementTypes, StatementFacts
<1>1. /\ DOMAIN s = 1 .. Len(s) /\ Len(s) \in Nat /\ DOMAIN a = 1 .. Len(s) + 1
      /\ \A k \in 1 .. Len(s) : a[k] = s[k]
      /\ a[Len(s) + 1] = ReadTrip(i)
  BY <1>0, Appended
<1> HIDE DEF a
<1>2. \A k \in DOMAIN a : (k \in DOMAIN s /\ a[k] = s[k]) \/ (k = Len(s) + 1 /\ a[k].load = {i})
  BY <1>0, <1>1
<1>3. \A k \in DOMAIN s : k \in DOMAIN a /\ a[k] = s[k]
  BY <1>1
<1>4. Owned(a)
  BY <1>2 DEF Owned
<1>5. Awaits(a, i)
  <2>1. Len(s) + 1 \in DOMAIN a /\ IsRead(a, Len(s) + 1, i)
    BY <1>0, <1>1 DEF IsRead
  <2> QED BY <2>1 DEF Awaits
<1>6. ReadsOf(a, i)
  BY <1>2 DEF ReadsOf, Awaits, IsRead
<1>7. \A j : j # i => (Awaits(a, j) <=> Awaits(s, j))
  BY <1>2, <1>3 DEF Awaits, IsRead
<1>8. \A j : j # i /\ ReadsOf(s, j) => ReadsOf(a, j)
  BY <1>2 DEF ReadsOf, IsRead
<1> QED BY <1>4, <1>5, <1>6, <1>7, <1>8 DEF a

\* What the head of the queue does to the reads behind it.
LEMMA TakeHead ==
    ASSUME NEW s \in Seq(Statement), s # <<>>, Owned(s)
    PROVE  /\ Owned(Tail(s))
           /\ \A i : ReadsOf(s, i) => ReadsOf(Tail(s), i)
           /\ \A i : ~IsRead(s, 1, i) => (Awaits(Tail(s), i) <=> Awaits(s, i))
           /\ \A i : IsRead(s, 1, i) /\ ReadsOf(s, i) => ~Awaits(Tail(s), i)
<1> DEFINE t == Tail(s)
<1>1. /\ DOMAIN s = 1 .. Len(s) /\ Len(s) \in Nat \ {0} /\ DOMAIN t = 1 .. Len(s) - 1
      /\ \A k \in 1 .. Len(s) - 1 : t[k] = s[k + 1]
  BY Taken
<1> HIDE DEF t
<1>2. \A k \in DOMAIN t : k \in Nat /\ k + 1 \in DOMAIN s /\ k + 1 # 1 /\ t[k] = s[k + 1]
  BY <1>1
<1>3. \A k \in DOMAIN s : k = 1 \/ \E l \in DOMAIN t : t[l] = s[k]
  <2> TAKE k \in DOMAIN s
  <2>1. CASE k # 1
    <3>1. k - 1 \in DOMAIN t /\ (k - 1) + 1 = k
      BY <1>1, <2>1
    <3> QED BY <1>2, <3>1
  <2> QED BY <2>1
<1>4. Owned(t)
  BY <1>2 DEF Owned
<1>5. \A i : ReadsOf(s, i) => ReadsOf(t, i)
  <2> TAKE i
  <2> SUFFICES ASSUME ReadsOf(s, i), NEW k \in DOMAIN t, NEW l \in DOMAIN t, IsRead(t, k, i), IsRead(t, l, i)
               PROVE  k = l
    BY DEF ReadsOf
  <2>1. IsRead(s, k + 1, i) /\ IsRead(s, l + 1, i)
    BY <1>2 DEF IsRead
  <2>2. k + 1 = l + 1
    BY <1>2, <2>1 DEF ReadsOf
  <2> QED BY <1>2, <2>2
<1>6. \A i : ~IsRead(s, 1, i) => (Awaits(t, i) <=> Awaits(s, i))
  <2> TAKE i
  <2> HAVE ~IsRead(s, 1, i)
  <2>1. Awaits(t, i) => Awaits(s, i)
    BY <1>2 DEF Awaits, IsRead
  <2>2. Awaits(s, i) => Awaits(t, i)
    BY <1>3 DEF Awaits, IsRead
  <2> QED BY <2>1, <2>2
<1>7. \A i : IsRead(s, 1, i) /\ ReadsOf(s, i) => ~Awaits(t, i)
  <2> TAKE i
  <2> SUFFICES ASSUME IsRead(s, 1, i), ReadsOf(s, i), NEW k \in DOMAIN t, IsRead(t, k, i)
               PROVE  FALSE
    BY DEF Awaits
  <2>1. IsRead(s, k + 1, i) /\ 1 \in DOMAIN s
    BY <1>1, <1>2 DEF IsRead
  <2> QED BY <1>2, <2>1 DEF ReadsOf
<1> QED BY <1>4, <1>5, <1>6, <1>7 DEF t

-----------------------------------------------------------------------------
(* The records of the state. *)

\* What a reload can carry over.
Carried(s) == s.outcomes \subseteq Nodes /\ s.recording \subseteq Nodes /\ s.loved \subseteq Nodes

LEMMA BlankFields ==
    /\ Blank \in ItineraryState /\ Carried(Blank)
    /\ Blank.loading /\ ~Blank.error /\ ~Blank.processing
    /\ Blank.outcomes = {} /\ Blank.recording = {} /\ Blank.loved = {}
BY TripFacts DEF Blank, ItineraryState, Carried

LEMMA NoLoadFields ==
    /\ NoLoad \in Load /\ OldLoad \in Load
    /\ NoLoad.step = "unused" /\ OldLoad.step = "done"
    /\ NoLoad.outcomes = {} /\ OldLoad.outcomes = {}
BY TripFacts DEF NoLoad, OldLoad, Load

LEMMA EventFields ==
    /\ NoEvent \in Event /\ NoEvent.step = "idle" /\ NoEvent.heard
    /\ \A target \in SUBSET Nodes :
          Sent(target) \in Event /\ Sent(target).step = "sent" /\ Sent(target).heard
BY TripFacts DEF Sent, NoEvent, Event

LEMMA RecordingFields == NoRecording \in Recording /\ NoRecording.step = "idle" /\ NoRecording.stop = {}
BY DEF NoRecording, Recording

LEMMA ReloadingFields ==
    ASSUME NEW s, Carried(s)
    PROVE  LET r == Reloading(s) IN
           /\ r \in ItineraryState /\ r.trip = NoTrip
           /\ r.loading /\ ~r.error /\ ~r.processing
           /\ r.outcomes = s.outcomes /\ r.recording = s.recording /\ r.loved = s.loved
BY TripFacts DEF Reloading, Blank, ItineraryState, Carried

LEMMA StartedFields ==
    ASSUME NEW s, Carried(s)
    PROVE  LET l == Started(s) IN
           /\ l \in Load /\ l.step = "fetch"
           /\ l.outcomes = s.outcomes /\ l.recording = s.recording /\ l.loved = s.loved
BY TripFacts DEF Started, NoLoad, Load, Carried

LEMMA FailedFields ==
    ASSUME NEW l \in Load
    PROVE  LET r == [Reloading(l) EXCEPT !.loading = FALSE, !.error = TRUE] IN
           /\ r \in ItineraryState /\ ~r.loading /\ r.error /\ ~r.processing
           /\ r.outcomes = l.outcomes /\ r.loved = l.loved
<1>1. Carried(l)
  BY DEF Carried, Load
<1>2. Reloading(l) \in ItineraryState /\ Reloading(l).outcomes = l.outcomes /\ ~Reloading(l).processing
      /\ Reloading(l).loved = l.loved
  BY <1>1, ReloadingFields
<1> QED BY <1>2 DEF ItineraryState

LEMMA RestoredFields ==
    ASSUME NEW l \in Load, NEW outcomes \in SUBSET Nodes
    PROVE  LET r == Restored(l, outcomes) IN
           /\ r \in ItineraryState /\ ~r.loading /\ ~r.error /\ ~r.processing
           /\ r.outcomes = outcomes \cup l.outcomes /\ r.loved = l.loved \cup l.found
<1>1. Carried(l) /\ l.trip \in Trip /\ l.found \subseteq Nodes
  BY DEF Carried, Load
<1>2. LET r == Reloading(l) IN
      /\ r \in ItineraryState /\ r.outcomes = l.outcomes
      /\ r.loved = l.loved /\ ~r.error /\ ~r.processing
  BY <1>1, ReloadingFields
<1> QED BY <1>1, <1>2 DEF ItineraryState, Restored

LEMMA FinishFields ==
    ASSUME NEW s \in ItineraryState, NEW stop
    PROVE  LET r == Finish(s, stop) IN
           /\ r \in ItineraryState /\ r.trip = s.trip /\ r.loading = s.loading /\ r.error = s.error
           /\ r.processing = s.processing /\ r.outcomes = s.outcomes /\ r.loved = s.loved
BY DEF Finish, ItineraryState

LEMMA FinishedTypes ==
    ASSUME record \in [Decisions -> Recording], NEW done
    PROVE  /\ Finished(done) \in [Decisions -> Recording]
           /\ \A r \in Decisions : Finished(done)[r] = IF r \in done THEN NoRecording ELSE record[r]
BY RecordingFields DEF Finished

-----------------------------------------------------------------------------
(* What each action does to the runs, field by field. *)

Loaded(i) == loads' \in [Loads -> Load] /\ \A j \in Loads : j # i => loads'[j] = loads[j]
Evented(e) == events' \in [Senders -> Event] /\ \A f \in Senders : f # e => events'[f] = events[f]
Recorded(r) == record' \in [Decisions -> Recording] /\ \A d \in Decisions : d # r => record'[d] = record[d]

\* What a load remembers while it runs.
Remembers(i) == loads'[i].outcomes = loads[i].outcomes /\ loads'[i].loved = loads[i].loved

\* What of the screen an event or a recording leaves alone.
SameFace == screen'.loading = screen.loading /\ screen'.error = screen.error /\ screen'.loved = screen.loved

LEMMA ReloadEffect ==
    ASSUME TypeOK, NEW i \in Loads, Reload(i)
    PROVE  /\ Loaded(i) /\ loads[i].step = "unused" /\ loads'[i].step = "fetch"
           /\ loads'[i].outcomes = screen.outcomes /\ loads'[i].loved = screen.loved
           /\ screen' \in ItineraryState /\ screen'.loading /\ ~screen'.error /\ ~screen'.processing
           /\ screen'.outcomes = screen.outcomes /\ screen'.loved = screen.loved
<1>1. Carried(screen)
  BY DEF TypeOK, ItineraryState, Carried
<1>2. LET l == Started(screen) IN l \in Load /\ l.step = "fetch" /\ l.outcomes = screen.outcomes /\ l.loved = screen.loved
  BY <1>1, StartedFields
<1>3. Loaded(i) /\ loads'[i] = Started(screen)
  BY <1>2 DEF TypeOK, Reload, Loaded
<1>4. screen' = Reloading(screen) /\ loads[i].step = "unused"
  BY NoLoadFields DEF Reload, UnusedLoad
<1> QED BY <1>1, <1>2, <1>3, <1>4, ReloadingFields

LEMMA ServeEffect ==
    ASSUME TypeOK, NEW i \in Loads, Serve(i)
    PROVE  Loaded(i) /\ loads[i].step = "fetch" /\ loads'[i].step = "served" /\ Remembers(i)
<1>1. server \in Trip /\ loads[i] \in Load /\ loads \in [Loads -> Load]
  BY DEF TypeOK
<1> QED BY <1>1 DEF Serve, Loaded, Load, Remembers

LEMMA ArriveEffect ==
    ASSUME TypeOK, NEW i \in Loads, Arrive(i)
    PROVE  Loaded(i) /\ loads[i].step = "served" /\ loads'[i].step = "hearts" /\ Remembers(i)
<1>1. loads[i] \in Load /\ loads \in [Loads -> Load]
  BY DEF TypeOK
<1> QED BY <1>1 DEF Arrive, Loaded, Load, Remembers

LEMMA LoadFailsEffect ==
    ASSUME TypeOK, NEW i \in Loads, LoadFails(i)
    PROVE  Loaded(i) /\ loads[i].step \in {"fetch", "served"} /\ loads'[i].step = "offline" /\ Remembers(i)
<1>1. loads[i] \in Load /\ loads \in [Loads -> Load]
  BY DEF TypeOK
<1> QED BY <1>1, TripFacts DEF LoadFails, Loaded, Load, Remembers

LEMMA RestoreLovedRefsEffect ==
    ASSUME TypeOK, NEW i \in Loads, RestoreLovedRefs(i)
    PROVE  Loaded(i) /\ loads[i].step = "hearts" /\ loads'[i].step = "outcomes" /\ Remembers(i)
<1>1. loads[i] \in Load /\ loads \in [Loads -> Load] /\ hearts \subseteq Nodes
  BY DEF TypeOK
<1> PICK found \in {hearts, {}} : loads' = [loads EXCEPT ![i].step = "outcomes", ![i].found = found]
  BY DEF RestoreLovedRefs
<1> QED BY <1>1 DEF RestoreLovedRefs, Loaded, Load, Remembers

LEMMA RestoreNodeOutcomesEffect ==
    ASSUME TypeOK, NEW i \in Loads, RestoreNodeOutcomes(i)
    PROVE  /\ Loaded(i) /\ loads[i].step = "outcomes" /\ loads'[i].step = "done" /\ loads'[i].outcomes = {}
           /\ screen' \in ItineraryState /\ ~screen'.loading /\ ~screen'.error /\ ~screen'.processing
           /\ loads[i].loved \subseteq screen'.loved
           /\ screen'.outcomes \subseteq saved \cup loads[i].outcomes
           /\ unread' \in BOOLEAN /\ (~unread' => saved \subseteq screen'.outcomes)
<1>1. loads \in [Loads -> Load] /\ loads[i] \in Load /\ saved \in SUBSET Nodes /\ {} \in SUBSET Nodes
  BY DEF TypeOK
<1>2. Loaded(i) /\ loads[i].step = "outcomes" /\ loads'[i] = OldLoad
  BY <1>1, NoLoadFields DEF RestoreNodeOutcomes, Loaded
<1>3. \/ screen' = Restored(loads[i], saved) /\ unread' = FALSE
      \/ screen' = Restored(loads[i], {}) /\ unread' = TRUE
  BY DEF RestoreNodeOutcomes
<1>4. CASE screen' = Restored(loads[i], saved) /\ unread' = FALSE
  BY <1>1, <1>2, <1>4, NoLoadFields, RestoredFields
<1>5. CASE screen' = Restored(loads[i], {}) /\ unread' = TRUE
  BY <1>1, <1>2, <1>5, NoLoadFields, RestoredFields
<1> QED BY <1>3, <1>4, <1>5

LEMMA ReadEffect ==
    ASSUME TypeOK, NEW i \in Loads, NEW row \in SUBSET Trip, CachedTripRead(i, row)
    PROVE  /\ Loaded(i)
           /\ \/ loads'[i].step = "hearts" /\ Remembers(i) /\ screen' = screen
              \/ /\ loads'[i].step = "done" /\ loads'[i].outcomes = {}
                 /\ screen' \in ItineraryState /\ ~screen'.loading /\ screen'.error /\ ~screen'.processing
                 /\ screen'.outcomes = loads[i].outcomes /\ screen'.loved = loads[i].loved
<1>1. loads[i] \in Load /\ loads \in [Loads -> Load]
  BY DEF TypeOK
<1>2. CASE /\ \E trip \in row : loads' = [loads EXCEPT ![i].step = "hearts", ![i].trip = trip]
           /\ screen' = screen
  <2>1. PICK trip \in row : loads' = [loads EXCEPT ![i].step = "hearts", ![i].trip = trip]
    BY <1>2
  <2>2. trip \in Trip
    OBVIOUS
  <2> QED BY <1>1, <1>2, <2>1, <2>2 DEF Loaded, Load, Remembers
<1>3. CASE /\ loads' = [loads EXCEPT ![i] = OldLoad]
           /\ screen' = [Reloading(loads[i]) EXCEPT !.loading = FALSE, !.error = TRUE]
  BY <1>1, <1>3, NoLoadFields, FailedFields DEF Loaded
<1> QED BY <1>2, <1>3 DEF CachedTripRead

LEMMA RelaunchEffect ==
    ASSUME TypeOK, NEW i \in Loads, Relaunch(i)
    PROVE  /\ loads' \in [Loads -> Load] /\ loads'[i].step = "fetch" /\ loads'[i].outcomes = {}
           /\ \A j \in Loads : j # i => loads'[j].step \in {"unused", "done"} /\ loads'[j].outcomes = {}
           /\ events' \in [Senders -> Event]
           /\ record' \in [Decisions -> Recording] /\ \A r \in Decisions : record'[r].step = "idle"
<1>1. Started(Blank) \in Load /\ Started(Blank).step = "fetch" /\ Started(Blank).outcomes = {}
  BY BlankFields, StartedFields
<1>2. /\ loads' = [j \in Loads |->
                     IF j = i THEN Started(Blank) ELSE IF loads[j] = NoLoad THEN NoLoad ELSE OldLoad]
      /\ record' = [r \in Decisions |-> NoRecording]
      /\ events' = [e \in Senders |->
                      IF events[e].step = "sent" THEN [events[e] EXCEPT !.heard = FALSE] ELSE NoEvent]
  BY DEF Relaunch
<1>3. \A e \in Senders : events'[e] \in Event
  <2> TAKE e \in Senders
  <2>1. events[e] \in Event
    BY DEF TypeOK
  <2> QED BY <1>2, <2>1, EventFields DEF Event
<1>4. events' \in [Senders -> Event]
  BY <1>2, <1>3
<1>5. record' \in [Decisions -> Recording] /\ \A r \in Decisions : record'[r].step = "idle"
  BY <1>2, RecordingFields
<1>6. /\ loads' \in [Loads -> Load] /\ loads'[i].step = "fetch" /\ loads'[i].outcomes = {}
      /\ \A j \in Loads : j # i => loads'[j].step \in {"unused", "done"} /\ loads'[j].outcomes = {}
  BY <1>1, <1>2, NoLoadFields
<1> QED BY <1>4, <1>5, <1>6

LEMMA ApplyEventEffect ==
    ASSUME TypeOK, NEW e \in Screens, NEW target \in SUBSET Nodes, ApplyEvent(e, target)
    PROVE  /\ Evented(e) /\ events[e].step = "idle" /\ events'[e].step = "sent" /\ events'[e].heard
           /\ screen' \in ItineraryState /\ SameFace /\ screen'.processing
           /\ screen'.outcomes = screen.outcomes
<1>1. screen \in ItineraryState /\ events \in [Senders -> Event] /\ e \in Senders
  BY DEF TypeOK, Senders
<1>2. Evented(e) /\ events[e].step = "idle" /\ events'[e].step = "sent" /\ events'[e].heard
  BY <1>1, EventFields DEF ApplyEvent, Evented
<1> QED BY <1>1, <1>2 DEF ApplyEvent, ItineraryState, SameFace

LEMMA ServeEventEffect ==
    ASSUME TypeOK, NEW e \in Senders, ServeEvent(e)
    PROVE  server' \in Trip /\ Evented(e) /\ (InFlight(e) => InFlight(e)')
<1>1. events[e] \in Event /\ events \in [Senders -> Event] /\ server \in Trip
  BY DEF TypeOK
<1>2. server' \in Trip
  BY <1>1, ClientItineraryAssumption DEF ServeEvent, Trip, Event
<1>3. PICK listed \in {TRUE} \cup {events[e].target # {}} :
          events' = [events EXCEPT ![e] =
                        IF @.heard
                        THEN [@ EXCEPT !.step = "answered", !.listed = listed, !.trip = server']
                        ELSE NoEvent]
  BY DEF ServeEvent
<1>4. listed \in BOOLEAN
  OBVIOUS
<1>5. events'[e] = IF events[e].heard
                   THEN [events[e] EXCEPT !.step = "answered", !.listed = listed, !.trip = server']
                   ELSE NoEvent
  BY <1>1, <1>3
<1>6. events'[e] \in Event /\ (InFlight(e) => InFlight(e)')
  <2>1. CASE events[e].heard
    <3>1. events'[e] = [events[e] EXCEPT !.step = "answered", !.listed = listed, !.trip = server']
      BY <1>5, <2>1
    <3>2. events'[e].heard /\ events'[e].step = "answered" /\ events'[e] \in Event
      BY <1>1, <1>2, <1>4, <2>1, <3>1 DEF Event
    <3> QED BY <3>2 DEF InFlight
  <2>2. CASE ~events[e].heard
    BY <1>5, <2>2, EventFields DEF InFlight
  <2> QED BY <2>1, <2>2
<1>7. Evented(e)
  BY <1>1, <1>3, <1>5, <1>6 DEF Evented
<1> QED BY <1>2, <1>6, <1>7

LEMMA RefuseEventEffect ==
    ASSUME TypeOK, NEW e \in Senders, RefuseEvent(e)
    PROVE  Evented(e) /\ (InFlight(e) => InFlight(e)')
<1>1. events[e] \in Event /\ events \in [Senders -> Event]
  BY DEF TypeOK
<1>2. events' = [events EXCEPT ![e] = IF @.heard THEN [@ EXCEPT !.step = "refused"] ELSE NoEvent]
  BY DEF RefuseEvent
<1>3. events'[e] = IF events[e].heard THEN [events[e] EXCEPT !.step = "refused"] ELSE NoEvent
  BY <1>1, <1>2
<1>4. events'[e] \in Event /\ (InFlight(e) => InFlight(e)')
  BY <1>1, <1>3, EventFields DEF Event, InFlight
<1> QED BY <1>1, <1>2, <1>4 DEF Evented

LEMMA EndsEffect ==
    ASSUME TypeOK, NEW e \in Senders, NEW s \in ItineraryState, Ends(e, s)
    PROVE  /\ Evented(e) /\ Recorded(e) /\ (e \in Decisions => record'[e].step = "idle")
           /\ screen' \in ItineraryState /\ ~screen'.processing
           /\ screen'.loading = s.loading /\ screen'.error = s.error /\ screen'.loved = s.loved
           /\ screen'.outcomes = s.outcomes
<1>1. events \in [Senders -> Event] /\ record \in [Decisions -> Recording]
  BY DEF TypeOK
<1>2. Evented(e)
  BY <1>1, EventFields DEF Ends, Evented
<1>3. Recorded(e) /\ (e \in Decisions => record'[e].step = "idle")
  BY <1>1, FinishedTypes, RecordingFields DEF Ends, Recorded
<1> DEFINE t == [s EXCEPT !.processing = FALSE]
<1>4. /\ t \in ItineraryState /\ ~t.processing
      /\ t.loading = s.loading /\ t.error = s.error /\ t.loved = s.loved /\ t.outcomes = s.outcomes
  BY DEF ItineraryState
<1>5. \E stop : screen' = Finish(t, stop)
  BY DEF Ends
<1> HIDE DEF t
<1> QED BY <1>2, <1>3, <1>4, <1>5, FinishFields

LEMMA RecordEffect ==
    ASSUME TypeOK, NEW r \in Decisions, NEW skipped \in BOOLEAN, Record(r, skipped)
    PROVE  /\ Recorded(r) /\ record'[r].step \in {"idle", "emit"}
           /\ screen' \in ItineraryState /\ SameFace
           /\ screen'.outcomes = screen.outcomes /\ screen'.processing = screen.processing
<1>1. screen \in ItineraryState /\ record \in [Decisions -> Recording] /\ sheet \subseteq Nodes /\ record[r].step = "idle"
  BY RecordingFields DEF TypeOK, Record, IdleDecision
<1>2. CASE /\ record' = [record EXCEPT ![r] = [step |-> "emit", stop |-> sheet, skipped |-> skipped]]
           /\ screen' = [screen EXCEPT !.recording = @ \cup sheet]
  <2>1. [step |-> "emit", stop |-> sheet, skipped |-> skipped] \in Recording
    BY <1>1 DEF Recording
  <2>2. Recorded(r) /\ record'[r].step = "emit"
    BY <1>1, <1>2, <2>1 DEF Recorded
  <2> QED BY <1>1, <1>2, <2>2 DEF ItineraryState, SameFace
<1>3. CASE UNCHANGED <<record, screen>>
  BY <1>1, <1>3 DEF Recorded, SameFace
<1> QED BY <1>2, <1>3 DEF Record

LEMMA EmitEffect ==
    ASSUME TypeOK, NEW r \in Decisions, Emit(r)
    PROVE  Recorded(r) /\ record'[r].step = "persist" /\ record'[r].stop = record[r].stop /\ record[r].stop \subseteq Nodes
<1>1. record \in [Decisions -> Recording] /\ record[r] \in Recording
  BY DEF TypeOK
<1> QED BY <1>1 DEF Emit, Recording, Recorded

LEMMA EmitFailsEffect ==
    ASSUME TypeOK, NEW r \in Decisions, EmitFails(r)
    PROVE  /\ Recorded(r) /\ record'[r].step = "idle"
           /\ screen' \in ItineraryState /\ SameFace
           /\ screen'.outcomes = screen.outcomes /\ screen'.processing = screen.processing
<1>1. screen \in ItineraryState /\ record \in [Decisions -> Recording]
  BY DEF TypeOK
<1>2. Recorded(r) /\ record'[r].step = "idle"
  BY <1>1, RecordingFields DEF EmitFails, Recorded
<1> QED BY <1>1, <1>2, FinishFields DEF EmitFails, SameFace

\* Either the skip goes on as an event of its own, or the recording ends.
LEMMA AcknowledgeEffect ==
    ASSUME TypeOK, NEW r \in Decisions, Acknowledge(r)
    PROVE  /\ Recorded(r) /\ screen' \in ItineraryState /\ SameFace /\ record[r].stop \subseteq Nodes
           /\ screen'.outcomes = screen.outcomes \cup record[r].stop
           /\ \/ /\ record'[r].step = "cancel" /\ screen'.processing
                 /\ Evented(r) /\ events'[r].step = "sent" /\ events'[r].heard
              \/ /\ record'[r].step = "idle" /\ screen'.processing = screen.processing
                 /\ events' = events
<1>1. /\ screen \in ItineraryState /\ record \in [Decisions -> Recording] /\ record[r] \in Recording
      /\ events \in [Senders -> Event] /\ r \in Senders
  BY DEF TypeOK, Senders
<1>2. record[r].stop \in SUBSET Nodes
  BY <1>1 DEF Recording
<1> DEFINE s == [screen EXCEPT !.outcomes = @ \cup record[r].stop]
<1>3. /\ s \in ItineraryState /\ s.processing = screen.processing
      /\ s.trip = screen.trip /\ s.loading = screen.loading /\ s.error = screen.error
      /\ s.outcomes = screen.outcomes \cup record[r].stop /\ s.loved = screen.loved
  BY <1>1, <1>2 DEF ItineraryState
<1>4. CASE /\ screen' = [s EXCEPT !.processing = TRUE]
           /\ events' = [events EXCEPT ![r] = Sent(record[r].stop)]
           /\ record' = [record EXCEPT ![r].step = "cancel"]
  <2>1. Evented(r) /\ events'[r].step = "sent" /\ events'[r].heard
    BY <1>1, <1>2, <1>4, EventFields DEF Evented
  <2>2. Recorded(r) /\ record'[r].step = "cancel"
    BY <1>1, <1>4 DEF Recording, Recorded
  <2> HIDE DEF s
  <2>3. /\ screen' \in ItineraryState /\ screen'.processing
        /\ screen'.loading = s.loading /\ screen'.error = s.error
        /\ screen'.outcomes = s.outcomes /\ screen'.loved = s.loved
    BY <1>3, <1>4 DEF ItineraryState
  <2> QED BY <1>2, <1>3, <2>1, <2>2, <2>3 DEF SameFace
<1>5. CASE /\ screen' = Finish(s, record[r].stop)
           /\ record' = [record EXCEPT ![r] = NoRecording]
           /\ UNCHANGED events
  <2>1. Recorded(r) /\ record'[r].step = "idle"
    BY <1>1, <1>5, RecordingFields DEF Recorded
  <2> HIDE DEF s
  <2>2. LET t == Finish(s, record[r].stop) IN
        /\ t \in ItineraryState /\ t.loading = s.loading /\ t.error = s.error
        /\ t.processing = s.processing /\ t.outcomes = s.outcomes /\ t.loved = s.loved
    BY <1>3, FinishFields
  <2> QED BY <1>2, <1>3, <1>5, <2>1, <2>2 DEF SameFace
<1> QED BY <1>4, <1>5 DEF Acknowledge

LEMMA MarkLovedEffect ==
    ASSUME TypeOK, NEW n \in Nodes, MarkLoved(n)
    PROVE  /\ screen' \in ItineraryState /\ screen'.loved = screen.loved \cup {n}
           /\ screen'.loading = screen.loading /\ screen'.error = screen.error
           /\ screen'.processing = screen.processing /\ screen'.outcomes = screen.outcomes
           /\ ~screen.loading
<1>1. screen \in ItineraryState
  BY DEF TypeOK
<1> QED BY <1>1 DEF MarkLoved, Shown, ItineraryState


-----------------------------------------------------------------------------
(* What a step leaves as it is. *)

LEMMA ReadsSame ==
    ASSUME ReadsHold, writes' = writes,
           \A j \in Loads : loads'[j].step = "offline" <=> loads[j].step = "offline"
    PROVE  ReadsHold'
BY DEF ReadsHold, Owned, ReadsOf, Awaits, IsRead

LEMMA ReadsIssued ==
    ASSUME TypeOK, ReadsHold, NEW t \in Statement, t.kind # "read", writes' = Append(writes, t),
           \A j \in Loads : loads'[j].step = "offline" <=> loads[j].step = "offline"
    PROVE  ReadsHold'
<1>1. writes \in Seq(Statement) /\ Owned(writes)
  BY DEF TypeOK, ReadsHold
<1>2. /\ Owned(writes')
      /\ \A i : Awaits(writes', i) <=> Awaits(writes, i)
      /\ \A i : ReadsOf(writes, i) => ReadsOf(writes', i)
  BY <1>1, AppendOther
<1>3. \A i \in Loads :
          /\ ReadsOf(writes', i)
          /\ Awaits(writes', i) <=> loads'[i].step = "offline"
  BY <1>2 DEF ReadsHold
<1> QED BY <1>2, <1>3 DEF ReadsHold, Owned, ReadsOf, Awaits, IsRead

\* The hearts of the loads that run and of the screen are untouched.
LEMMA HeartsSame ==
    ASSUME HeartsHold, overlapped' = overlapped, screen'.loading = screen.loading, screen'.loved = screen.loved,
           \A j \in LoadsRunning' : j \in LoadsRunning /\ loads'[j].loved = loads[j].loved
    PROVE  HeartsHold'
BY DEF HeartsHold, LoadAlone, LoadsRunning

\* No load runs any more, if it ran alone.
LEMMA HeartsEnd ==
    ASSUME HeartsHold, overlapped' = overlapped, NEW i \in LoadsRunning,
           i \notin LoadsRunning', \A j \in LoadsRunning' : j \in LoadsRunning
    PROVE  HeartsHold'
<1>1. ~overlapped => \A j \in LoadsRunning' : FALSE
  BY DEF HeartsHold, LoadAlone
<1> QED BY <1>1 DEF HeartsHold

\* No request ends and nothing starts to wait for one.
LEMMA LocksSame ==
    ASSUME LocksHold, events' = events, screen'.processing = screen.processing \/ ~screen'.processing,
           screen'.loading => LoadsRunning' # {},
           \A r \in Decisions : record'[r].step = "cancel" => record[r].step = "cancel"
    PROVE  LocksHold'
BY DEF LocksHold, InFlight

LEMMA SignalsSame ==
    ASSUME SignalsHold, emitted' = emitted, saved' = saved, screen'.outcomes = screen.outcomes,
           \A i \in Loads : loads'[i].outcomes = loads[i].outcomes,
           \A r \in Decisions : record'[r].step = "persist" => record'[r] = record[r]
    PROVE  SignalsHold'
BY DEF SignalsHold, OutcomeIsEmitted

LEMMA ShownSame ==
    ASSUME SavedIsShown, saved' = saved, unread' = unread, SameFace, screen'.outcomes = screen.outcomes
    PROVE  SavedIsShown'
BY DEF SavedIsShown, Shown, SameFace

\* A step of a load that runs on.
LEMMA LoadGoesOn ==
    ASSUME IInv, NEW i \in Loads, Loaded(i), i \in LoadsRunning, i \in LoadsRunning', Remembers(i),
           UNCHANGED <<screen, events, record, emitted, saved, overlapped, unread>>
    PROVE  SignalsHold' /\ SavedIsShown' /\ HeartsHold' /\ LocksHold'
<1>1. \A j \in Loads : loads'[j].outcomes = loads[j].outcomes /\ loads'[j].loved = loads[j].loved
  BY DEF Loaded, Remembers
<1>2. \A j \in Loads : j \in LoadsRunning' <=> j \in LoadsRunning
  BY DEF Loaded, LoadsRunning
<1>3. SignalsHold'
  BY <1>1, SignalsSame DEF IInv
<1>4. SavedIsShown'
  BY DEF IInv, SavedIsShown, Shown
<1>5. HeartsHold'
  <2>1. \A j \in LoadsRunning' : j \in LoadsRunning /\ loads'[j].loved = loads[j].loved
    BY <1>1, <1>2 DEF LoadsRunning
  <2> QED BY <2>1, HeartsSame DEF IInv
<1>6. LocksHold'
  BY LocksSame DEF IInv
<1> QED BY <1>3, <1>4, <1>5, <1>6

-----------------------------------------------------------------------------
(* Steps of load(). *)

LEMMA ReloadInv ==
    ASSUME IInv, NEW i \in Loads, Reload(i)
    PROVE  IInv'
<1>1. TypeOK
  BY DEF IInv
<1>2. /\ Loaded(i) /\ loads[i].step = "unused" /\ loads'[i].step = "fetch"
      /\ loads'[i].outcomes = screen.outcomes /\ loads'[i].loved = screen.loved
      /\ screen' \in ItineraryState /\ screen'.loading /\ ~screen'.error /\ ~screen'.processing
      /\ screen'.outcomes = screen.outcomes /\ screen'.loved = screen.loved
  BY <1>1, ReloadEffect
<1>3. /\ UNCHANGED <<server, sheet, events, record, writes, saved, hearts, cached, emitted, kills, failures, unread>>
      /\ overlapped' = (LoadsRunning # {})
  BY DEF Reload, disk
<1>4. TypeOK'
  BY <1>1, <1>2, <1>3 DEF TypeOK, Loaded
<1>5. SignalsHold'
  BY <1>2, <1>3 DEF IInv, SignalsHold, OutcomeIsEmitted, Loaded
<1>6. SavedIsShown'
  BY <1>2 DEF SavedIsShown, Shown
<1>7. i \in LoadsRunning' /\ \A j \in LoadsRunning' : j = i \/ j \in LoadsRunning
  BY <1>2 DEF LoadsRunning, Loaded
<1>8. HeartsHold'
  <2>1. ~overlapped' => \A j \in LoadsRunning' : j = i
    BY <1>3, <1>7
  <2> QED BY <1>2, <2>1 DEF HeartsHold, LoadAlone
<1>9. ReadsHold'
  BY <1>2, <1>3, ReadsSame DEF IInv, Loaded
<1>10. LocksHold'
  BY <1>2, <1>3, <1>7, LocksSame DEF IInv
<1> QED BY <1>4, <1>5, <1>6, <1>8, <1>9, <1>10 DEF IInv

LEMMA ServeInv ==
    ASSUME IInv, NEW i \in Loads, Serve(i) \/ Arrive(i) \/ RestoreLovedRefs(i)
    PROVE  IInv'
<1>1. TypeOK
  BY DEF IInv
<1>2. Loaded(i) /\ Remembers(i) /\ loads[i].step \in {"fetch", "served", "hearts"}
      /\ loads'[i].step \in {"served", "hearts", "outcomes"}
  BY <1>1, ServeEffect, ArriveEffect, RestoreLovedRefsEffect
<1>3. UNCHANGED <<server, screen, sheet, events, record, writes, saved, hearts, cached, emitted, kills, overlapped, unread>>
  BY DEF Serve, Arrive, RestoreLovedRefs, disk, ghost
<1>4. failures' \in 0 .. MaxFailures
  BY <1>1, ClientItineraryAssumption DEF Serve, Arrive, RestoreLovedRefs, ghost, Fails, TypeOK
<1>5. TypeOK'
  BY <1>1, <1>2, <1>3, <1>4 DEF TypeOK, Loaded
<1>6. i \in LoadsRunning /\ i \in LoadsRunning'
  BY <1>2 DEF LoadsRunning
<1>7. SignalsHold' /\ SavedIsShown' /\ HeartsHold' /\ LocksHold'
  BY <1>2, <1>3, <1>6, LoadGoesOn
<1>8. ReadsHold'
  BY <1>2, <1>3, ReadsSame DEF IInv, Loaded
<1> QED BY <1>5, <1>7, <1>8 DEF IInv

LEMMA LoadFailsInv ==
    ASSUME IInv, NEW i \in Loads, LoadFails(i)
    PROVE  IInv'
<1>1. TypeOK
  BY DEF IInv
<1>2. Loaded(i) /\ loads[i].step \in {"fetch", "served"} /\ loads'[i].step = "offline" /\ Remembers(i)
  BY <1>1, LoadFailsEffect
<1>3. /\ UNCHANGED <<server, screen, sheet, events, record, saved, hearts, cached, emitted, kills, overlapped, unread>>
      /\ writes' = Append(writes, ReadTrip(i))
  BY DEF LoadFails, disk
<1>4. failures' \in 0 .. MaxFailures
  BY <1>1, ClientItineraryAssumption DEF LoadFails, Fails, TypeOK
<1>5. writes' \in Seq(Statement)
  BY <1>1, <1>3, StatementTypes, Appended DEF TypeOK
<1>6. TypeOK'
  BY <1>1, <1>2, <1>3, <1>4, <1>5 DEF TypeOK, Loaded
<1>7. i \in LoadsRunning /\ i \in LoadsRunning'
  BY <1>2 DEF LoadsRunning
<1>8. SignalsHold' /\ SavedIsShown' /\ HeartsHold' /\ LocksHold'
  BY <1>2, <1>3, <1>7, LoadGoesOn
<1>9. ReadsHold'
  <2>1. writes \in Seq(Statement) /\ Owned(writes) /\ ~Awaits(writes, i)
    BY <1>1, <1>2 DEF TypeOK, IInv, ReadsHold
  <2>2. /\ Owned(writes') /\ Awaits(writes', i) /\ ReadsOf(writes', i)
        /\ \A j : j # i => (Awaits(writes', j) <=> Awaits(writes, j))
        /\ \A j : j # i /\ ReadsOf(writes, j) => ReadsOf(writes', j)
    BY <1>3, <2>1, AppendRead
  <2>3. ASSUME NEW j \in Loads
        PROVE  ReadsOf(writes', j) /\ (Awaits(writes', j) <=> loads'[j].step = "offline")
    <3>1. CASE j = i
      BY <1>2, <2>2, <3>1
    <3>2. CASE j # i
      <4>1. loads'[j] = loads[j] /\ ReadsOf(writes, j) /\ (Awaits(writes, j) <=> loads[j].step = "offline")
        BY <1>2, <3>2 DEF Loaded, IInv, ReadsHold
      <4> QED BY <2>2, <3>2, <4>1
    <3> QED BY <3>1, <3>2
  <2> QED BY <2>2, <2>3 DEF ReadsHold, Owned, ReadsOf, Awaits, IsRead
<1> QED BY <1>6, <1>8, <1>9 DEF IInv

LEMMA RestoreNodeOutcomesInv ==
    ASSUME IInv, NEW i \in Loads, RestoreNodeOutcomes(i)
    PROVE  IInv'
<1>1. TypeOK
  BY DEF IInv
<1>2. /\ Loaded(i) /\ loads[i].step = "outcomes" /\ loads'[i].step = "done" /\ loads'[i].outcomes = {}
      /\ screen' \in ItineraryState /\ ~screen'.loading /\ ~screen'.error /\ ~screen'.processing
      /\ screen'.outcomes \subseteq saved \cup loads[i].outcomes
      /\ unread' \in BOOLEAN /\ (~unread' => saved \subseteq screen'.outcomes)
  BY <1>1, RestoreNodeOutcomesEffect
<1>3. /\ UNCHANGED <<server, sheet, events, record, saved, hearts, cached, emitted, kills, overlapped>>
      /\ writes' = IF loads[i].online THEN Append(writes, WriteTrip(loads[i].trip)) ELSE writes
  BY DEF RestoreNodeOutcomes, disk
<1>4. failures' \in 0 .. MaxFailures
  BY <1>1, ClientItineraryAssumption DEF RestoreNodeOutcomes, Fails, TypeOK
<1>5. WriteTrip(loads[i].trip) \in Statement /\ WriteTrip(loads[i].trip).kind # "read"
  BY <1>1, StatementTypes, StatementFacts DEF TypeOK, Load
<1>6. writes' \in Seq(Statement)
  BY <1>1, <1>3, <1>5, Appended DEF TypeOK
<1>7. TypeOK'
  BY <1>1, <1>2, <1>3, <1>4, <1>6 DEF TypeOK, Loaded
<1>8. SignalsHold'
  BY <1>2, <1>3 DEF IInv, SignalsHold, OutcomeIsEmitted, Loaded
<1>9. SavedIsShown'
  BY <1>2, <1>3 DEF SavedIsShown
<1>10. HeartsHold'
  <2>1. i \in LoadsRunning /\ i \notin LoadsRunning' /\ \A j \in LoadsRunning' : j \in LoadsRunning
    BY <1>2 DEF LoadsRunning, Loaded
  <2> QED BY <1>3, <2>1, HeartsEnd DEF IInv
<1>11. ReadsHold'
  <2>1. \A j \in Loads : loads'[j].step = "offline" <=> loads[j].step = "offline"
    BY <1>2 DEF Loaded
  <2>2. CASE loads[i].online
    BY <1>1, <1>3, <1>5, <2>1, <2>2, ReadsIssued DEF IInv
  <2>3. CASE ~loads[i].online
    BY <1>3, <2>1, <2>3, ReadsSame DEF IInv
  <2> QED BY <2>2, <2>3
<1>12. LocksHold'
  BY <1>2, <1>3, LocksSame DEF IInv
<1> QED BY <1>7, <1>8, <1>9, <1>10, <1>11, <1>12 DEF IInv

LEMMA RelaunchInv ==
    ASSUME IInv, NEW i \in Loads, Relaunch(i)
    PROVE  IInv'
<1>1. TypeOK
  BY DEF IInv
<1>2. /\ loads' \in [Loads -> Load] /\ loads'[i].step = "fetch" /\ loads'[i].outcomes = {}
      /\ \A j \in Loads : j # i => loads'[j].step \in {"unused", "done"} /\ loads'[j].outcomes = {}
      /\ events' \in [Senders -> Event]
      /\ record' \in [Decisions -> Recording] /\ \A r \in Decisions : record'[r].step = "idle"
  BY <1>1, RelaunchEffect
<1>3. /\ UNCHANGED <<server, saved, hearts, cached, emitted, failures>>
      /\ screen' = Blank /\ sheet' = {} /\ writes' = <<>> /\ overlapped' = FALSE /\ unread' = FALSE
  BY DEF Relaunch, disk
<1>4. kills' \in 0 .. MaxKills
  BY <1>1, ClientItineraryAssumption DEF Relaunch, TypeOK
<1>5. /\ screen' \in ItineraryState /\ screen'.loading /\ ~screen'.error /\ ~screen'.processing
      /\ screen'.outcomes = {} /\ screen'.loved = {}
  BY <1>3, BlankFields
<1>6. writes' \in Seq(Statement) /\ DOMAIN writes' = {}
  BY <1>3
<1>7. TypeOK'
  BY <1>1, <1>2, <1>3, <1>4, <1>5, <1>6 DEF TypeOK
<1>8. SignalsHold'
  <2>1. saved' \cup screen'.outcomes \subseteq emitted'
    BY <1>3, <1>5 DEF IInv, SignalsHold, OutcomeIsEmitted
  <2>2. \A j \in Loads : loads'[j].outcomes = {}
    BY <1>2
  <2> QED BY <1>2, <2>1, <2>2 DEF SignalsHold, OutcomeIsEmitted
<1>9. SavedIsShown'
  BY <1>5 DEF SavedIsShown, Shown
<1>10. i \in LoadsRunning' /\ \A j \in LoadsRunning' : j = i
  BY <1>2 DEF LoadsRunning
<1>11. HeartsHold'
  BY <1>5, <1>10 DEF HeartsHold, LoadAlone
<1>12. ReadsHold'
  <2>1. \A j \in Loads : loads'[j].step # "offline"
    BY <1>2
  <2> QED BY <1>6, <2>1 DEF ReadsHold, Owned, ReadsOf, Awaits, IsRead
<1>13. LocksHold'
  BY <1>2, <1>5, <1>10 DEF LocksHold
<1> QED BY <1>7, <1>8, <1>9, <1>11, <1>12, <1>13 DEF IInv


-----------------------------------------------------------------------------
(* Steps of applyEvent(). *)

\* Loads, outcomes and statements are those of before.
LEMMA EventStepInv ==
    ASSUME IInv, TypeOK', screen'.outcomes = screen.outcomes, SameFace, LocksHold',
           UNCHANGED <<loads, emitted, saved, overlapped, unread>>,
           \A r \in Decisions : record'[r].step = "persist" => record'[r] = record[r],
           \/ writes' = writes
           \/ \E t \in Statement : t.kind # "read" /\ writes' = Append(writes, t)
    PROVE  IInv'
<1>1. SignalsHold'
  BY SignalsSame DEF IInv
<1>2. SavedIsShown'
  BY ShownSame DEF IInv
<1>3. HeartsHold'
  <2>1. \A j \in LoadsRunning' : j \in LoadsRunning /\ loads'[j].loved = loads[j].loved
    BY DEF LoadsRunning
  <2> QED BY <2>1, HeartsSame DEF IInv, SameFace
<1>4. ReadsHold'
  <2>1. CASE writes' = writes
    BY <2>1, ReadsSame DEF IInv
  <2>2. CASE \E t \in Statement : t.kind # "read" /\ writes' = Append(writes, t)
    BY <2>2, ReadsIssued DEF IInv
  <2> QED BY <2>1, <2>2
<1> QED BY <1>1, <1>2, <1>3, <1>4 DEF IInv

LEMMA ApplyEventInv ==
    ASSUME IInv, NEW e \in Screens, NEW target \in SUBSET Nodes, ApplyEvent(e, target)
    PROVE  IInv'
<1>1. TypeOK
  BY DEF IInv
<1>2. /\ Evented(e) /\ events[e].step = "idle" /\ events'[e].step = "sent" /\ events'[e].heard
      /\ screen' \in ItineraryState /\ SameFace /\ screen'.processing
      /\ screen'.outcomes = screen.outcomes
  BY <1>1, ApplyEventEffect
<1>3. UNCHANGED <<server, sheet, loads, record, writes, saved, hearts, cached, emitted, kills, failures, overlapped, unread>>
  BY DEF ApplyEvent, disk, ghost
<1>4. TypeOK'
  BY <1>1, <1>2, <1>3 DEF TypeOK, Evented, SameFace
<1>5. LocksHold'
  <2>1. e \in Senders /\ e \notin Decisions /\ InFlight(e)'
    BY <1>2, ClientItineraryAssumption DEF Senders, InFlight
  <2>2. \A r \in Decisions : record'[r].step = "cancel" => InFlight(r)'
    <3> TAKE r \in Decisions
    <3>1. r # e /\ r \in Senders
      BY <2>1 DEF Senders
    <3>2. events'[r] = events[r]
      BY <1>2, <3>1 DEF Evented
    <3> QED BY <1>3, <3>2 DEF IInv, LocksHold, InFlight
  <2>3. screen'.loading => LoadsRunning' # {}
    BY <1>2, <1>3 DEF IInv, LocksHold, SameFace, LoadsRunning
  <2> QED BY <2>1, <2>2, <2>3 DEF LocksHold
<1> QED BY <1>2, <1>3, <1>4, <1>5, EventStepInv

LEMMA ServeEventInv ==
    ASSUME IInv, NEW e \in Senders, ServeEvent(e) \/ RefuseEvent(e)
    PROVE  IInv'
<1>1. TypeOK
  BY DEF IInv
<1>2. Evented(e) /\ (InFlight(e) => InFlight(e)') /\ server' \in Trip
  BY <1>1, ServeEventEffect, RefuseEventEffect DEF RefuseEvent, TypeOK
<1>3. UNCHANGED <<screen, sheet, loads, record, writes, saved, hearts, cached, emitted, kills, failures, overlapped, unread>>
  BY DEF ServeEvent, RefuseEvent, disk, ghost
<1>4. TypeOK'
  BY <1>1, <1>2, <1>3 DEF TypeOK, Evented
<1>5. LocksHold'
  <2>1. \A f \in Senders : InFlight(f) => InFlight(f)'
    BY <1>2 DEF Evented, InFlight
  <2>2. \A r \in Decisions : r \in Senders
    BY DEF Senders
  <2>3. screen'.processing => \E f \in Senders : InFlight(f)'
    BY <1>3, <2>1 DEF IInv, LocksHold
  <2>4. \A r \in Decisions : record'[r].step = "cancel" => InFlight(r)'
    BY <1>3, <2>1, <2>2 DEF IInv, LocksHold
  <2>5. screen'.loading => LoadsRunning' # {}
    BY <1>3 DEF IInv, LocksHold, LoadsRunning
  <2> QED BY <2>3, <2>4, <2>5 DEF LocksHold
<1> QED BY <1>3, <1>4, <1>5, EventStepInv DEF SameFace

\* A request that ends releases the lock, and the decision that waited for it.
LEMMA EndsLocks ==
    ASSUME IInv, NEW e \in Senders, Evented(e), Recorded(e), e \in Decisions => record'[e].step = "idle",
           ~screen'.processing, screen'.loading = screen.loading, loads' = loads
    PROVE  LocksHold'
<1>1. \A r \in Decisions : record'[r].step = "cancel" => InFlight(r)'
  <2> SUFFICES ASSUME NEW r \in Decisions, record'[r].step = "cancel"
               PROVE  InFlight(r)'
    OBVIOUS
  <2>1. r # e /\ r \in Senders
    BY DEF Senders
  <2>2. record'[r] = record[r] /\ events'[r] = events[r]
    BY <2>1 DEF Recorded, Evented
  <2> QED BY <2>2 DEF IInv, LocksHold, InFlight
<1> QED BY <1>1 DEF IInv, LocksHold, LoadsRunning

LEMMA EndedRecords ==
    ASSUME NEW r, Recorded(r), r \in Decisions => record'[r].step # "persist"
    PROVE  \A d \in Decisions : record'[d].step = "persist" => record'[d] = record[d]
BY DEF Recorded

LEMMA ReceiveEventInv ==
    ASSUME IInv, NEW e \in Senders, ReceiveEvent(e)
    PROVE  IInv'
<1>1. TypeOK
  BY DEF IInv
<1> DEFINE trip == IF events[e].listed THEN events[e].trip ELSE screen.trip
           s == [screen EXCEPT !.trip = trip]
<1>2. trip \in Trip /\ screen \in ItineraryState
  BY <1>1 DEF TypeOK, Event, ItineraryState
<1>3. /\ Ends(e, s) /\ writes' = Append(writes, UpdateTrip(trip))
      /\ UNCHANGED <<server, sheet, loads, saved, hearts, cached, emitted, kills, failures, overlapped, unread>>
  BY DEF ReceiveEvent, disk, ghost
<1> HIDE DEF trip
<1>4. /\ s \in ItineraryState /\ s.loading = screen.loading /\ s.error = screen.error /\ s.loved = screen.loved
      /\ s.outcomes = screen.outcomes
  BY <1>2 DEF ItineraryState
<1> HIDE DEF s
<1>5. /\ Evented(e) /\ Recorded(e) /\ (e \in Decisions => record'[e].step = "idle")
      /\ screen' \in ItineraryState /\ ~screen'.processing /\ SameFace
      /\ screen'.outcomes = screen.outcomes
  BY <1>1, <1>3, <1>4, EndsEffect DEF SameFace
<1>6. UpdateTrip(trip) \in Statement /\ UpdateTrip(trip).kind # "read"
  BY <1>2, StatementTypes, StatementFacts
<1>7. writes' \in Seq(Statement)
  BY <1>1, <1>3, <1>6, Appended DEF TypeOK
<1>8. TypeOK'
  BY <1>1, <1>3, <1>5, <1>7 DEF TypeOK, Evented, Recorded, SameFace
<1>9. LocksHold'
  BY <1>3, <1>5, EndsLocks DEF SameFace
<1>10. \A d \in Decisions : record'[d].step = "persist" => record'[d] = record[d]
  BY <1>5, EndedRecords
<1> QED BY <1>3, <1>5, <1>6, <1>8, <1>9, <1>10, EventStepInv

LEMMA EventEndsInv ==
    ASSUME IInv, NEW e \in Senders, EventEnds(e)
    PROVE  IInv'
<1>1. TypeOK
  BY DEF IInv
<1>2. /\ Ends(e, screen)
      /\ UNCHANGED <<server, sheet, loads, writes, saved, hearts, cached, emitted, kills, overlapped, unread>>
  BY DEF EventEnds, disk
<1>3. failures' \in 0 .. MaxFailures
  BY <1>1, ClientItineraryAssumption DEF EventEnds, Fails, TypeOK
<1>4. /\ Evented(e) /\ Recorded(e) /\ (e \in Decisions => record'[e].step = "idle")
      /\ screen' \in ItineraryState /\ ~screen'.processing /\ SameFace
      /\ screen'.outcomes = screen.outcomes
  BY <1>1, <1>2, EndsEffect DEF SameFace, TypeOK
<1>5. TypeOK'
  BY <1>1, <1>2, <1>3, <1>4 DEF TypeOK, Evented, Recorded, SameFace
<1>6. LocksHold'
  BY <1>2, <1>4, EndsLocks DEF SameFace
<1>7. \A d \in Decisions : record'[d].step = "persist" => record'[d] = record[d]
  BY <1>4, EndedRecords
<1> QED BY <1>2, <1>4, <1>5, <1>6, <1>7, EventStepInv

-----------------------------------------------------------------------------
(* Statements. *)

\* The head of the queue is taken, and what followed it is updated.
LEMMA TakenReads ==
    ASSUME TypeOK, ReadsHold, writes # <<>>, Head(writes).kind # "read", loads' = loads,
           \/ writes' = Tail(writes)
           \/ \E t \in Statement : t.kind # "read" /\ writes' = Append(Tail(writes), t)
    PROVE  ReadsHold' /\ writes' \in Seq(Statement)
<1>1. writes \in Seq(Statement) /\ Owned(writes) /\ Head(writes) = writes[1] /\ Tail(writes) \in Seq(Statement)
  BY Taken DEF TypeOK, ReadsHold
<1>2. \A i : ~IsRead(writes, 1, i)
  BY <1>1 DEF IsRead
<1>3. /\ Owned(Tail(writes))
      /\ \A i : ReadsOf(writes, i) => ReadsOf(Tail(writes), i)
      /\ \A i : Awaits(Tail(writes), i) <=> Awaits(writes, i)
  BY <1>1, <1>2, TakeHead
<1>4. /\ Owned(writes') /\ writes' \in Seq(Statement)
      /\ \A i : ReadsOf(writes, i) => ReadsOf(writes', i)
      /\ \A i : Awaits(writes', i) <=> Awaits(writes, i)
  <2>1. CASE writes' = Tail(writes)
    BY <1>1, <1>3, <2>1
  <2>2. CASE \E t \in Statement : t.kind # "read" /\ writes' = Append(Tail(writes), t)
    <3>1. PICK t \in Statement : t.kind # "read" /\ writes' = Append(Tail(writes), t)
      BY <2>2
    <3>2. /\ Owned(writes')
          /\ \A i : Awaits(writes', i) <=> Awaits(Tail(writes), i)
          /\ \A i : ReadsOf(Tail(writes), i) => ReadsOf(writes', i)
      BY <1>1, <1>3, <3>1, AppendOther
    <3>3. writes' \in Seq(Statement)
      BY <1>1, <3>1, Appended
    <3> QED BY <1>3, <3>2, <3>3
  <2> QED BY <2>1, <2>2
<1>5. \A i \in Loads :
          /\ ReadsOf(writes', i)
          /\ Awaits(writes', i) <=> loads'[i].step = "offline"
  BY <1>4 DEF ReadsHold
<1> QED BY <1>4, <1>5 DEF ReadsHold, Owned, ReadsOf, Awaits, IsRead

\* A load goes on with what its read of cache_trip found.
LEMMA ReadStepInv ==
    ASSUME IInv, writes # <<>>, writes' = Tail(writes), NEW i \in Head(writes).load, Head(writes).kind = "read",
           NEW row \in SUBSET Trip, CachedTripRead(i, row), hearts' \subseteq Nodes, failures' \in 0 .. MaxFailures,
           UNCHANGED <<server, sheet, events, record, saved, cached, emitted, kills, overlapped, unread>>
    PROVE  IInv'
<1>1. TypeOK /\ writes \in Seq(Statement) /\ Owned(writes)
  BY DEF IInv, TypeOK, ReadsHold
<1>2. Head(writes) = writes[1] /\ Tail(writes) \in Seq(Statement) /\ 1 \in DOMAIN writes
  BY <1>1, Taken
<1>3. i \in Loads /\ IsRead(writes, 1, i) /\ \A j : IsRead(writes, 1, j) => j = i
  <2>1. PICK j \in Loads : writes[1].load = {j}
    BY <1>1, <1>2 DEF Owned
  <2> QED BY <1>2, <2>1 DEF IsRead
<1>4. loads[i].step = "offline" /\ ReadsOf(writes, i)
  BY <1>2, <1>3 DEF IInv, ReadsHold, Awaits
<1>5. /\ Loaded(i)
      /\ \/ loads'[i].step = "hearts" /\ Remembers(i) /\ screen' = screen
         \/ /\ loads'[i].step = "done" /\ loads'[i].outcomes = {}
            /\ screen' \in ItineraryState /\ ~screen'.loading /\ screen'.error /\ ~screen'.processing
            /\ screen'.outcomes = loads[i].outcomes /\ screen'.loved = loads[i].loved
  BY <1>1, <1>3, ReadEffect
<1>6. TypeOK'
  BY <1>1, <1>2, <1>5 DEF TypeOK, Loaded
<1>7. ReadsHold'
  <2>1. /\ Owned(writes')
        /\ \A j : ReadsOf(writes, j) => ReadsOf(writes', j)
        /\ \A j : j # i => (Awaits(writes', j) <=> Awaits(writes, j))
        /\ ~Awaits(writes', i)
    BY <1>1, <1>3, <1>4, TakeHead
  <2>2. \A j \in Loads :
          /\ ReadsOf(writes', j)
          /\ Awaits(writes', j) <=> loads'[j].step = "offline"
    BY <1>5, <2>1 DEF Loaded, IInv, ReadsHold
  <2> QED BY <2>1, <2>2 DEF ReadsHold, Owned, ReadsOf, Awaits, IsRead
<1>8. i \in LoadsRunning
  BY <1>3, <1>4 DEF LoadsRunning
<1>9. CASE loads'[i].step = "hearts" /\ Remembers(i) /\ screen' = screen
  <2>1. i \in LoadsRunning'
    BY <1>3, <1>9 DEF LoadsRunning
  <2>2. SignalsHold' /\ SavedIsShown' /\ HeartsHold' /\ LocksHold'
    BY <1>3, <1>5, <1>8, <1>9, <2>1, LoadGoesOn
  <2> QED BY <1>6, <1>7, <2>2 DEF IInv
<1>10. CASE /\ loads'[i].step = "done" /\ loads'[i].outcomes = {}
            /\ screen' \in ItineraryState /\ ~screen'.loading /\ screen'.error /\ ~screen'.processing
            /\ screen'.outcomes = loads[i].outcomes
  <2>1. SignalsHold'
    BY <1>3, <1>5, <1>10 DEF IInv, SignalsHold, OutcomeIsEmitted, Loaded
  <2>2. SavedIsShown'
    BY <1>10 DEF SavedIsShown, Shown
  <2>3. i \notin LoadsRunning' /\ \A j \in LoadsRunning' : j \in LoadsRunning
    BY <1>5, <1>10 DEF LoadsRunning, Loaded
  <2>4. HeartsHold'
    BY <1>8, <2>3, HeartsEnd DEF IInv
  <2>5. LocksHold'
    BY <1>10, LocksSame DEF IInv
  <2> QED BY <1>6, <1>7, <2>1, <2>2, <2>4, <2>5 DEF IInv
<1> QED BY <1>5, <1>9, <1>10

\* Any other statement leaves memory alone.
LEMMA OtherStepInv ==
    ASSUME IInv, ReadsHold', writes' \in Seq(Statement), cached' \subseteq Trip, hearts' \subseteq Nodes, failures' \in 0 .. MaxFailures,
           UNCHANGED <<server, screen, sheet, loads, events, record, saved, emitted, kills, overlapped, unread>>
    PROVE  IInv'
<1>1. TypeOK'
  BY DEF IInv, TypeOK
<1>2. SignalsHold'
  BY SignalsSame DEF IInv
<1>3. SavedIsShown'
  BY ShownSame DEF IInv, SameFace
<1>4. HeartsHold'
  BY DEF IInv, HeartsHold, LoadAlone, LoadsRunning
<1>5. LocksHold'
  BY DEF IInv, LocksHold, InFlight, LoadsRunning
<1> QED BY <1>1, <1>2, <1>3, <1>4, <1>5 DEF IInv

LEMMA RunStatementInv ==
    ASSUME IInv, RunStatement
    PROVE  IInv'
<1>1. TypeOK /\ writes \in Seq(Statement) /\ writes # <<>>
  BY DEF IInv, TypeOK, RunStatement
<1> DEFINE s == Head(writes)
<1>2. s \in Statement
  BY <1>1, Taken
<1>3. /\ writes' = IF s.kind = "update" THEN UpdateThenWrite(s) ELSE Tail(writes)
      /\ cached' = IF s.kind = "write" THEN {s.trip} ELSE cached
      /\ hearts' = hearts \cup s.heart
      /\ CachedTripReads(s, cached)
      /\ UNCHANGED <<server, sheet, events, record, saved, emitted, kills, failures, overlapped, unread>>
  BY DEF RunStatement, ghost
<1> HIDE DEF s
<1>4. cached' \subseteq Trip /\ hearts' \subseteq Nodes /\ failures' \in 0 .. MaxFailures /\ cached \in SUBSET Trip
  BY <1>1, <1>2, <1>3 DEF TypeOK, Statement
<1>5. CASE s.kind = "read"
  <2>1. writes' = Tail(writes) /\ cached' = cached
    BY <1>3, <1>5
  <2>2. PICK i \in s.load : CachedTripRead(i, cached)
    BY <1>3, <1>5 DEF CachedTripReads
  <2> QED BY <1>1, <1>3, <1>4, <1>5, <2>1, <2>2, ReadStepInv DEF s
<1>6. CASE s.kind # "read"
  <2>1. UNCHANGED <<screen, loads>>
    BY <1>3, <1>6 DEF CachedTripReads
  <2>2. WriteTrip(s.trip) \in Statement /\ WriteTrip(s.trip).kind # "read"
    BY <1>2, StatementTypes, StatementFacts DEF Statement
  <2>3. writes' = Tail(writes) \/ \E t \in Statement : t.kind # "read" /\ writes' = Append(Tail(writes), t)
    BY <1>3, <2>2 DEF UpdateThenWrite
  <2>4. ReadsHold' /\ writes' \in Seq(Statement)
    BY <1>1, <1>6, <2>1, <2>3, TakenReads DEF IInv, s
  <2> QED BY <1>3, <1>4, <2>1, <2>4, OtherStepInv
<1> QED BY <1>5, <1>6

LEMMA StatementFailsInv ==
    ASSUME IInv, StatementFails
    PROVE  IInv'
<1>1. TypeOK /\ writes # <<>> /\ hearts \subseteq Nodes /\ cached \subseteq Trip /\ {} \in SUBSET Trip
  BY DEF IInv, TypeOK, StatementFails
<1> DEFINE s == Head(writes)
<1>2. /\ writes' = Tail(writes) /\ CachedTripReads(s, {})
      /\ UNCHANGED <<server, sheet, events, record, saved, hearts, cached, emitted, kills, overlapped, unread>>
  BY DEF StatementFails, disk
<1>3. failures' \in 0 .. MaxFailures
  BY <1>1, ClientItineraryAssumption DEF StatementFails, Fails, TypeOK
<1> HIDE DEF s
<1>4. CASE s.kind = "read"
  <2>1. PICK i \in s.load : CachedTripRead(i, {})
    BY <1>2, <1>4 DEF CachedTripReads
  <2> QED BY <1>1, <1>2, <1>3, <1>4, <2>1, ReadStepInv DEF s
<1>5. CASE s.kind # "read"
  <2>1. UNCHANGED <<screen, loads>>
    BY <1>2, <1>5 DEF CachedTripReads
  <2>2. ReadsHold' /\ writes' \in Seq(Statement)
    BY <1>1, <1>2, <1>5, <2>1, TakenReads DEF IInv, s
  <2> QED BY <1>1, <1>2, <1>3, <2>1, <2>2, OtherStepInv
<1> QED BY <1>4, <1>5


-----------------------------------------------------------------------------
(* Taps, and the recordings they start. *)

\* Loads and statements are those of before.
LEMMA TapInv ==
    ASSUME IInv, TypeOK', SignalsHold', SavedIsShown', SameFace, LocksHold',
           UNCHANGED <<loads, writes, overlapped>>
    PROVE  IInv'
<1>1. HeartsHold'
  <2>1. \A j \in LoadsRunning' : j \in LoadsRunning /\ loads'[j].loved = loads[j].loved
    BY DEF LoadsRunning
  <2> QED BY <2>1, HeartsSame DEF IInv, SameFace
<1>2. ReadsHold'
  BY ReadsSame DEF IInv
<1> QED BY <1>1, <1>2 DEF IInv

LEMMA SheetInv ==
    ASSUME IInv, sheet' \subseteq Nodes,
           UNCHANGED <<server, screen, loads, events, record, writes, disk, ghost>>
    PROVE  IInv'
<1>1. TypeOK'
  BY DEF IInv, TypeOK, disk, ghost
<1>2. SignalsHold' /\ SavedIsShown'
  BY SignalsSame, ShownSame DEF IInv, SameFace, disk, ghost
<1>3. LocksHold'
  BY DEF IInv, LocksHold, InFlight, LoadsRunning
<1> QED BY <1>1, <1>2, <1>3, TapInv DEF SameFace, ghost

LEMMA RecordInv ==
    ASSUME IInv, NEW r \in Decisions, NEW skipped \in BOOLEAN, Record(r, skipped)
    PROVE  IInv'
<1>1. TypeOK
  BY DEF IInv
<1>2. /\ Recorded(r) /\ record'[r].step \in {"idle", "emit"}
      /\ screen' \in ItineraryState /\ SameFace
      /\ screen'.outcomes = screen.outcomes /\ screen'.processing = screen.processing
  BY <1>1, RecordEffect
<1>3. /\ UNCHANGED <<server, loads, events, writes, saved, hearts, cached, emitted, kills, failures, overlapped, unread>>
      /\ sheet' = {}
  BY DEF Record, disk, ghost
<1>4. TypeOK'
  BY <1>1, <1>2, <1>3 DEF TypeOK, Recorded, SameFace
<1>5. SignalsHold' /\ SavedIsShown'
  BY <1>2, <1>3, EndedRecords, SignalsSame, ShownSame DEF IInv
<1>6. LocksHold'
  BY <1>2, <1>3 DEF IInv, LocksHold, InFlight, LoadsRunning, Recorded, SameFace
<1> QED BY <1>2, <1>3, <1>4, <1>5, <1>6, TapInv

LEMMA EmitInv ==
    ASSUME IInv, NEW r \in Decisions, Emit(r)
    PROVE  IInv'
<1>1. TypeOK
  BY DEF IInv
<1>2. Recorded(r) /\ record'[r].step = "persist" /\ record'[r].stop = record[r].stop /\ record[r].stop \subseteq Nodes
  BY <1>1, EmitEffect
<1>3. /\ UNCHANGED <<server, screen, sheet, loads, events, writes, saved, hearts, cached, kills, failures, overlapped, unread>>
      /\ emitted' = emitted \cup record[r].stop
  BY DEF Emit, ghost
<1>4. TypeOK'
  BY <1>1, <1>2, <1>3 DEF TypeOK, Recorded
<1>5. SignalsHold'
  <2>1. screen'.outcomes \cup saved' \subseteq emitted' /\ \A i \in Loads : loads'[i].outcomes \subseteq emitted'
    BY <1>3 DEF IInv, SignalsHold, OutcomeIsEmitted
  <2>2. \A d \in Decisions : record'[d].step = "persist" => record'[d].stop \subseteq emitted'
    BY <1>2, <1>3 DEF IInv, SignalsHold, Recorded
  <2> QED BY <2>1, <2>2 DEF SignalsHold, OutcomeIsEmitted
<1>6. SavedIsShown'
  BY <1>3, ShownSame DEF IInv, SameFace
<1>7. LocksHold'
  BY <1>2, <1>3, LocksSame DEF IInv, Recorded, LocksHold, LoadsRunning
<1> QED BY <1>3, <1>4, <1>5, <1>6, <1>7, TapInv DEF SameFace

LEMMA EmitFailsInv ==
    ASSUME IInv, NEW r \in Decisions, EmitFails(r)
    PROVE  IInv'
<1>1. TypeOK
  BY DEF IInv
<1>2. /\ Recorded(r) /\ record'[r].step = "idle" /\ screen' \in ItineraryState /\ SameFace
      /\ screen'.outcomes = screen.outcomes /\ screen'.processing = screen.processing
  BY <1>1, EmitFailsEffect
<1>3. UNCHANGED <<server, sheet, loads, events, writes, saved, hearts, cached, emitted, kills, overlapped, unread>>
  BY DEF EmitFails, disk
<1>4. failures' \in 0 .. MaxFailures
  BY <1>1, ClientItineraryAssumption DEF EmitFails, Fails, TypeOK
<1>5. TypeOK'
  BY <1>1, <1>2, <1>3, <1>4 DEF TypeOK, Recorded, SameFace
<1>6. SignalsHold' /\ SavedIsShown'
  BY <1>2, <1>3, EndedRecords, SignalsSame, ShownSame DEF IInv
<1>7. LocksHold'
  BY <1>2, <1>3 DEF IInv, LocksHold, InFlight, LoadsRunning, Recorded, SameFace
<1> QED BY <1>2, <1>3, <1>5, <1>6, <1>7, TapInv

\* With or without its row, an outcome is acknowledged after its signal.
LEMMA AcknowledgeInv ==
    ASSUME IInv, NEW r \in Decisions, record[r].step = "persist", Acknowledge(r),
           saved' \subseteq saved \cup record[r].stop, failures' \in 0 .. MaxFailures,
           UNCHANGED <<server, sheet, loads, writes, hearts, cached, emitted, kills, overlapped, unread>>
    PROVE  IInv'
<1>1. TypeOK /\ r \in Senders
  BY DEF IInv, Senders
<1>2. /\ Recorded(r) /\ screen' \in ItineraryState /\ SameFace /\ record[r].stop \subseteq Nodes
      /\ screen'.outcomes = screen.outcomes \cup record[r].stop
      /\ \/ /\ record'[r].step = "cancel" /\ screen'.processing
            /\ Evented(r) /\ events'[r].step = "sent" /\ events'[r].heard
         \/ /\ record'[r].step = "idle" /\ screen'.processing = screen.processing
            /\ events' = events
  BY <1>1, AcknowledgeEffect
<1>3. events' \in [Senders -> Event]
  BY <1>1, <1>2 DEF TypeOK, Evented
<1>4. TypeOK'
  BY <1>1, <1>2, <1>3 DEF TypeOK, Recorded, SameFace
<1>5. SignalsHold'
  <2>1. record[r].stop \subseteq emitted
    BY DEF IInv, SignalsHold
  <2>2. \A d \in Decisions : record'[d].step = "persist" => record'[d] = record[d]
    BY <1>2, EndedRecords
  <2>3. screen'.outcomes \cup saved' \subseteq emitted'
    BY <1>2, <2>1 DEF IInv, SignalsHold, OutcomeIsEmitted
  <2>4. \A d \in Decisions : record'[d].step = "persist" => record'[d].stop \subseteq emitted'
    BY <2>2 DEF IInv, SignalsHold
  <2>5. \A i \in Loads : loads'[i].outcomes \subseteq emitted'
    BY DEF IInv, SignalsHold
  <2> QED BY <2>3, <2>4, <2>5 DEF SignalsHold, OutcomeIsEmitted
<1>6. SavedIsShown'
  BY <1>2 DEF IInv, SavedIsShown, Shown, SameFace
<1>7. LocksHold'
  <2>0. screen'.loading => LoadsRunning' # {}
    BY <1>2 DEF IInv, LocksHold, SameFace, LoadsRunning
  <2>1. CASE /\ record'[r].step = "cancel" /\ Evented(r) /\ events'[r].step = "sent" /\ events'[r].heard
    <3>1. InFlight(r)'
      BY <2>1 DEF InFlight
    <3>2. \A d \in Decisions : record'[d].step = "cancel" => InFlight(d)'
      <4> SUFFICES ASSUME NEW d \in Decisions, record'[d].step = "cancel", d # r
                   PROVE  InFlight(d)'
        BY <3>1
      <4>1. record'[d] = record[d] /\ events'[d] = events[d]
        BY <1>2, <2>1 DEF Recorded, Evented, Senders
      <4> QED BY <4>1 DEF IInv, LocksHold, InFlight
    <3> QED BY <1>1, <2>0, <3>1, <3>2 DEF LocksHold
  <2>2. CASE record'[r].step = "idle" /\ screen'.processing = screen.processing /\ events' = events
    <3>1. \A d \in Decisions : record'[d].step = "cancel" => record[d].step = "cancel"
      BY <1>2, <2>2 DEF Recorded
    <3> QED BY <2>0, <2>2, <3>1, LocksSame DEF IInv
  <2> QED BY <1>2, <2>1, <2>2
<1> QED BY <1>2, <1>4, <1>5, <1>6, <1>7, TapInv

LEMMA MarkLovedInv ==
    ASSUME IInv, NEW n \in Nodes, MarkLoved(n)
    PROVE  IInv'
<1>1. TypeOK
  BY DEF IInv
<1>2. /\ screen' \in ItineraryState /\ screen'.loved = screen.loved \cup {n}
      /\ screen'.loading = screen.loading /\ screen'.error = screen.error
      /\ screen'.processing = screen.processing /\ screen'.outcomes = screen.outcomes
      /\ ~screen.loading
  BY <1>1, MarkLovedEffect
<1>3. /\ writes' = Append(writes, WriteHeart(n))
      /\ UNCHANGED <<server, sheet, loads, events, record, saved, hearts, cached, emitted, kills, failures, overlapped, unread>>
  BY DEF MarkLoved, disk, ghost
<1>4. WriteHeart(n) \in Statement /\ WriteHeart(n).kind # "read"
  BY StatementTypes, StatementFacts
<1>5. writes' \in Seq(Statement)
  BY <1>1, <1>3, <1>4, Appended DEF TypeOK
<1>6. TypeOK'
  BY <1>1, <1>2, <1>3, <1>5 DEF TypeOK
<1>7. SignalsHold' /\ SavedIsShown'
  BY <1>2, <1>3 DEF IInv, SignalsHold, OutcomeIsEmitted, SavedIsShown, Shown
<1>8. HeartsHold'
  <2>1. ~overlapped => \A j \in LoadsRunning : FALSE
    BY <1>2 DEF IInv, HeartsHold, LoadAlone
  <2> QED BY <1>3, <2>1 DEF HeartsHold, LoadsRunning
<1>9. ReadsHold'
  BY <1>1, <1>3, <1>4, ReadsIssued DEF IInv
<1>10. LocksHold'
  BY <1>2, <1>3 DEF IInv, LocksHold, InFlight, LoadsRunning
<1> QED BY <1>6, <1>7, <1>8, <1>9, <1>10 DEF IInv

-----------------------------------------------------------------------------
(* The inductive invariant, and what follows from it. *)

LEMMA InitIInv == Init => IInv
<1> SUFFICES ASSUME Init
             PROVE  IInv
  OBVIOUS
<1>1. FirstLoad \in Loads
  BY ClientItineraryAssumption DEF FirstLoad
<1>2. Started(Blank) \in Load /\ Started(Blank).step = "fetch" /\ Started(Blank).outcomes = {}
      /\ Started(Blank).loved = {}
  BY BlankFields, StartedFields
<1>3. /\ loads \in [Loads -> Load] /\ loads[FirstLoad].step = "fetch" /\ loads[FirstLoad].loved = {}
      /\ \A j \in Loads : j # FirstLoad => loads[j].step = "unused"
      /\ \A j \in Loads : loads[j].outcomes = {} /\ loads[j].step # "offline"
  BY <1>1, <1>2, NoLoadFields DEF Init
<1>4. server \in Trip
  BY ClientItineraryAssumption DEF Init, Trip
<1>5. screen \in ItineraryState /\ screen.loading /\ ~screen.processing /\ ~screen.error /\ screen.outcomes = {} /\ screen.loved = {}
  BY BlankFields DEF Init
<1>6. /\ events \in [Senders -> Event] /\ record \in [Decisions -> Recording]
      /\ \A r \in Decisions : record[r].step = "idle"
  BY EventFields, RecordingFields DEF Init
<1>7. writes \in Seq(Statement) /\ DOMAIN writes = {}
  BY DEF Init
<1>8. TypeOK
  <2>1. kills \in 0 .. MaxKills /\ failures \in 0 .. MaxFailures
    BY ClientItineraryAssumption DEF Init
  <2> QED BY <1>3, <1>4, <1>5, <1>6, <1>7, <2>1 DEF Init, TypeOK
<1>9. SignalsHold /\ SavedIsShown
  BY <1>3, <1>5, <1>6 DEF Init, SignalsHold, OutcomeIsEmitted, SavedIsShown
<1>10. FirstLoad \in LoadsRunning /\ \A j \in LoadsRunning : j = FirstLoad
  BY <1>1, <1>3 DEF LoadsRunning
<1>11. HeartsHold
  BY <1>5, <1>10 DEF HeartsHold, LoadAlone
<1>12. ReadsHold
  BY <1>3, <1>7 DEF ReadsHold, Owned, ReadsOf, Awaits, IsRead
<1>13. LocksHold
  BY <1>5, <1>6, <1>10 DEF LocksHold
<1> QED BY <1>8, <1>9, <1>11, <1>12, <1>13 DEF IInv

LEMMA NextIInv == IInv /\ [Next]_vars => IInv'
<1> SUFFICES ASSUME IInv, [Next]_vars
             PROVE  IInv'
  OBVIOUS
<1>0. TypeOK /\ failures \in 0 .. MaxFailures
  BY DEF IInv, TypeOK
<1>1. CASE \E i \in Loads : Reload(i) \/ LoadStep(i) \/ Relaunch(i)
  BY <1>1, ReloadInv, ServeInv, LoadFailsInv, RestoreNodeOutcomesInv, RelaunchInv DEF LoadStep
<1>2. CASE \E e \in Screens, target \in {{}} \cup {{n} : n \in Nodes} : ApplyEvent(e, target)
  <2>1. \A target \in {{}} \cup {{n} : n \in Nodes} : target \in SUBSET Nodes
    OBVIOUS
  <2> QED BY <1>2, <2>1, ApplyEventInv
<1>3. CASE \E e \in Senders : EventStep(e)
  BY <1>3, ServeEventInv, ReceiveEventInv, EventEndsInv DEF EventStep
<1>4. CASE RunStatement \/ StatementFails
  BY <1>4, RunStatementInv, StatementFailsInv
<1>5. CASE \E n \in Nodes : OpenSheet(n) \/ MarkLoved(n)
  <2>1. PICK n \in Nodes : OpenSheet(n) \/ MarkLoved(n)
    BY <1>5
  <2>2. CASE OpenSheet(n)
    <3>1. sheet' \subseteq Nodes /\ UNCHANGED <<server, screen, loads, events, record, writes, disk, ghost>>
      BY <2>2 DEF OpenSheet
    <3> QED BY <3>1, SheetInv
  <2> QED BY <2>1, <2>2, MarkLovedInv
<1>6. CASE DismissSheet
  <2>1. sheet' \subseteq Nodes /\ UNCHANGED <<server, screen, loads, events, record, writes, disk, ghost>>
    BY <1>6 DEF DismissSheet
  <2> QED BY <2>1, SheetInv
<1>7. CASE \E r \in Decisions : \E skipped \in BOOLEAN : Record(r, skipped)
  BY <1>7, RecordInv
<1>8. CASE \E r \in Decisions : RecordStep(r)
  <2>1. PICK r \in Decisions : RecordStep(r)
    BY <1>8
  <2>2. CASE Persist(r)
    <3>1. /\ record[r].step = "persist" /\ Acknowledge(r) /\ saved' \subseteq saved \cup record[r].stop
          /\ failures' \in 0 .. MaxFailures
          /\ UNCHANGED <<server, sheet, loads, writes, hearts, cached, emitted, kills, overlapped, unread>>
      BY <1>0, <2>2 DEF Persist, ghost
    <3> QED BY <3>1, AcknowledgeInv
  <2>3. CASE PersistFails(r)
    <3>1. /\ record[r].step = "persist" /\ Acknowledge(r) /\ saved' \subseteq saved \cup record[r].stop
          /\ failures' \in 0 .. MaxFailures
          /\ UNCHANGED <<server, sheet, loads, writes, hearts, cached, emitted, kills, overlapped, unread>>
      BY <1>0, <2>3, ClientItineraryAssumption DEF PersistFails, Fails, disk
    <3> QED BY <3>1, AcknowledgeInv
  <2> QED BY <2>1, <2>2, <2>3, EmitInv, EmitFailsInv DEF RecordStep
<1>9. CASE UNCHANGED vars
  <2>1. sheet' \subseteq Nodes /\ UNCHANGED <<server, screen, loads, events, record, writes, disk, ghost>>
    BY <1>0, <1>9 DEF vars, memory, disk, ghost, TypeOK
  <2> QED BY <2>1, SheetInv
<1> QED BY <1>1, <1>2, <1>3, <1>4, <1>5, <1>6, <1>7, <1>8, <1>9 DEF Next


THEOREM Invariant == Spec => []IInv
<1>1. Init => IInv
  BY InitIInv
<1>2. IInv /\ [Next]_vars => IInv'
  BY NextIInv
<1> QED BY <1>1, <1>2, PTL DEF Spec

\* The state of the controller stays well-typed (itinerary_notifier.dart:16-78),
\* and an error is shown, not a load that never ends (166-174).
THEOREM TypeCorrect == Spec => []TypeOK
<1>1. IInv => TypeOK
  BY DEF IInv
<1> QED BY <1>1, Invariant, PTL

\* However many taps, overlapping loads, failures and kills: an outcome is shown
\* or stored only once its signal is in the outbox, and what is stored is shown
\* unless the last load() could not read it (itinerary_notifier.dart:307-430).
THEOREM Outcomes == Spec => []OutcomesHold
<1>1. IInv => OutcomesHold
  BY DEF IInv, SignalsHold, OutcomesHold
<1> QED BY <1>1, Invariant, PTL

\* No shimmer, lock, skip or offline load waits for a run that is over
\* (itinerary_notifier.dart:87-175, 196-251, 398-408).
THEOREM Waits == Spec => []WaitsEnd
<1>1. IInv => WaitsEnd
  BY DEF IInv, LocksHold, ReadsHold, Awaits, IsRead, WaitsEnd
<1> QED BY <1>1, Invariant, PTL

LEMMA HeartsStep ==
    ASSUME IInv, [Next]_vars, kills' = kills, ~overlapped
    PROVE  screen.loved \subseteq screen'.loved
<1>0. TypeOK /\ kills \in Nat /\ screen \in ItineraryState
  BY ClientItineraryAssumption DEF IInv, TypeOK
<1>1. ASSUME NEW i \in Loads, Reload(i) \/ LoadStep(i) \/ Relaunch(i)
      PROVE  screen.loved \subseteq screen'.loved
  <2>1. CASE Reload(i)
    BY <1>0, <2>1, ReloadEffect
  <2>2. CASE RestoreNodeOutcomes(i)
    <3>1. loads[i].step = "outcomes" /\ loads[i].loved \subseteq screen'.loved
      BY <1>0, <2>2, RestoreNodeOutcomesEffect
    <3>2. screen.loved \subseteq loads[i].loved
      BY <3>1 DEF IInv, HeartsHold, LoadAlone, LoadsRunning
    <3> QED BY <3>1, <3>2
  <2>3. CASE Serve(i) \/ Arrive(i) \/ LoadFails(i) \/ RestoreLovedRefs(i)
    BY <2>3 DEF Serve, Arrive, LoadFails, RestoreLovedRefs
  <2>4. ~Relaunch(i)
    BY <1>0 DEF Relaunch
  <2> QED BY <1>1, <2>1, <2>2, <2>3, <2>4 DEF LoadStep
<1>2. ASSUME NEW e \in Screens, NEW target \in SUBSET Nodes, ApplyEvent(e, target)
      PROVE  screen.loved \subseteq screen'.loved
  BY <1>0, <1>2, ApplyEventEffect DEF SameFace
<1>3. ASSUME NEW e \in Senders, EventStep(e)
      PROVE  screen.loved \subseteq screen'.loved
  <2>1. CASE ServeEvent(e) \/ RefuseEvent(e)
    BY <2>1 DEF ServeEvent, RefuseEvent
  <2>2. CASE ReceiveEvent(e)
    <3> DEFINE trip == IF events[e].listed THEN events[e].trip ELSE screen.trip
               s == [screen EXCEPT !.trip = trip]
    <3>1. trip \in Trip
      BY <1>0 DEF TypeOK, Event, ItineraryState
    <3>2. Ends(e, s)
      BY <2>2 DEF ReceiveEvent
    <3> HIDE DEF trip
    <3>3. s \in ItineraryState /\ s.loved = screen.loved
      BY <1>0, <3>1 DEF ItineraryState
    <3> HIDE DEF s
    <3> QED BY <1>0, <3>2, <3>3, EndsEffect
  <2>3. CASE EventEnds(e)
    <3>1. Ends(e, screen)
      BY <2>3 DEF EventEnds
    <3> QED BY <1>0, <3>1, EndsEffect
  <2> QED BY <1>3, <2>1, <2>2, <2>3 DEF EventStep
<1>4. ASSUME NEW s, NEW row \in SUBSET Trip, s = Head(writes), writes # <<>>, CachedTripReads(s, row)
      PROVE  screen.loved \subseteq screen'.loved
  <2>1. writes \in Seq(Statement) /\ Owned(writes)
    BY <1>0 DEF IInv, ReadsHold, TypeOK
  <2>2. s = writes[1] /\ 1 \in DOMAIN writes
    BY <1>4, <2>1, Taken
  <2>3. CASE s.kind = "read"
    <3>1. PICK i \in s.load : CachedTripRead(i, row)
      BY <1>4, <2>3 DEF CachedTripReads
    <3>2. PICK j \in Loads : s.load = {j}
      BY <2>1, <2>2, <2>3 DEF Owned
    <3>3. i = j /\ i \in Loads
      BY <3>1, <3>2
    <3>4. loads[i].step = "offline"
      BY <2>2, <2>3, <3>2, <3>3 DEF IInv, ReadsHold, Awaits, IsRead
    <3>5. screen.loved \subseteq loads[i].loved
      BY <3>3, <3>4 DEF IInv, HeartsHold, LoadAlone, LoadsRunning
    <3>6. screen' = screen \/ screen'.loved = loads[i].loved
      BY <1>0, <3>1, <3>3, ReadEffect
    <3> QED BY <3>5, <3>6
  <2>4. CASE s.kind # "read"
    BY <1>4, <2>4 DEF CachedTripReads
  <2> QED BY <2>3, <2>4
<1>5. CASE RunStatement \/ StatementFails
  <2>1. cached \in SUBSET Trip /\ {} \in SUBSET Trip
    BY <1>0 DEF TypeOK
  <2>2. writes # <<>> /\ (CachedTripReads(Head(writes), cached) \/ CachedTripReads(Head(writes), {}))
    BY <1>5 DEF RunStatement, StatementFails
  <2> QED BY <1>4, <2>1, <2>2
<1>6. ASSUME NEW n \in Nodes, OpenSheet(n) \/ MarkLoved(n)
      PROVE  screen.loved \subseteq screen'.loved
  BY <1>0, <1>6, MarkLovedEffect DEF OpenSheet
<1>7. ASSUME NEW r \in Decisions, RecordStep(r)
      PROVE  screen.loved \subseteq screen'.loved
  <2>1. CASE Emit(r)
    BY <2>1 DEF Emit
  <2>2. CASE EmitFails(r)
    BY <1>0, <2>2, EmitFailsEffect DEF SameFace
  <2>3. CASE Persist(r) \/ PersistFails(r)
    <3>1. Acknowledge(r)
      BY <2>3 DEF Persist, PersistFails
    <3> QED BY <1>0, <3>1, AcknowledgeEffect DEF SameFace
  <2> QED BY <1>7, <2>1, <2>2, <2>3 DEF RecordStep
<1>8. ASSUME NEW r \in Decisions, NEW skipped \in BOOLEAN, Record(r, skipped)
      PROVE  screen.loved \subseteq screen'.loved
  BY <1>0, <1>8, RecordEffect DEF SameFace
<1>9. CASE DismissSheet \/ UNCHANGED vars
  BY <1>9 DEF DismissSheet, vars, memory
<1>10. \A target \in {{}} \cup {{n} : n \in Nodes} : target \in SUBSET Nodes
  OBVIOUS
<1> QED BY <1>1, <1>2, <1>3, <1>5, <1>6, <1>7, <1>8, <1>9, <1>10 DEF Next

\* No step but a kill takes a heart off the screen, unless the loads that run
\* overlap (itinerary_notifier.dart:87-97, 105-118).
THEOREM Hearts == Spec => HeartsStay
<1>1. IInv /\ [Next]_vars => [kills' = kills /\ ~overlapped => screen.loved \subseteq screen'.loved]_vars
  BY HeartsStep
<1> QED BY <1>1, Invariant, PTL DEF Spec, HeartsStay

=============================================================================
