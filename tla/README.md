# Travel Buddy: verification project

TLA+ models of the parts of Travel Buddy where order, failure and concurrency decide whether the
program is right, TLC configurations that check them on small instances, and TLAPS proofs of the
main safety properties for every instance. File and line references are to the repository;
`PROJECT.json` maps every definition to the lines it stands for.

Check a run with `tlc -config TripCommand_safety.cfg MCTripCommand.tla`, a proof module with
`tlapm TripCommandProofs.tla`.

Contents: 1 the system · 2 the modules and how they correspond to the code · 3 runs, bounds,
fairness · 4 what is proved · 5 where the code and its documents disagree · 6 what is not
modelled · 7 what comes next

## 1 The system

A FastAPI server (several Cloud Run instances over one Postgres database) makes and edits
itineraries; a Flutter app shows them, works offline, and sends behaviour signals home.

| Part | State | Operations | What makes it correct |
|---|---|---|---|
| Signal pipeline on the device: `SignalService.emit`, the SQLite outbox, `SyncEngine`, `SignOutController`, the anonymous session | outbox rows (pending, inflight, failed_permanent) with a back-off; the persisted session; in memory the pass, its batch, the auth halt, the timer | emit; a pass = query, mark inflight, POST, delete / fail / retry, recover; timer, resume, connectivity, debug refresh; sign-out = halt, wipe, revoke, mint, restart | an accepted signal is delivered, refused or wiped, never lost; no row stuck inflight; a final failure is final; a signal is stored once, for the person who made it |
| Signal ingest, `POST /signals` | `signal` rows (unique signal_id); observed spans on the edges of a trip | per item: validate, ownership, consent, cap, plausibility, insert, derive | each item is stored or named in `rejected`; refused only for cause; the cap holds; a derived span is real |
| Trip commands, `POST /trip/create`, `POST /trip/event` | `trip_states` (version, state_json), `trip_command` ledger | load, look up the command, quota, state machine, commit transaction, answer | no lost update; one effect per command id; a replay answers what was first answered |
| Daily reroute quota | `user_tiers` (count, date of last reset) | lazy reset, check, charge in the commit | at most the limit a day; only what took effect costs |
| Payments and tiers | `user_tiers` (tier, identity kind) | webhooks of RevenueCat and Stripe, verify-purchase, first row of a user | a tier is what is paid for; a kind is only promoted |
| Answers: semantic cache, model chain, spend circuit, catalog facts | three stores in process memory: cached answers, cached facts, spend of the last 24 h | embed, look up, call the models in turn, charge, store, commit; `ask_info` | the caps hold up to the calls in flight; what the cache serves is about the trip as it is now |
| Itinerary state machine and scheduler | the trip's list of nodes | cancel, swap, reroute, add/edit/delete booking, move, direct add, uncatalogued add, Ask-to-Add; the forward pass; the circuit breaker | bookings stand; activities are only pushed later; cancelled ones stay; an accepted swap can be lived |
| Trip creation and the home listing | capacity cache (per region and catalog fingerprint) | fill one day, a range, a corridor; list trips, advertise days, feature a stop | a plan can be walked and is open; what is advertised is kept; home shows a stop while one is left |
| Client itinerary controller and its caches | provider state; SQLite `cache_trip`, `node_outcome`, `loved_places` | load, applyEvent, visited, skipped, loved, offline launch | an outcome is acknowledged only with its signal and then stays; nothing waits for ever; hearts stay |
| Guards: rate limit, payload limits | counters in process memory | check, record | not modelled, see 6 |
| Alerts, weather, maps, booking import, screens, scripts, DDL | caches of external answers, or none | evaluate, render, load | not modelled, see 6 |

**How they interact.** The app posts commands (`/trip/create`, `/trip/event`) and signal batches
with the token of its anonymous session; on the server a command runs the state machine on the
loaded nodes, may ask a language model for words, and commits the result together with the ledger
row and the quota charge in one transaction. `POST /signals` inserts with `ON CONFLICT DO NOTHING`
and derives spans from pairs of visits. Stores post webhooks until they are answered 200. The only
state that instances share is the database; the caches and the spend ledger belong to a process;
the only state that survives the app is SQLite and the persisted session.

**What is hard.** Dart is single-threaded, but every `await` lets a sign-out, another emitter or
a late answer in. Handlers of different instances interleave between any two statements.
Requests are lost, served after the client gave up, or sent again. The app and an instance can
die anywhere. A date change falls between reading a quota and writing it. A model's answer comes
back to a trip that has moved on. On the itinerary, no two events overlap, but a long sequence of
legal events reaches states that no test wrote down: a pushed stop, an edited booking, a second
city, a flight after midnight. `PROJECT.json` lists these hazards one by one with the properties
that would catch them, or why none does.

## 2 The modules

| Module | Models | Abstract specification |
|---|---|---|
| `SignalSync` | the pipeline on the device, with the server as it is seen from there | `SignalCustody` |
| `SignalIngest` (`MCSignalIngest`) | the server's side of `POST /signals`, with the device as it is seen from there | `SignalCustody` |
| `TripCommand` (`MCTripCommand`) | the two command handlers over the database | `TripLedger` |
| `Tiers` (`MCTiers`) | webhooks, purchases, first rows of `user_tiers` | |
| `AnswerPath` (`MCAnswerPath`) | one process answering travellers: cache, model chain, spend circuit, facts | |
| `TripRules`, `Itinerary` (`MCItinerary`) | the rules, the events and the scheduler's pass | |
| `CatalogPlan` (`MCCatalogPlan`) | trip creation and the listing, over `TripRules` | |
| `ClientItinerary` | the app's controller, its cache and the trip endpoints as seen from there | |
| `SignalSyncProofs`, `SignalIngestProofs`, `TripCommandProofs`, `TiersProofs`, `AnswerPathProofs`, `ItineraryProofs`, `CatalogPlanProofs`, `ClientItineraryProofs` | the proofs | |

`SignalSync` and `SignalIngest` meet in `SignalCustody`: each implements it with the other side
reduced to what it may do. `TripRules` is what `Itinerary` and `CatalogPlan` share. `TripCommand`
takes a trip as the sequence of the intents that took effect, `Itinerary` says what one intent does
to the nodes, `CatalogPlan` what a create puts there first, `ClientItinerary` what the app makes of
the answers.

### SignalSync

An action is the code between two awaits. `EmitCheck`/`EmitEnqueue` are the two halves of
`emit()`: the cap is read in one await, the row inserted in the next; `EmitError` is its catch. `pass` says at which await
the one running `syncOnce` is suspended (`_isSyncing` is `pass # "idle"`); `ReadBatch`,
`MarkInflight`, `SendPost`, `DeleteSynced`, `MarkFailedOne`, `HaltOnUnauthorized`, `BeginRetry`,
`MarkRetryOne`, `MarkFailedAll`, `PassError`, `Cleanup` are its segments and catch clauses, one
each. The loops of `markFailed` and `markRetry` are one step a row, so that a crash or a SQLite
error may fall between two rows. `SignOutBegin` to `SignOutRestart` are the six steps of
`SignOutController.run`; `SignOutFail` is any of its early returns, a restart that throws included. The token is read when the
request leaves (`SendPost`), as the interceptor does. `Crash` clears the memory and keeps the
outbox and the session; `Launch` is `main()`.

The server is `AnswerOk` (which items it rejects is open), `AnswerServerError` (any part of the
batch stored), `AnswerUnauthorized`, `AnswerPermanent`; `Timeout` may leave the request in `late`,
which `ServeLate` may serve at any later time. `StoredBy` is the insert with `ON CONFLICT DO
NOTHING`. Back-off is "due or not due"; when it expires is open. Signal ids are fresh UUIDs,
numbered in the order of capture.

Two switches narrow the environment where a property needs it: `QuietSignOut` (nothing else is
going on when a sign-out starts, and nobody taps during it) and `SlowStatements` (a SQLite
statement may take longer than sign-out's two network calls). `crossing` is a history variable: what an
emit past its cap check or a pass before its UPDATE held in memory at a wipe, and what was captured between
a wipe and the end of the old session.

`SignalCustody` says the same in four actions: a signal is accepted, stored, released only once
stored, or wiped. `ImplementsCustody` is the refinement: `known` is what emit accepted, `held` the
rows of the outbox.

### SignalIngest

`ingest_signals` has no await between its checks, so the requests of one instance run one after
the other. A batch goes through its signals in order, each through `Check` (type, body,
ownership), `Rate` (the cap per user, type and place), `Place` (is the place on the trip), `Gps` (with
consent), `Record` (the insert) and `Observe` (`derive_observed_duration`). The cap, the place and the position
are each preceded by `GetSignal`, the lookup that lets a retry of a stored signal pass; lookup and check are
two steps, so several instances interleave there and edits of the trip (`Replan`) come in between. The
insert is one step with the reads of data that is stamped on the row, and so is the derivation. `twice` is a
history variable: the signals that two instances have held at once. Every lookup that is caught has its failing
twin (`OwnerUnknown`, `CountUnknown`, `PlaceUnknown`, `DistanceUnknown`, `ObserveFails`), since each is caught
differently in the code; most refuse the item for good. `Abort` and
`GiveUpWaiting` are the request cut off and the client that sends the rows again while the first
request still runs. Which signals there are, and what they say, is an input (`Inputs`).
`SignalTypeColumn` tells the two back ends apart: the in-memory service keeps a column the
Postgres schema has not.

### TripCommand

One worker is one request being served; its record holds what the handler holds in local
variables (the step it is at, the trip, the state it loaded, whether it has found the quota's
date old). One action is one database statement: `Load`, `Lookup`, `ReadQuota`/`ResetQuota`
(`get_or_create_user` reads the date and resets it in a second statement), and the
`commit_trip_command` transaction, which is one action of five outcomes (`CommitRecorded`,
`CommitCreate`, `CommitConflict`, `CommitOverLimit`, `CommitEvent`), because it takes an advisory
lock on the command id and `FOR UPDATE` on the trip. `Fail` ends a handler anywhere, before or
after its commit: refusals, exceptions, a dead instance, a lost answer. `ResendEvent` and a
repeated `SendCreate` are the client's retries, also while the first request is still running.

Here a trip is the sequence of the intents that took effect, so that a lost update is a missing
element. Payload hashing is "same intent". `trip_node` and `trip_edge` rows are functions of the
state. Trip ids are fresh.

`TripLedger` is the promise: per trip a log that only grows, one effect per command id, answers
that tell of effects in the log at the version they have there.

### Tiers

One user's row. The stores are external: each keeps a subscription, posts every change of it as an
event until a 200 comes back, in any order and perhaps twice, and gives up after a while. `Apply`
is the UPDATE of `upgrade_user` or `downgrade_user`, `Select`, `Insert`, `UpdateKind` the three
statements of `get_or_create_user`; a request may fail between any two of them (`Fail`). Verify
asks RevenueCat (`Answer`) and writes what it heard after the await. `causes` is a history variable: it
names each way the code has of leaving a tier that is not what is paid for, so that the property
can say that there is no other way.

### AnswerPath

One process, one event loop, whose only await on this path is the completion call: everything
between two completions is one step. `BeginLight` embeds the message, looks it up in the scope
(user, stop, version) and asks a model on a miss; `BeginHeavy` searches venues and edits the stops;
`BeginUnsearched` embeds nothing. `Answered` and `CallFails` end a completion, with the next
model of the chain (`Attempt`) or the canned words; `Finish` stores the answer and then commits,
which may conflict. `Forget` is the 24 h window of the spend ledger sliding, `Expire` the purge of
the cache, `Restart` the loss of all three stores, `CommittedElsewhere` another process. `Ask` is
`ask_info` over the shared cache of catalog facts. A question stands for the wordings within the
cosine threshold; real and synthetic vectors never match. `RowNamed` is the catalog's answer to a stop's
name, which need not be the stop's own row.

### TripRules and Itinerary

`TripRules` has what every edit asks: local days and named slots, opening hours over midnight
(`Fits`, `Closed`, `OpenStarts`), walking, the flight cutoff, hotels (`CoveringHotel`,
`MorningHotel`, `MissesReturn`), reachability between neighbours (`SwapReachable`, `FitsLock`).
Where the code picks an earliest or a latest, the operator is the set of it (empty if there is
none), so "if there is a constraining flight" is a quantifier over at most one.

`Itinerary` has the events. One that reschedules makes a draft (`job`) and walks over it one node
a step, as `reschedule_and_validate` does: `PassSkipped`, `PassBooking`, `PassActivity`. Then the
draft becomes the itinerary (`Keep`), or, for a swap or reroute with a hard conflict, the next
candidate is tried on a fresh copy (`TryNext`) until the breaker trips (`GiveUp`). `Move`,
`DirectAdd`, `UncataloguedAdd` and `AskToAdd` place one node without a pass. The pass is in steps
because the rules it applies to a node read nodes it has not reached yet.

Abstractions: a venue has the same hours every day; venues are those that pass the
infrastructure filter; walking is a constant table; a region is a fixed offset from UTC; the order
of search results is left open (`Orderings`); nodes that tie on their start are told apart by
their place on the list instead of a random id; whole-day excursions, refusals for a name that
collides, an edit that takes the city off a booking of a single-city trip, times that do not parse, and
warnings are left out. Events of one trip do not overlap:
`TripCommand` shows that the version serialises them.

### CatalogPlan

`PackDay` fills the four slots of a day in turn (`Fill`): of the rows that can start in the slot
(`Starts`) it takes the `Choice`. `PackDays` packs days one after the other, each from what the
earlier ones left. `DayPlan`, `RangePlan` and `CorridorPlan` are the plans of the three forms of
`POST /trip/create`, as function tables over catalogs and requests; `CreateDay`, `CreateRange`, `CreateCorridor` are the
handlers with their checks. `ListTrips` is `GET /trips`: the regions, corridors and days it
advertises (`MaxDays` by way of the capacity cache and its `Fingerprint`), and the trip it features.
`Facts` is what the fingerprint takes of a row; what the code derives from category and tags (whether
a row is food, an excursion or infrastructure) is listed there as a fact of its own.
Around them the catalog is loaded anew, stops are skipped and time passes. Here a venue's hours do
depend on the weekday, and there are excursions that take most of a day. A coordinate is a position
on a line, interests and buckets are sets, a week has as many days as the instance gives it.

### ClientItinerary

`load()`, `applyEvent()`, `recordVisited()` and `recordSkipped()` cut at their awaits: `Reload`,
`Arrive`, `LoadFails`, `RestoreLovedRefs`, `RestoreNodeOutcomes`; `ApplyEvent`, `ReceiveEvent`,
`EventEnds`; `Record`, `Emit`, `Persist` and their failures. A decision comes from the outcome sheet
(`OpenSheet`, `DismissSheet`), which keeps the stop it was opened with while the state changes behind
it; what stops a decision is then only an outcome or a mark in the state of that moment, so several may
run, of one stop too. A restore whose statement fails finds nothing. An answer that lists no stops leaves
those on the screen, and caches them. Statements that the code issues without
awaiting them go into `writes` and run in order (`RunStatement`). `Relaunch` is a kill and a launch.
`Serve`, `ServeEvent` and `RefuseEvent` are the server: a trip is a version and the set of its
cancelled stops. Two ghosts: `overlapped`, the last load began while another one ran; `unread`, the last
load to end could not read `node_outcome`.

## 3 Runs

Between them the passing runs fire every action of every module, and for every property there is a
mutant of a mapped definition (it stands before the
definition it replaces; `PROJECT.json` names the pairs) that its run rejects.

| Run | Instance | What it shows |
|---|---|---|
| `SignalSync_safety` | 2 signals, 2 identities, 2 emitters, batch 2, cap 1, 1 fault, 1 crash, statements of any length | nothing is lost (`NoSilentLoss`), no stranded row (`InflightIsHeldByPass`), no queued row reaches the next user's account (`OnlyHeldSignalsCross`: what does is in `crossing`), final failures (`FailedStaysFailed`), the refinement of `SignalCustody` |
| `SignalSync_quiet` | 3 signals, quiet sign-out, 1 SQLite fault, 1 fault, 1 crash, fair | with nothing else going on during sign-out, signals stay with their owner (`AttributionHolds`); the race for the cap overshoots it by `Emitters - 1` at most; every queued signal is settled in the end (`EventuallySettled`) |
| `SignalIngest_safety` | 3 signals of 3 kinds, 2 instances, batches of 2, cap 1, 1 fault (a lookup that fails or an answer lost), 1 edit | `AcknowledgedIsStored`; a retry is refused for its own row only beside the first request (`RefusedForCause`); `CapPerInstance`, `SpansAreReal`, the refinement of `SignalCustody` |
| `TripCommand_safety` | 2 workers, 2 trips, a create, two reroutes, an edit and an Ask (two of them share a command id, the others have none), 4 requests, limit 1, one midnight | no lost update, one effect per id, stable answers, exact quota on the first day, at most the limit per concurrent request over a midnight, refinement of `TripLedger` |
| `Tiers_safety` | 2 requests at once, 2 changes at 2 stores, events in any order | `TierIsPaidFor` but for five named causes; `KindIsHighestServed` |
| `AnswerPath_safety` | 2 travellers, 2 open requests, 2 requests in all, chains of 1 and 2 models, caps 4 and 3, 2 catalogued stops | `SpendBounded`; what the cache serves is of the same traveller and trip version (`AnswersAreCurrent`), not always of the same stop; `CataloguedFactsOwnPlace` |
| `Itinerary_safety` | two cities, four venues, a train, a flight and a hotel, up to 4 nodes, 3 events | `BookingsStand`, `OnlyPushedLater`, `CancelledKeepsItsPlace`, `AcceptedIsFeasible`; `ActivitiesWait` within a city and day |
| `CatalogPlan_safety` | two cities, 11 rows of 9 venues, 3 catalogs, a week of 2 days, 2 trips, 1 change, 1 skip | `PlanHolds`, `AdvertisedIsKept`, `HomeNeverBlank` |
| `ClientItinerary_safety` | one stop in progress, 2 loads, 1 event of a screen, 2 decisions (each with its event), 1 kill, 1 failure | `OutcomesHold`, overlapping loads included; no shimmer, lock, skip or offline load waits for what will not come (`WaitsEnd`); `HeartsStay` unless loads overlap |
| `SignalSync_attribution`, `AnswerPath_repeat`, `Tiers_activated` | the smallest instance with the case | violated: section 5 |

`TypeOK` is an invariant of a run where it says more than types: of `CatalogPlan` that the capacity cache stays
within its size and has no key twice, of `Itinerary` that every node is on the list once, of `SignalIngest` that a request is never over
`max_length`, of `AnswerPath` that no bucket of the spend falls below zero, of `ClientItinerary` that an
error is never hidden behind a shimmer. The strengthened invariants of section 4 are proved; their runs are not repeated.

**Why the bounds are enough to be worth running.** SignalSync: two identities is the least with a
"before" and an "after" sign-out; two signals the least with a partly rejected batch and with a
row that outlives another; two emitters with cap 1 the least that race; one fault, one crash and
one late request the least in every order with the others. SignalIngest: two instances serve the
same rows at once after one lost answer, which with cap 1 lets a retry find its own row counted; three signals are two visits that make a span and one
more of the kind that is refused for its position; the edited trip has a stop swapped and another put between
two. A lookup that fails and an answer lost in the same behaviour are not in the instance; they are in the proofs. TripCommand: two workers the least that conflict; a shared id, an unkeyed intent and a stale
expected version each occur; four requests allow two creates and two racing events, or a create,
two events and a resend. Limit 1 puts the quota at its limit at once. A replayed create with an id
is not in the instance; it is in the proofs. Tiers: two changes give an old event that is delivered
after a newer one, of either store. AnswerPath: both caps are reached by one or two answers; two
completions are out together. Itinerary: half-hour ticks tell apart all slot floors, opening hours
and the 150 minutes; the venues are one that closes early, one that opens in the late afternoon,
one open past midnight (in another slot type) and one without hours in the other city; three
events are enough for a booking to be added, the plan edited around it, and a third event to
reschedule. CatalogPlan: a second row of a venue with other hours stands for a changed catalog; a
closing day, a split day and a window over midnight each occur. ClientItinerary: two loads, an event and two decisions
overlap in every order, the two on one stop; the one failure falls on any statement or request. Longer sequences and more nodes are beyond a few minutes of TLC.

Deadlock is off where the system may stop: an itinerary with no events left, requests used up,
subscriptions at rest. SignalSync and AnswerPath run with deadlock checking on.

**Fairness** (`SignalSync!FairSpec`, of `SignalSync_quiet`). Weak fairness on: the segments of a
pass and the insert of an emit, because the event loop resumes a continuation whose future has
completed; the server's answer or the client's timeout, because Dio has timeouts; the periodic
timer and the clock passing a back-off; the steps of a sign-out or its failure. Not fair: users,
connectivity, crashes, the next launch, the choice of an answer. Faults are bounded, which stands
for "not forever failing"; with a server that fails for ever a row is retried for ever.
`EventuallySettled` names its exceptions: the app closed, a halt after a 401, a sign-out that
failed and left the engine stopped, and the wedged guard of section 5. The other modules state
no liveness: a handler may fail at every step and nothing in the code tries again.

## 4 What is proved

For every value of the constants that satisfies the modules' assumptions (`ConstantsAssumption`,
`SignalIngestAssumption`, `TiersAssumption`, `SpendAssumption`, `RulesAssumption`,
`ItineraryAssumption`, `PlanAssumption`, `WorkersAssumption`, `BoundsAssumption`, `ClientItineraryAssumption`: bounds are naturals, limits positive; create, reroute and Ask
intents disjoint; a catalog row has a region, a place and a dwell time, walks are positive; a catalog is finite and has a venue
in one row, a corridor has a city once, a traveller chooses finitely many interests; no more days are advertised than a
range trip may have starter days (`Ceiling <= MaxStarters`; `config/interests.py:17` and `20` set both to 5); the requests
served at once are finitely many, since the caps of `TripCommand`, `AnswerPath` and `SignalIngest` are stated per
request; no finiteness of trips, intents or travellers is assumed):

| Theorem | Says |
|---|---|
| `SignalSyncProofs!TypeInvariant`, `SyncInvariant` | `TypeOK`, `SyncInv` |
| `Durability`, `InflightHeld`, `QueueBound` | `NoSilentLoss`, `InflightIsHeldByPass`, `QueueWithinCapPlusRace` |
| `FirstStoreWins`, `FailedIsFinal` | `StoredNeverReassigned`, `FailedStaysFailed` |
| `Attribution` | `OnlyHeldSignalsCross`, whatever runs beside a sign-out |
| `SignalSyncProofs!Refinement` | `SignalSync` implements `SignalCustody` |
| `TripCommandProofs!TypeInvariant`, `CommandInvariant` | `TypeOK`, `CommandInv` |
| `LostUpdateFreedom`, `Idempotence`, `StableAnswers` | `NoLostUpdate`, `OneEffectPerId`, `SameAnswer` |
| `DailyCapBound`, `ExactQuota` | `DailyCapPerWorker`, `QuotaExact` |
| `TripCommandProofs!Refinement` | `TripCommand` implements `TripLedger` |
| `TiersProofs!TypeCorrect` | `TypeOK` |
| `PaidFor`, `KindKept` | `TierIsPaidFor`, `KindIsHighestServed` |
| `AnswerPathProofs!Caps` | `SpendBounded` |
| `CurrentAnswers`, `FactsKeepTheirPlace` | `AnswersAreCurrent`, `CataloguedFactsOwnPlace` |
| `AnswerPathProofs!TypeCorrect`, `LedgerBalances` | `TypeOK`; the process's bucket is the sum of the identities' |
| `SignalIngestProofs!TypeInvariant`, `NothingLost` | `TypeOK`, `AcknowledgedIsStored` |
| `RealSpans`, `Causes`, `CapHolds` | `SpansAreReal`, `RefusedForCause`, `CapPerInstance` |
| `SignalIngestProofs!Refinement` | `SignalIngest` implements `SignalCustody` |
| `ItineraryProofs!TypeInvariant`, `Invariance` | `TypeOK`, `ItineraryInv` |
| `BookingsAlwaysStand`, `ActivitiesOnlyPushedLater`, `CancelledAlwaysKeepsItsPlace` | `BookingsStand`, `OnlyPushedLater`, `CancelledKeepsItsPlace` |
| `ActivitiesAlwaysWait`, `AcceptedAlwaysFeasible` | `ActivitiesWait`, `AcceptedIsFeasible` |
| `CatalogPlanProofs!Walked`, `HomeFeatures`, `TypeCorrect` | `PlanHolds`, `HomeNeverBlank`, `TypeOK` |
| `AdvertisedHolds` | `AdvertisedIsKept` |
| `SameFieldsSameDays`, `SpanFilled` | catalogs with the same fields fill as many days; a span no longer than `MaxDays` is filled from any date, for any interests |
| `ClientItineraryProofs!Invariant`, `TypeCorrect` | `IInv`, `TypeOK` |
| `Outcomes`, `Waits`, `Hearts` | `OutcomesHold`, `WaitsEnd`, `HeartsStay` |

**SignalSync.** None of the properties is inductive. `NoSilentLoss` breaks in a state where an
answer acknowledges an id that is not stored; so `CustodyInv` says that what an answer does not
reject is stored, that rows, batches and late requests only hold accepted signals, and that ids
of suspended emits are neither accepted nor reused. `FailedStaysFailed` breaks in a state where a
pass about to mark or retry holds a failed row; `PassInv` says it cannot, and that the loops stay
inside the batch. For the cap, `QueueInv` counts a suspended emit as having its row already.
`SyncInv` is their conjunction. Each action has its own step for each part it can disturb; the
cap needs three lemmas on cardinalities. `Attribution` assumes nothing of what runs beside a sign-out. `OwnersInv` follows a signal from the row
through the batch and the request to the server, always with the session it was captured under, with the sender
of the request it is in, or in `crossing`. The one delicate stretch is from the wipe to the end of the
session: there all that is queued, suspended or held before its UPDATE is in `crossing`, and a pass that has done its UPDATE
posts before the session ends, since statements answer in order. `AttributionHolds` follows for a device
that stands still for its sign-outs, where `crossing` stays empty (`QuietAttribution`).

**TripCommand.** A commit overwrites the trip with what the handler computed from the state it
had loaded; this loses nothing only if that state is a prefix of the trip's history and the
version check makes it the whole of it. `WentThrough` says prefix, `TellsOf` adds "ended by this
intent, and on record"; `HandlerInv` says it of every handler, `OrderInv` bounds the version the
client expects, `LedgerInv` of every ledger row, `AnswersInv` of every answer. One lemma shows that
appending to a trip's history preserves `WentThrough`; the commits then go action by action.
`DailyCapPerWorker` is bounded by what the resets can forget. `DayInv`: until the day's first reset no
request of the day is past its check, so nothing is charged; that reset leaves at most all the other
workers about to repeat it; no worker joins them that day, because from then on the row has the day's
date; and each repetition forgets at most `Limit`. `QuotaExact` is about the day before any reset: a
committed reroute adds one pair of trip and version to `RerouteEffects` and one to the quota, in the
same transaction.

**Tiers.** `TierIsPaidFor` speaks of quiet states only. `TiersInv` says what leads there: the tier
is right as soon as the newest change has been written, unless a cause is noted; until then the
newest change's event is on its way; and every request (`RequestOK`) and event (`Matches`) that is
of the newest change says what the subscription now is. `KindIsHighestServed` needs that a request
about to answer has seen a row whose kind is at least its own.

**AnswerPath.** `SpendBounded` is about sums of what was charged, so `SpendInv` states it per bucket: what has
been spent, and `MaxCost` for each call that is open, stay within the cap and `MaxCost` per worker.
A check adds a call to a bucket that is below its cap; an answer turns an open call into a charge;
everything else lowers one of the two. `CacheInv` says that a cached answer was made for the
traveller and the version in the scope it is kept under; the stop in the scope may be another than the answer's
(section 5). `FactsInv` says that a fact kept under a venue id is what the catalog says of a stop with that id.
That the window never takes a bucket below zero (`TypeOK`) needs that the process has spent what the
identities have: `Balanced` says so without a sum, counting the pairs of an identity and a unit of its
spend (`MoreUnits` is the one lemma about that count). It makes travellers who have spent nothing
free, so that any number of them is allowed.

**SignalIngest.** `NothingLost` needs `Sound`, said of every request: each of its items is left,
rejected or stored, and a request that derives a span has just stored the visit it derives from.
Requests of other instances only add rows, which keeps it (`SoundGrows`). The signal at hand is the
least of those left; that a non-empty set of naturals has a least element is `Least`, from the
library's fact that the strict subset order on finite sets is well-founded. `RealSpans` adds that the two
visits of a new span are stored and in order, and that the edge into a visited node is unique. For
`Causes`, `Justified` says of every request that what it has rejected has its cause already and that it has counted no more
rows than there are; both are stable as long as the trip is (`CausedStays`, `CountGrows`), and
whoever counts a new row for itself has just stored it. A row that came in between a retry's lookup and its
count was stored by another request that holds it; `TwiceInv` says that such rows have been noted. For `CapHolds`, `CapInv` adds to the rows of a
key the `Room` that the instances' counts still leave: an instance that takes its count, late as it may be
used, has room for at most a cap, each row it stores takes a place of its room, and a row that
another instance stores takes none from it, which is the overshoot the property allows.

**Itinerary.** The properties are about the step that makes a draft the itinerary, and what it does
was decided many steps earlier, when the event made the draft and while the pass walked over it. So
`ItineraryInv` speaks of the draft. `Carried` says what became of each node of the itinerary: a
booking is on the draft unchanged unless the event is its own, an activity is on it no earlier, a
cancelled one unchanged unless it is being swapped. It holds of every draft an event makes
(`CancelDraft`, `SwapDraftHolds`, `RerouteDraftHolds`, `Inserted`, `Removed`), and the pass keeps it
(`CarriedLater`), because it only writes the start of an activity that is not cancelled.
`Planned` says that activities ahead of `job.next` stand as the itinerary has them; `Walked` and
`Unclashed` what the pass has established behind it: each activity planned for the city and day of the
stop in front of it waits for the end of that stop and the walk, and while no conflict is noted all
stops are in order and clear of all flights. That only the last stop is compared is enough since a stop does not end
before it begins (`OrderlyOneMore`); that only the soonest flight is looked at, since what clears it
clears the later ones (`SoonestIsEnough`, with `Least` for there being a soonest); and that the nodes
behind are not looked at again, since the pass moves neither them nor a flight (`BehindStays`). The
numbers of nodes, venues, regions and events are any.

**CatalogPlan.** `PlanHolds` is inductive once the plans are known to hold (`PlanInv`); the work is in the plans.
`StartIsOpen` is about one stop: a start that `StartIn` finds on day `d` is an instant of that day in the city's
own clock, leaves the stay before midnight and lies in one opening of that weekday; it rests on the arithmetic of
`LocalDay` and `LocalTime` (`Quotient`, `SameDay`). `ChoiceExists` shows that the row `Choice` picks is one of
those that can start: the order has a least element, since each of its keys is a natural number
(`CentreInNat`, `LowestExists`). `Placed` adds that stop to the day: it comes after the walk from the
last one, takes a slot behind it and a venue not used before, and an excursion closes the slots it takes; `Filled`
does so for a slot, `DayPacked` for the four. `Joined` puts a day behind the earlier ones, `NextPacked` is one step
of `PackDays`, and `DaysPacked` all of them. The last one is an induction, for which no induction theorem can be used: a
first day that breaks the plan would be the least one, and the step from the day before shows that it does not
(`Least`, from the library's well-foundedness of the naturals). That the recursion defines a function at all is shown the same way
(`PackedExists`). `HomeFeatures` rests on `TripSpan`: a trip with a stop left has not ended, so it is under way or
still to come (`SomeFeatured`), and among finitely many one starts last or first (`Extremes`). `TypeCorrect` follows
the capacity cache over the regions of an answer (`Remembered`, `CapacitiesFacts`) and bounds the advertised days by
the ceiling (`DaysCounted`).

`AdvertisedHolds` compares two packings: the one an advertised number was computed from, perhaps of an older
catalog with the same fingerprint and always of a day among the first `Week`, and the one of the trip. Two pools are
`Alike` if they show the planner the same `Facts`, each venue in one row; two lists of stops are `Later` if
they hold like rows at the same hours, some days on. From `Alike` pools on dates whole weeks apart, the same
starts are possible (`StartInLater`, on the arithmetic of `InstantLater` and `ClockLater`), so the candidates of a slot
are mirror images (`StartsMirrored`). The order that breaks ties sees facts only: the centre of the pool
is counted from facts (`CentreAlike`), so each of its keys keeps the images (`LowestMirrored`), and it
ends with one venue, so `CHOOSE` has no choice (`ChoiceMirrored`). `DayLater` carries this over the slots
and `FullLater` over the days. Hence catalogs with the same fields fill as many days (`SameFieldsSameDays`), which makes every entry of the
cache true of every catalog with its fingerprint (`Entry`, `FingerprintSame`), and with it the answer
(`Listing`, `HomeHonest`). A span that was filled has its shorter spans filled (`FullPrefix`), so
from any date, for any interests, as many days as advertised are filled (`SpanFilled`). For a trip that short the probe of
`RangePlan` finds all its days, every day is a starter day (`EveryDayStarts`), and the plan is that packing,
with its stops on every day (`FullFilled`, `RangeFilled`); `SpanKept` says so of the trips that are kept, skipped
stops included.

**ClientItinerary.** `OutcomesHold` needs `SignalsHold`: of every place that holds an
outcome (the screen, the stored rows, what a load remembers across its awaits, a decision about to be
stored) its signal was emitted. Its other half is inductive as it stands: a load that ends brings what it read, and
a stored outcome is shown in the same step. `WaitsEnd` is `LocksHold` and `ReadsHold`; each run that ends releases the
lock it may have taken, but another's lock may be released with it, so the invariant says
only that a lock has some request, not whose. `ReadsHold` has each offline load exactly one read among the
statements (`ReadsOf`, `Awaits`), which appending a statement and running the first one keep. `HeartsStay`
is about a load's copy of the hearts: while no loads overlap, a load that runs is alone and has at least those
on the screen (`LoadAlone`).

**Only model-checked.** `EventuallySettled`: liveness under fairness and ENABLED are out of the
prover's reach. Every other property of a passing run is stated by a theorem above. No module uses RECURSIVE.

## 5 Where the code and its documents disagree

Three runs end in a counterexample; each is the smallest instance that has the case.

- `SignalSync_attribution`: `offline_database.dart:904` promises that A's rows can never be posted under
  B's token, since sign-out wipes the outbox. An `emit()` that has read the size of the outbox and is still
  to insert its row does so behind the wipe (`signal_service.dart:96`); the next pass posts it with
  B's token. A pass suspended before `markInflight` does the same to its whole batch if that statement outlasts
  sign-out's two requests (`SlowStatements`; `sync_engine.dart:91` promises the contrary of it).
  `OnlyHeldSignalsCross` says that there is no other way than these two and a signal captured after the wipe, while the old
  session still stands.
- `AnswerPath_repeat`: the README has a repeated question served from the cache at no cost. The
  scope of an entry holds the trip's version, and every answered event commits the next version:
  a repeat is a miss, unless the commit failed.
- `Tiers_activated`: `upgrade_user` is an UPDATE followed by `get_or_create_user`. For a user who
  has no row yet, the UPDATE writes nothing and a free row is inserted; the answer is "Pro
  subscription activated!" all the same.

**Known divergences.** The modules also state claims of documents or comments that the code was
found not to keep. They are not part of a run; add the definition to the cfg named here to see it
fail.

| Claim | Add to | What happens |
|---|---|---|
| `SignalSync!HaltIsOwnDoing` | `SignalSync_attribution` with `MaxFaults = 1` | a 401 to the old session's request that arrives after sign-out restarted the engine halts the new session's sync until the next launch (`sync_engine.dart:181`); only a device with nothing in flight at a sign-out is safe from it |
| `SignalSync!InflightNeverStuck` | `SignalSync_quiet`, as a PROPERTY | `finally` awaits `recoverInflight` before it clears `_isSyncing`; if that statement throws, no pass runs again until the app is restarted (`sync_engine.dart:219`) |
| `TripCommand!DailyCap` | `TripCommand_safety` | two requests that both read yesterday's date reset the quota one after the other; the second reset erases a reroute charged in between (`supabase_service.py:158`) |
| `TripCommand!OneEffectPerIntent` | `TripCommand_safety` | the app sends events without a `command_id`, so a retry after a lost answer is a second command; SPEC-44 A3 requires one on every retryable mutation |
| `AnswerPath!AnswersFitTheStop` | `AnswerPath_safety` | "the same question in another region, venue, ... never hits" (`state_machine.py:478`): the entry is stored under the stop the trip is at when the answer comes, the prompt was about the stop the question named or the trip was at before (`state_machine.py:430`, `1135`). It is served if the commit that followed failed, so that the version stood |
| `AnswerPath!FactsOwnPlace` | `AnswerPath_safety` with `Strays <- MCStrays`, `RowNamed <- MCRowNamed` | the key is "scoped to question + region + venue" (`ask_service.py:173`); stops without a venue id share one, and the fact found by the name of one is served at the other |
| `Itinerary!MovesClearOfBookings` | `Itinerary_safety`, as a PROPERTY | `apply_move` looks for the previous stop at the slot's floor and for the next one from the new start; when opening hours delay the start, a booking that begins in between is seen by neither and is overlapped (`move_service.py:294`) |
| `Itinerary!OtherDaysStand` | `Itinerary_safety`, as a PROPERTY | a stop with one of another city or day in front "must preserve [its] planned start" (`scheduler.py:56`): the pass leaves out the walk between them but still pushes it to the end of the stop in front, where that is later (`scheduler.py:143`) |
| `ClientItinerary!OneDecision` | `ClientItinerary_safety` | "a double tap cannot enqueue duplicates" (`docs/briefs/GENIE_SPEC_30_REMAINDER.md`): a load that began before a decision takes its mark when it ends, and a second decision on the stop enqueues again (`itinerary_notifier.dart:115`, `157`) |
| `ClientItinerary!MarksEnd` | `ClientItinerary_safety` | the same load brings back the mark of a decision that ended meanwhile; the prompt of that stop stays disabled (`itinerary_notifier.dart:115`) |
| `ClientItinerary!NeverGoesBack` | `ClientItinerary_safety`, as a PROPERTY | a load that ends replaces the stops an event has brought since its answer (`itinerary_notifier.dart:109`) |
| `ClientItinerary!CacheFollows` | `ClientItinerary_safety` | the update of `cache_trip` is a read and a write: a load's write falls between, and older stops are the last ones written (`itinerary_notifier.dart:443`) |
| `ClientItinerary!CacheHasStops` | `ClientItinerary_safety` | an answer without stops falls back to the stops of the state, "always safe" (`itinerary_notifier.dart:220`); while a load runs there are none, and the empty list is cached |
| `ClientItinerary!SkipCancels` | `ClientItinerary_safety`, as a PROPERTY | a skip confirmed while an event is being processed never sends its `cancel_activity` (`itinerary_notifier.dart:399`) |
| `SignalIngest!RetriesStayDuplicates` | `SignalIngest_safety` | "a retry of a stored signal_id skips the cap and stays a duplicate" (`signal_router.py:344`): not if the first request, still running, stores the signal between the retry's `get_signal` and its count. The device gives up a row that the server has |
| `SignalIngest!ConsecutiveArrivalsHaveTheirSpan` | `SignalIngest_safety` | visits that are stored out of order, or whose derivation fails, leave the edge without a span, and nothing derives it later; over Postgres (`SignalTypeColumn = FALSE`) none is ever derived: the query of earlier arrivals asks for a column the table has not, and the error is swallowed (`supabase_service.py:892`) |
| `CatalogPlan!CorridorDaysFilled` | `CatalogPlan_safety` | a corridor city without venues is skipped, not refused: the trip is created with empty days (`corridor_itinerary.py:199`) |

## 6 What is not modelled

- **Request guards** (rate limit per address, payload limits, cost tracking) run before a handler
  or beside it and keep no state that a handler reads. The spend circuit is in `AnswerPath`.
- **What Now, the Ask classifier, wording.** `ask_info` is in `AnswerPath` as far as its caches go and
  Ask-to-Add in `Itinerary`; which keyword selects which intent, the choice What Now makes and
  every text are left out. The Ask budget and breaker are declared and called by nothing.
- **Back-off arithmetic.** `1 << attempts` and its clamp are "due or not due" in `SignalSync`.
- **Alerts and departure notices** evaluate a trip against weather and walking times; pure functions.
- **Weather, maps, route providers, language models** are external; the models' outcomes are in
  `AnswerPath`.
- **Party, consent, erasure and the other tables** are written by single statements.
- **Other caches of the app** (alerts, Ask threads, the trip list) are written and read in one
  statement each.
- **Booking import, screens, routing, theme** keep no state that outlives the screen but what the
  controllers keep.
- **Startup, settings, schemas, logging; scripts, seed data, migrations** have no steps that
  interleave with anything.

`PROJECT.json` lists the components one by one.

## 7 What comes next

1. `SignalIngest` as the server of `SignalSync`, instead of meeting in `SignalCustody`; the answers
   of `TripCommand` as those of `ClientItinerary`.
2. What Now: an offer is open and reachable at the time it is made, and still when it is accepted.
3. Pure functions against a reference definition over bounded inputs: the back-off with 64-bit
   shifts, the classifier's precedence.
4. `Itinerary` with whole-day excursions and hours that depend on the weekday, as `CatalogPlan` has
   them, and with `CatalogPlan`'s trips as its `Created`.
