---------------------------- MODULE TripCommand ----------------------------
(***************************************************************************)
(* Trip commands on the server: POST /trip/create and POST /trip/event,    *)
(* their command ledger, the optimistic trip version and the daily reroute *)
(* quota.                                                                  *)
(*                                                                         *)
(* Every handler talks to the database in separate statements: load the    *)
(* trip, look the command up, read the quota (and reset it when its date   *)
(* is old), await the state machine, read the quota again, and run the     *)
(* commit_trip_command transaction.  Cloud Run runs several instances, so  *)
(* handlers interleave at every statement; an instance can die at any      *)
(* point, and an answer can be lost, after which the client sends again.   *)
(***************************************************************************)
EXTENDS Naturals, Sequences, FiniteSets

CONSTANTS
    Trips,        \* trip ids (bound)
    Intents,      \* what the traveller means to do, each one payload (bound)
    Creates,      \* the intents that are POST /trip/create
    Reroutes,     \* the structural events, which cost one reroute each
    Asks,         \* the ask_info events, which change nothing
    Keyed,        \* the intents whose requests carry a command_id
    Ids,          \* command ids
    IdOf,         \* the command_id of each keyed intent; two may share one
    Workers,      \* requests served at the same time (bound)
    Limit,        \* max_daily_reroutes: 5 or 50 in the code
    MaxRequests,  \* requests sent in all (bound)
    MaxDay,       \* midnights passed (bound)
    NoTrip, NoIntent

ASSUME ConstantsAssumption ==
    /\ Creates \subseteq Intents /\ Reroutes \subseteq Intents /\ Asks \subseteq Intents
    /\ Creates \cap Reroutes = {} /\ Creates \cap Asks = {} /\ Reroutes \cap Asks = {}
    /\ Keyed \subseteq Intents
    /\ IdOf \in [Keyed -> Ids]
    /\ Limit \in Nat \ {0}
    /\ MaxRequests \in Nat
    /\ MaxDay \in Nat
    /\ NoTrip \notin Trips /\ NoIntent \notin Intents

ASSUME WorkersAssumption == IsFiniteSet(Workers) /\ Workers # {}

\* A trip's state_json: its version, and the effects its nodes are the result
\* of.  Version 0 stands for no trip_states row.
TripState == [version : Nat, edits : Seq(Intents)]
NoState == [version |-> 0, edits |-> <<>>]

HandlerStep == {"idle", "open", "load", "lookup", "quota", "remain", "commit", "explain", "reply"}
IdleHandler == [step |-> "idle", intent |-> NoIntent, trip |-> NoTrip, seen |-> NoState,
                due |-> FALSE, born |-> 0]
Handler == [step : HandlerStep, intent : Intents \cup {NoIntent}, trip : Trips \cup {NoTrip},
            seen : TripState, due : BOOLEAN, born : Nat]

Order == [trip : Trips \cup {NoTrip}, expected : Nat]
NoOrder == [trip |-> NoTrip, expected |-> 0]

VARIABLES
    stored,    \* trip_states: the state of each trip
    ledger,    \* trip_command rows of the keyed commands
    quota,     \* the user's user_tiers row: reroutes used, and the date of its last reset
    handler,   \* the request each worker serves: where it is, the trip it works on, the state
               \* it holds, whether it has found the quota's date old, the day it arrived
    order,     \* the payload of each event, fixed when it is first sent
    sent,      \* requests sent so far
    answers,   \* history: the 200 answers the client has received
    day,       \* date.today()
    spent      \* history: reroutes granted today to requests that arrived today

databaseVars == <<stored, ledger, quota>>
clientVars == <<order, sent, answers>>
clockVars == <<day, spent>>
vars == <<databaseVars, handler, clientVars, clockVars>>

LedgerRow == [id : Ids, intent : Intents, trip : Trips, outcome : TripState]
AnswerRow == [intent : Intents, trip : Trips, outcome : TripState]

TypeOK ==
    /\ stored \in [Trips -> TripState]
    /\ ledger \subseteq LedgerRow
    /\ quota \in [used : 0 .. Limit, resetDay : 0 .. MaxDay]
    /\ handler \in [Workers -> Handler]
    /\ order \in [Intents -> Order]
    /\ sent \in 0 .. MaxRequests
    /\ answers \subseteq AnswerRow
    /\ day \in 0 .. MaxDay
    /\ spent \in Nat

\* A signed-in user, before their first trip.
Init ==
    /\ stored = [t \in Trips |-> NoState]
    /\ ledger = {}
    /\ quota = [used |-> 0, resetDay |-> 0]
    /\ handler = [w \in Workers |-> IdleHandler]
    /\ order = [i \in Intents |-> NoOrder]
    /\ sent = 0
    /\ answers = {}
    /\ day = 0 /\ spent = 0

-----------------------------------------------------------------------------
(* The client and the network *)

\* The server gives a new trip a fresh id: no row and no other handler has it.
Fresh(t) ==
    /\ stored[t].version = 0
    /\ \A w \in Workers : handler[w].trip # t

Arrive(w, i, step, trip) ==
    /\ handler[w].step = "idle"
    /\ sent < MaxRequests
    /\ sent' = sent + 1
    /\ handler' = [handler EXCEPT ![w] = [IdleHandler EXCEPT
                      !.step = step, !.intent = i, !.trip = trip, !.born = day]]
    /\ UNCHANGED <<databaseVars, answers, clockVars>>

\* POST /trip/create, for the first time or again.
SendCreate(w, i) ==
    /\ i \in Creates
    /\ \E t \in Trips : Fresh(t) /\ Arrive(w, i, "open", t)
    /\ UNCHANGED order

\* POST /trip/event for the first time: on a trip that exists, with the version
\* the client last saw as expected_version, or without one (0).
SendEvent(w, i) ==
    /\ i \notin Creates
    /\ order[i] = NoOrder
    /\ \E t \in Trips : \E e \in 0 .. stored[t].version :
        /\ stored[t].version > 0
        /\ order' = [order EXCEPT ![i] = [trip |-> t, expected |-> e]]
        /\ Arrive(w, i, "load", t)

\* The same request again, while the first is served or after it.
ResendEvent(w, i) ==
    /\ i \notin Creates
    /\ order[i] # NoOrder
    /\ Arrive(w, i, "load", order[i].trip)
    /\ UNCHANGED order

-----------------------------------------------------------------------------
(* The handler's statements *)

Goes(w, step) == handler' = [handler EXCEPT ![w].step = step]
Ends(w) == handler' = [handler EXCEPT ![w] = IdleHandler]

AtStep(w, step) == handler[w].step = step /\ ~handler[w].due
Doing(w) == handler[w].intent

AfterLookup(w) ==
    CASE Doing(w) \in Creates -> "commit"
      [] Doing(w) \in Reroutes -> "quota"
      [] OTHER -> "remain"

\* get_trip and require_trip_owner; the ledger is only asked for a keyed
\* command that is not an Ask.
Load(w) ==
    /\ AtStep(w, "load")
    /\ handler' = [handler EXCEPT
          ![w].seen = stored[handler[w].trip],
          ![w].step = IF Doing(w) \in Keyed \ Asks THEN "lookup" ELSE AfterLookup(w)]
    /\ UNCHANGED <<databaseVars, clientVars, clockVars>>

\* SELECT ... FROM trip_command WHERE user_id = ... AND command_id = ...
RecordedForTrip(w) ==
    {r \in ledger : Doing(w) \in Keyed /\ r.id = IdOf[Doing(w)] /\ r.trip = handler[w].trip}
Recorded(w) == {r \in ledger : Doing(w) \in Keyed /\ r.id = IdOf[Doing(w)]}

\* A replay answers with the outcome recorded when the command first ran.
OutcomeNow(r) == stored[r.trip]
OutcomeOf(r) == r.outcome

ReplayRecorded(w) ==
    \E r \in Recorded(w) :
        /\ r.intent = Doing(w)
        /\ handler' = [handler EXCEPT
              ![w].trip = r.trip, ![w].seen = OutcomeOf(r), ![w].step = "reply"]

\* The id was used with another payload: 409.
RefuseMismatch(w) ==
    /\ \E r \in Recorded(w) : r.intent # Doing(w)
    /\ Ends(w)

\* get_trip_command, before any expensive work.
Lookup(w) ==
    /\ AtStep(w, "lookup")
    /\ \/ ReplayRecorded(w)
       \/ RefuseMismatch(w)
       \/ Recorded(w) = {} /\ Goes(w, AfterLookup(w))
    /\ UNCHANGED <<databaseVars, clientVars, clockVars>>

\* What follows get_or_create_user or check_reroute_allowed, given the count it
\* returned: create goes on to its lookup, an event out of quota is refused
\* (403), and an Ask has nothing to commit.
StepAfterQuota(w, used) ==
    CASE handler[w].step = "open" -> IF Doing(w) \in Keyed THEN "lookup" ELSE "commit"
      [] handler[w].step = "quota" /\ used < Limit -> "remain"
      [] handler[w].step = "remain" -> IF Doing(w) \in Asks THEN "reply" ELSE "commit"
      [] OTHER -> "idle"

KnowsQuota(w, used) ==
    LET next == StepAfterQuota(w, used)
    IN  handler' = [handler EXCEPT ![w] = IF next = "idle" THEN IdleHandler
                                          ELSE [@ EXCEPT !.step = next, !.due = FALSE]]

\* SELECT * FROM user_tiers.  At "remain" the state machine has just returned.
ReadQuota(w) ==
    /\ \E step \in {"open", "quota", "remain", "explain"} : AtStep(w, step)
    /\ \/ quota.resetDay = day /\ KnowsQuota(w, quota.used)
       \/ quota.resetDay # day /\ handler' = [handler EXCEPT ![w].due = TRUE]
    /\ UNCHANGED <<databaseVars, clientVars, clockVars>>

ResetQuotaUndated(w) ==
    /\ handler[w].due
    /\ quota' = [quota EXCEPT !.used = 0]
    /\ KnowsQuota(w, 0)
    /\ UNCHANGED <<stored, ledger, clientVars, clockVars>>

\* _reset_daily_reroutes: an unconditional UPDATE, in a statement of its own.
ResetQuota(w) ==
    /\ handler[w].due
    /\ quota' = [used |-> 0, resetDay |-> day]
    /\ KnowsQuota(w, 0)
    /\ UNCHANGED <<stored, ledger, clientVars, clockVars>>

-----------------------------------------------------------------------------
(* commit_trip_command: one transaction, serialised per command id by an    *)
(* advisory lock and per trip by SELECT ... FOR UPDATE                      *)

\* request.expected_version, or else the version the handler loaded.
Expected(w) ==
    IF order[Doing(w)].expected # 0 THEN order[Doing(w)].expected ELSE handler[w].seen.version

VersionUnchecked(w) == stored[handler[w].trip].version > 0
VersionMatches(w) ==
    /\ stored[handler[w].trip].version > 0
    /\ stored[handler[w].trip].version = Expected(w)

ChargedAlways(w) == Doing(w) \notin Creates
Charged(w) == Doing(w) \in Reroutes

HasQuota == quota.used < Limit

\* The state the handler computed from the trip it had loaded.
Outcome(w) ==
    [version |-> stored[handler[w].trip].version + 1, edits |-> Append(handler[w].seen.edits, Doing(w))]

Effect(w) ==
    /\ stored' = [stored EXCEPT ![handler[w].trip] = Outcome(w)]
    /\ ledger' = IF Doing(w) \in Keyed
                 THEN ledger \cup {[id |-> IdOf[Doing(w)], intent |-> Doing(w),
                                    trip |-> handler[w].trip, outcome |-> Outcome(w)]}
                 ELSE ledger
    /\ handler' = [handler EXCEPT ![w].seen = Outcome(w), ![w].step = "reply"]

\* Another request with this id got there first.
CommitRecorded(w) ==
    /\ AtStep(w, "commit")
    /\ ReplayRecorded(w) \/ RefuseMismatch(w)
    /\ UNCHANGED <<databaseVars, clientVars, clockVars>>

\* The trip does not exist yet: insert it at version 1.
CommitCreate(w) ==
    /\ AtStep(w, "commit") /\ Recorded(w) = {}
    /\ Doing(w) \in Creates
    /\ stored[handler[w].trip].version = 0
    /\ Effect(w)
    /\ UNCHANGED <<quota, clientVars, clockVars>>

\* The stored trip changed after the handler, or the client, saw it: 409.
CommitConflict(w) ==
    /\ AtStep(w, "commit") /\ Recorded(w) = {}
    /\ Doing(w) \notin Creates /\ ~VersionMatches(w)
    /\ Ends(w)
    /\ UNCHANGED <<databaseVars, clientVars, clockVars>>

\* consume_reroute found no quota: nothing is written, and the handler reads the
\* quota once more to word its 403.
CommitOverLimit(w) ==
    /\ AtStep(w, "commit") /\ Recorded(w) = {}
    /\ Doing(w) \notin Creates /\ VersionMatches(w)
    /\ Charged(w) /\ ~HasQuota
    /\ Goes(w, "explain")
    /\ UNCHANGED <<databaseVars, clientVars, clockVars>>

\* The event takes effect; a structural one costs a reroute in the same
\* transaction.
CommitEvent(w) ==
    /\ AtStep(w, "commit") /\ Recorded(w) = {}
    /\ Doing(w) \notin Creates /\ VersionMatches(w)
    /\ \/ Charged(w) /\ HasQuota /\ quota' = [quota EXCEPT !.used = @ + 1]
       \/ ~Charged(w) /\ quota' = quota
    /\ spent' = IF Charged(w) /\ handler[w].born = day THEN spent + 1 ELSE spent
    /\ Effect(w)
    /\ UNCHANGED <<clientVars, day>>

-----------------------------------------------------------------------------
(* The answer, a lost answer, and the clock *)

\* 200 reaches the client.  An Ask's answer tells of no effect.
Reply(w) ==
    /\ AtStep(w, "reply")
    /\ answers' = IF Doing(w) \in Asks THEN answers
                  ELSE answers \cup {[intent |-> Doing(w), trip |-> handler[w].trip,
                                      outcome |-> handler[w].seen]}
    /\ Ends(w)
    /\ UNCHANGED <<databaseVars, order, sent, clockVars>>

\* The request ends without a 200: a guard or the state machine refuses it (4xx),
\* a statement or log_event raises (500), the instance dies, or the answer is
\* lost.  The handler's memory is gone and nothing is undone.
Fail(w) ==
    /\ handler[w].step # "idle"
    /\ Ends(w)
    /\ UNCHANGED <<databaseVars, clientVars, clockVars>>

Midnight ==
    /\ day < MaxDay
    /\ day' = day + 1
    /\ spent' = 0
    /\ UNCHANGED <<databaseVars, handler, clientVars>>

Serve(w) ==
    \/ Load(w) \/ Lookup(w) \/ ReadQuota(w) \/ ResetQuota(w)
    \/ CommitRecorded(w) \/ CommitCreate(w) \/ CommitConflict(w)
    \/ CommitOverLimit(w) \/ CommitEvent(w)
    \/ Reply(w) \/ Fail(w)

Next ==
    \/ \E w \in Workers :
        \/ \E i \in Intents : SendCreate(w, i) \/ SendEvent(w, i) \/ ResendEvent(w, i)
        \/ Serve(w)
    \/ Midnight

Spec == Init /\ [][Next]_vars

-----------------------------------------------------------------------------
(* Properties *)

Answered(r) == [intent |-> r.intent, trip |-> r.trip, version |-> r.outcome.version]

(***************************************************************************)
(* No lost update (SPEC-44 A2, "no path silently converts a conflict into  *)
(* last-write-wins"): a trip's version counts its effects, the effect of   *)
(* every recorded command stays in the trip at the version it was recorded *)
(* with, and every keyed effect of a trip is recorded.                     *)
(***************************************************************************)
NoLostUpdate ==
    /\ \A t \in Trips : stored[t].version = Len(stored[t].edits)
    /\ \A r \in ledger :
        /\ r.outcome.version \in DOMAIN stored[r.trip].edits
        /\ stored[r.trip].edits[r.outcome.version] = r.intent
    /\ \A t \in Trips : \A n \in DOMAIN stored[t].edits :
        stored[t].edits[n] \in Keyed =>
            \E r \in ledger : r.intent = stored[t].edits[n] /\ r.trip = t /\ r.outcome.version = n

(***************************************************************************)
(* A command id has one effect at most, on one trip, however often and     *)
(* however concurrently its request is sent (SPEC-44 A3).                  *)
(***************************************************************************)
OneEffectPerId ==
    \A t, u \in Trips : \A m \in DOMAIN stored[t].edits, n \in DOMAIN stored[u].edits :
        /\ stored[t].edits[m] \in Keyed /\ stored[u].edits[n] \in Keyed
        /\ IdOf[stored[t].edits[m]] = IdOf[stored[u].edits[n]]
        => t = u /\ m = n

(***************************************************************************)
(* Every 200 for a command id carries the first recorded outcome (SPEC-44  *)
(* A3), even when the trip has moved on; and every 200, keyed or not, is   *)
(* a state the trip really went through.                                   *)
(***************************************************************************)
SameAnswer ==
    /\ \A a, b \in answers :
        a.intent \in Keyed /\ b.intent \in Keyed /\ IdOf[a.intent] = IdOf[b.intent] => a = b
    /\ \A a \in answers :
        /\ a.outcome.version \in DOMAIN stored[a.trip].edits
        /\ a.outcome.edits = SubSeq(stored[a.trip].edits, 1, a.outcome.version)
        /\ a.outcome.edits[a.outcome.version] = a.intent

\* The structural effects on all trips.
RerouteEffects ==
    UNION {{<<t, n>> : n \in {m \in DOMAIN stored[t].edits : stored[t].edits[m] \in Reroutes}} : t \in Trips}

(***************************************************************************)
(* The quota counts exactly the reroutes that took effect: a replay, a     *)
(* refusal, a lost race or a failure costs nothing (the comment at         *)
(* trip_router.py:691), until the first midnight, whose reset may erase a  *)
(* charge of the new day.                                                  *)
(***************************************************************************)
QuotaExact == day = 0 => quota.used = Cardinality(RerouteEffects)

(***************************************************************************)
(* A user gets at most Limit reroutes a day (README.md, "Free users 5      *)
(* reroutes/day").  The reset is not atomic with the read that asks for    *)
(* it, so a second handler can repeat it after the first has reset.        *)
(***************************************************************************)
DailyCap == spent <= Limit

(***************************************************************************)
(* What does hold: every handler repeats the reset at most once, so a user *)
(* gets at most Limit reroutes a day per request served at the same time.  *)
(***************************************************************************)
DailyCapPerWorker == spent <= Limit * Cardinality(Workers)

(***************************************************************************)
(* An intent takes effect at most once, with a command_id or without       *)
(* (SPEC-44 A3, "Every externally retryable mutation carries a durable     *)
(* command_id").                                                           *)
(***************************************************************************)
OneEffectPerIntent ==
    \A t, u \in Trips : \A m \in DOMAIN stored[t].edits, n \in DOMAIN stored[u].edits :
        stored[t].edits[m] = stored[u].edits[n] => t = u /\ m = n

\* The abstract log: an effect is in it once it is stored.
Abstract == INSTANCE TripLedger WITH
    log <- [t \in Trips |-> stored[t].edits],
    answers <- {Answered(a) : a \in answers}

(***************************************************************************)
(* The handlers implement the ledger: trips only grow, one effect per id,  *)
(* answers tell of effects that happened.                                  *)
(***************************************************************************)
ImplementsLedger == Abstract!Spec

-----------------------------------------------------------------------------
(* The inductive invariant behind them *)

\* st is a state trip t is in, or was in before later effects.
WentThrough(db, t, st) ==
    /\ st.version = Len(st.edits)
    /\ st.version <= Len(db[t].edits)
    /\ \A n \in 1 .. st.version : st.edits[n] = db[t].edits[n]

\* st is what trip t became by the effect of i, and on record if i is keyed.
TellsOf(db, rows, i, t, st) ==
    /\ WentThrough(db, t, st)
    /\ st.version > 0
    /\ st.edits[st.version] = i
    /\ i \in Keyed => \E r \in rows : r.intent = i /\ r.trip = t /\ r.outcome = st

LedgerInv ==
    /\ \A t \in Trips : stored[t].version = Len(stored[t].edits)
    /\ \A r, s \in ledger : r.id = s.id => r = s
    /\ \A r \in ledger :
        /\ r.intent \in Keyed /\ IdOf[r.intent] = r.id
        /\ TellsOf(stored, ledger, r.intent, r.trip, r.outcome)
    /\ \A t \in Trips : \A n \in 1 .. Len(stored[t].edits) :
        stored[t].edits[n] \in Keyed =>
            \E r \in ledger : r.intent = stored[t].edits[n] /\ r.trip = t /\ r.outcome.version = n

OrderInv ==
    \A i \in Intents : order[i] # NoOrder =>
        order[i].trip \in Trips /\ order[i].expected <= stored[order[i].trip].version

\* A create carries no state until it commits; an event works on the trip it was
\* sent for, and holds a state no older than the version its client expects.
HandlerOK(h) ==
    h.step # "idle" =>
        /\ h.intent \in Intents /\ h.trip \in Trips
        /\ WentThrough(stored, h.trip, h.seen)
        /\ h.step = "reply" /\ h.intent \notin Asks =>
              TellsOf(stored, ledger, h.intent, h.trip, h.seen)
        /\ h.step # "reply" /\ h.intent \in Creates =>
              h.step \in {"open", "lookup", "commit"} /\ h.seen = NoState
        /\ h.step # "reply" /\ h.intent \notin Creates =>
              /\ h.step # "open"
              /\ order[h.intent] # NoOrder /\ order[h.intent].trip = h.trip
              /\ h.step # "load" => order[h.intent].expected <= h.seen.version

HandlerInv == \A w \in Workers : HandlerOK(handler[w])

AnswersInv == \A a \in answers : TellsOf(stored, ledger, a.intent, a.trip, a.outcome)

(***************************************************************************)
(* The ledger, the trips, the handlers' snapshots and the client's answers *)
(* agree.  Inductive together with TypeOK: NoLostUpdate, OneEffectPerId,   *)
(* SameAnswer and the refinement follow from it.                           *)
(***************************************************************************)
CommandInv == LedgerInv /\ OrderInv /\ HandlerInv /\ AnswersInv

\* The handlers that are about to reset the quota, and those past its check.
Resetting == {w \in Workers : handler[w].due}
Granted(h) == h.intent \in Reroutes /\ h.step \in {"remain", "commit", "explain"}

(***************************************************************************)
(* The quota row and the day.  Until the day's first reset no request of   *)
(* the day is past its check.  The first reset leaves at most all the      *)
(* other workers about to repeat it, no worker joins them that day, and    *)
(* each repetition forgets at most Limit charges.                          *)
(***************************************************************************)
DayInv ==
    /\ quota.resetDay <= day
    /\ \A w \in Workers : handler[w].born <= day
    /\ day = 0 => Resetting = {}
    /\ quota.resetDay # day => spent = 0 /\ \A w \in Workers : Granted(handler[w]) => handler[w].born < day
    /\ quota.resetDay = day =>
          spent + Limit * Cardinality(Resetting) + Limit <= quota.used + Limit * Cardinality(Workers)
=============================================================================
