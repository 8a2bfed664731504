------------------------- MODULE TripCommandProofs -------------------------
(***************************************************************************)
(* Proofs about TripCommand: CommandInv is inductive together with TypeOK, *)
(* and from it no update is lost, a command id has one effect, every       *)
(* answer is the recorded one, and the handlers implement TripLedger.      *)
(* From DayInv follow the bound on a day's reroutes and, on the first day, *)
(* that the quota counts the reroutes that took effect.                    *)
(***************************************************************************)
EXTENDS TripCommand, SequenceTheorems, FiniteSetTheorems, TLAPS

(***************************************************************************)
(* Types: every action keeps TypeOK.  That an event's request names a real *)
(* intent and trip comes from HandlerInv.                                  *)
(***************************************************************************)
LEMMA TypeInit == Init => TypeOK
<1> SUFFICES ASSUME Init PROVE TypeOK
    OBVIOUS
<1>1. NoState \in TripState
    BY EmptySeq DEF NoState, TripState
<1>2. IdleHandler \in Handler
    BY <1>1 DEF IdleHandler, Handler, HandlerStep
<1> QED
    BY <1>1, <1>2, ConstantsAssumption
    DEF Init, TypeOK, ConstantsAssumption, Order, NoOrder

(***************************************************************************)
(* The state a commit computes is a trip state.                            *)
(***************************************************************************)
LEMMA OutcomeType ==
    ASSUME TypeOK, NEW w \in Workers,
           handler[w].trip \in Trips, Doing(w) \in Intents
    PROVE  /\ Outcome(w) \in TripState
           /\ Outcome(w).version = stored[handler[w].trip].version + 1
           /\ Outcome(w).edits = Append(handler[w].seen.edits, Doing(w))
<1>1. handler[w] \in Handler
    BY DEF TypeOK
<1>2. handler[w].seen \in TripState /\ stored[handler[w].trip] \in TripState
    BY <1>1 DEF TypeOK, Handler
<1>3. handler[w].seen.edits \in Seq(Intents) /\ stored[handler[w].trip].version \in Nat
    BY <1>2 DEF TripState
<1>4. Append(handler[w].seen.edits, Doing(w)) \in Seq(Intents)
    BY <1>3
<1>5. stored[handler[w].trip].version + 1 \in Nat
    BY <1>3
<1> HIDE DEF Doing
<1>6. Outcome(w) = [version |-> stored[handler[w].trip].version + 1,
                    edits |-> Append(handler[w].seen.edits, Doing(w))]
    BY DEF Outcome
<1>7. Outcome(w) \in TripState
    BY <1>4, <1>5, <1>6 DEF TripState
<1> QED
    BY <1>6, <1>7

(***************************************************************************)
(* A step of one handler to a well-typed handler keeps the type of all.    *)
(***************************************************************************)
LEMMA HandlerType ==
    ASSUME TypeOK, NEW w \in Workers, NEW h \in Handler,
           handler' = [handler EXCEPT ![w] = h]
    PROVE  handler' \in [Workers -> Handler]
BY DEF TypeOK

\* The memory of a worker without a request is a handler record.
LEMMA IdleType == IdleHandler \in Handler
BY EmptySeq DEF IdleHandler, Handler, HandlerStep, NoState, TripState

(***************************************************************************)
(* What a busy handler is known to hold.                                   *)
(***************************************************************************)
LEMMA BusyHandler ==
    ASSUME TypeOK, HandlerInv, NEW w \in Workers, handler[w].step # "idle"
    PROVE  /\ Doing(w) \in Intents
           /\ handler[w].trip \in Trips
           /\ handler[w] \in Handler
           /\ handler[w].seen \in TripState
BY DEF TypeOK, HandlerInv, HandlerOK, Doing, Handler

(***************************************************************************)
(* Where a handler goes after the quota is a step of a handler.            *)
(***************************************************************************)
LEMMA NextStepTypes ==
    ASSUME NEW w \in Workers, NEW used
    PROVE  AfterLookup(w) \in HandlerStep /\ StepAfterQuota(w, used) \in HandlerStep
<1>1. AfterLookup(w) \in HandlerStep
    BY DEF AfterLookup, HandlerStep
<1>2. StepAfterQuota(w, used) \in HandlerStep
    BY DEF StepAfterQuota, HandlerStep
<1> QED
    BY <1>1, <1>2

(***************************************************************************)
(* Typing of a request's arrival.                                          *)
(***************************************************************************)
LEMMA ArriveType ==
    ASSUME TypeOK, NEW w \in Workers, NEW i \in Intents,
           NEW step \in HandlerStep, NEW t \in Trips,
           Arrive(w, i, step, t)
    PROVE  /\ handler' \in [Workers -> Handler]
           /\ sent' \in 0 .. MaxRequests
           /\ UNCHANGED <<databaseVars, answers, clockVars>>
<1>1. day \in Nat /\ sent \in Nat /\ MaxRequests \in Nat
    BY ConstantsAssumption DEF TypeOK, ConstantsAssumption
<1>2. [IdleHandler EXCEPT !.step = step, !.intent = i, !.trip = t, !.born = day] \in Handler
    BY <1>1, IdleType DEF Handler, IdleHandler
<1>3. handler' \in [Workers -> Handler]
    BY <1>2, HandlerType DEF Arrive
<1>4. sent' \in 0 .. MaxRequests
    BY <1>1 DEF Arrive, TypeOK
<1> QED
    BY <1>3, <1>4 DEF Arrive

(***************************************************************************)
(* Typing of the handler's moves: to another step, to idle, to the answer  *)
(* on record.                                                              *)
(***************************************************************************)
LEMMA MoveType ==
    ASSUME TypeOK, NEW w \in Workers
    PROVE  /\ \A step \in HandlerStep : Goes(w, step) => handler' \in [Workers -> Handler]
           /\ Ends(w) => handler' \in [Workers -> Handler]
           /\ ReplayRecorded(w) => handler' \in [Workers -> Handler]
           /\ \A used : KnowsQuota(w, used) => handler' \in [Workers -> Handler]
<1>0. handler \in [Workers -> Handler] /\ handler[w] \in Handler
    BY DEF TypeOK
<1>1. ASSUME NEW step \in HandlerStep, Goes(w, step) PROVE handler' \in [Workers -> Handler]
    BY <1>0, <1>1 DEF Goes, Handler
<1>2. ASSUME Ends(w) PROVE handler' \in [Workers -> Handler]
    BY <1>0, <1>2, IdleType DEF Ends
<1>3. ASSUME ReplayRecorded(w) PROVE handler' \in [Workers -> Handler]
    <2>1. PICK r \in Recorded(w) : handler' = [handler EXCEPT
              ![w].trip = r.trip, ![w].seen = OutcomeOf(r), ![w].step = "reply"]
        BY <1>3 DEF ReplayRecorded
    <2>2. r \in LedgerRow
        BY <2>1 DEF Recorded, TypeOK
    <2>3. r.trip \in Trips /\ OutcomeOf(r) \in TripState /\ "reply" \in HandlerStep
        BY <2>2 DEF LedgerRow, OutcomeOf, HandlerStep
    <2> QED
        BY <1>0, <2>1, <2>3 DEF Handler
<1>4. ASSUME NEW used, KnowsQuota(w, used) PROVE handler' \in [Workers -> Handler]
    <2>1. StepAfterQuota(w, used) \in HandlerStep
        BY NextStepTypes
    <2>2. [handler[w] EXCEPT !.step = StepAfterQuota(w, used), !.due = FALSE] \in Handler
        BY <1>0, <2>1 DEF Handler
    <2> QED
        BY <1>0, <1>4, <2>2, IdleType DEF KnowsQuota
<1> QED
    BY <1>1, <1>2, <1>3, <1>4

(***************************************************************************)
(* Typing of an effect.                                                    *)
(***************************************************************************)
LEMMA EffectType ==
    ASSUME TypeOK, HandlerInv, NEW w \in Workers, handler[w].step # "idle", Effect(w)
    PROVE  /\ stored' \in [Trips -> TripState]
           /\ ledger' \subseteq LedgerRow
           /\ handler' \in [Workers -> Handler]
<1>1. /\ Doing(w) \in Intents /\ handler[w].trip \in Trips /\ handler[w] \in Handler
      /\ Outcome(w) \in TripState
    BY BusyHandler, OutcomeType
<1>2. stored' \in [Trips -> TripState]
    BY <1>1 DEF Effect, TypeOK
<1>3. ledger' \subseteq LedgerRow
    <2>1. CASE Doing(w) \in Keyed
        <3>1. IdOf[Doing(w)] \in Ids
            BY <2>1, ConstantsAssumption DEF ConstantsAssumption
        <3>2. [id |-> IdOf[Doing(w)], intent |-> Doing(w),
               trip |-> handler[w].trip, outcome |-> Outcome(w)] \in LedgerRow
            BY <1>1, <3>1 DEF LedgerRow
        <3> QED
            BY <2>1, <3>2 DEF Effect, TypeOK
    <2>2. CASE Doing(w) \notin Keyed
        BY <2>2 DEF Effect, TypeOK
    <2> QED
        BY <2>1, <2>2
<1>4. handler' \in [Workers -> Handler]
    <2>1. "reply" \in HandlerStep
        BY DEF HandlerStep
    <2> QED
        BY <1>1, <2>1 DEF Effect, Handler, TypeOK
<1> QED
    BY <1>2, <1>3, <1>4

(***************************************************************************)
(* Every step keeps TypeOK.                                                *)
(***************************************************************************)
LEMMA TypeStep ==
    ASSUME TypeOK, HandlerInv, OrderInv, [Next]_vars
    PROVE  TypeOK'
<1>0. TypeOK /\ HandlerInv /\ OrderInv
    OBVIOUS
<1> DEFINE Quiet == UNCHANGED <<databaseVars, clientVars, clockVars>>
<1>1. ASSUME handler' \in [Workers -> Handler], Quiet PROVE TypeOK'
    BY <1>0, <1>1 DEF TypeOK, databaseVars, clientVars, clockVars
<1>2. ASSUME NEW w \in Workers, NEW i \in Intents, SendCreate(w, i) PROVE TypeOK'
    <2>1. PICK t \in Trips : Arrive(w, i, "open", t)
        BY <1>2 DEF SendCreate
    <2>2. "open" \in HandlerStep
        BY DEF HandlerStep
    <2>3. /\ handler' \in [Workers -> Handler] /\ sent' \in 0 .. MaxRequests
          /\ UNCHANGED <<databaseVars, answers, clockVars>>
        BY <1>0, <2>1, <2>2, ArriveType
    <2> QED
        BY <1>0, <1>2, <2>3 DEF SendCreate, TypeOK, databaseVars, clockVars
<1>3. ASSUME NEW w \in Workers, NEW i \in Intents, SendEvent(w, i) PROVE TypeOK'
    <2>0. PICK t \in Trips : \E e \in 0 .. stored[t].version :
              /\ order' = [order EXCEPT ![i] = [trip |-> t, expected |-> e]]
              /\ Arrive(w, i, "load", t)
        BY <1>3 DEF SendEvent
    <2>1. PICK e \in 0 .. stored[t].version :
              /\ order' = [order EXCEPT ![i] = [trip |-> t, expected |-> e]]
              /\ Arrive(w, i, "load", t)
        BY <2>0
    <2>2. "load" \in HandlerStep
        BY DEF HandlerStep
    <2>3. /\ handler' \in [Workers -> Handler] /\ sent' \in 0 .. MaxRequests
          /\ UNCHANGED <<databaseVars, answers, clockVars>>
        BY <1>0, <2>1, <2>2, ArriveType
    <2>4. e \in Nat
        BY <1>0, <2>1 DEF TypeOK, TripState
    <2>5. order' \in [Intents -> Order]
        BY <1>0, <2>1, <2>4 DEF TypeOK, Order
    <2> QED
        BY <1>0, <2>3, <2>5 DEF TypeOK, databaseVars, clockVars
<1>4. ASSUME NEW w \in Workers, NEW i \in Intents, ResendEvent(w, i) PROVE TypeOK'
    <2>1. order[i].trip \in Trips /\ Arrive(w, i, "load", order[i].trip)
        BY <1>0, <1>4 DEF ResendEvent, OrderInv
    <2>2. "load" \in HandlerStep
        BY DEF HandlerStep
    <2>3. /\ handler' \in [Workers -> Handler] /\ sent' \in 0 .. MaxRequests
          /\ UNCHANGED <<databaseVars, answers, clockVars>>
        BY <1>0, <2>1, <2>2, ArriveType
    <2> QED
        BY <1>0, <1>4, <2>3 DEF ResendEvent, TypeOK, databaseVars, clockVars
<1>5. ASSUME NEW w \in Workers, Load(w) PROVE TypeOK'
    <2>1. handler[w].step # "idle"
        BY <1>5 DEF Load, AtStep
    <2>2. handler[w] \in Handler /\ stored[handler[w].trip] \in TripState
        BY <1>0, <2>1, BusyHandler DEF TypeOK
    <2>3. "lookup" \in HandlerStep /\ AfterLookup(w) \in HandlerStep
        BY NextStepTypes DEF HandlerStep
    <2>4. handler' \in [Workers -> Handler]
        BY <1>0, <1>5, <2>2, <2>3 DEF Load, Handler, TypeOK
    <2> QED
        BY <1>1, <1>5, <2>4 DEF Load
<1>6. ASSUME NEW w \in Workers, Lookup(w) PROVE TypeOK'
    <2>1. AfterLookup(w) \in HandlerStep
        BY NextStepTypes
    <2>2. handler' \in [Workers -> Handler]
        BY <1>0, <1>6, <2>1, MoveType DEF Lookup, RefuseMismatch
    <2> QED
        BY <1>1, <1>6, <2>2 DEF Lookup
<1>7. ASSUME NEW w \in Workers, ReadQuota(w) PROVE TypeOK'
    <2>1. CASE KnowsQuota(w, quota.used)
        BY <1>0, <1>1, <1>7, <2>1, MoveType DEF ReadQuota
    <2>2. CASE handler' = [handler EXCEPT ![w].due = TRUE]
        <3>1. handler' \in [Workers -> Handler]
            BY <1>0, <2>2 DEF TypeOK, Handler
        <3> QED
            BY <1>1, <1>7, <3>1 DEF ReadQuota
    <2> QED
        BY <1>7, <2>1, <2>2 DEF ReadQuota
<1>8. ASSUME NEW w \in Workers, ResetQuota(w) PROVE TypeOK'
    <2>1. handler' \in [Workers -> Handler]
        BY <1>0, <1>8, MoveType DEF ResetQuota
    <2>2. quota' \in [used : 0 .. Limit, resetDay : 0 .. MaxDay]
        BY <1>0, <1>8, ConstantsAssumption DEF ResetQuota, TypeOK, ConstantsAssumption
    <2> QED
        BY <1>0, <1>8, <2>1, <2>2 DEF ResetQuota, TypeOK, clientVars, clockVars
<1>9. ASSUME NEW w \in Workers, CommitRecorded(w) PROVE TypeOK'
    BY <1>0, <1>1, <1>9, MoveType DEF CommitRecorded, RefuseMismatch
<1>10. ASSUME NEW w \in Workers, CommitCreate(w) PROVE TypeOK'
    <2>1. handler[w].step # "idle" /\ Effect(w)
        BY <1>10 DEF CommitCreate, AtStep
    <2>2. /\ stored' \in [Trips -> TripState] /\ ledger' \subseteq LedgerRow
          /\ handler' \in [Workers -> Handler]
        BY <1>0, <2>1, EffectType
    <2> QED
        BY <1>0, <1>10, <2>2 DEF CommitCreate, TypeOK, clientVars, clockVars
<1>11. ASSUME NEW w \in Workers, CommitConflict(w) PROVE TypeOK'
    BY <1>0, <1>1, <1>11, MoveType DEF CommitConflict
<1>12. ASSUME NEW w \in Workers, CommitOverLimit(w) PROVE TypeOK'
    <2>1. "explain" \in HandlerStep
        BY DEF HandlerStep
    <2> QED
        BY <1>0, <1>1, <1>12, <2>1, MoveType DEF CommitOverLimit
<1>13. ASSUME NEW w \in Workers, CommitEvent(w) PROVE TypeOK'
    <2>1. handler[w].step # "idle" /\ Effect(w)
        BY <1>13 DEF CommitEvent, AtStep
    <2>2. /\ stored' \in [Trips -> TripState] /\ ledger' \subseteq LedgerRow
          /\ handler' \in [Workers -> Handler]
        BY <1>0, <2>1, EffectType
    <2>3. quota' \in [used : 0 .. Limit, resetDay : 0 .. MaxDay]
        BY <1>0, <1>13, ConstantsAssumption
        DEF CommitEvent, HasQuota, TypeOK, ConstantsAssumption
    <2>4. spent' \in Nat
        BY <1>0, <1>13 DEF CommitEvent, TypeOK
    <2> QED
        BY <1>0, <1>13, <2>2, <2>3, <2>4 DEF CommitEvent, TypeOK, clientVars
<1>14. ASSUME NEW w \in Workers, Reply(w) PROVE TypeOK'
    <2>1. handler[w].step # "idle" /\ Ends(w)
        BY <1>14 DEF Reply, AtStep
    <2>2. handler' \in [Workers -> Handler]
        BY <1>0, <2>1, MoveType
    <2>3. Doing(w) \in Intents /\ handler[w].trip \in Trips /\ handler[w].seen \in TripState
        BY <1>0, <2>1, BusyHandler
    <2>4. [intent |-> Doing(w), trip |-> handler[w].trip, outcome |-> handler[w].seen] \in AnswerRow
        BY <2>3 DEF AnswerRow
    <2>5. answers' \subseteq AnswerRow
        BY <1>0, <1>14, <2>4 DEF Reply, TypeOK
    <2> QED
        BY <1>0, <1>14, <2>2, <2>5 DEF Reply, TypeOK, databaseVars, clockVars
<1>15. ASSUME NEW w \in Workers, Fail(w) PROVE TypeOK'
    BY <1>0, <1>1, <1>15, MoveType DEF Fail
<1>16. ASSUME Midnight PROVE TypeOK'
    <2>1. day' \in 0 .. MaxDay /\ spent' \in Nat
        BY <1>0, <1>16, ConstantsAssumption DEF Midnight, TypeOK, ConstantsAssumption
    <2> QED
        BY <1>0, <1>16, <2>1 DEF Midnight, TypeOK, databaseVars, clientVars
<1>17. CASE UNCHANGED vars
    BY <1>0, <1>17 DEF vars, TypeOK, databaseVars, clientVars, clockVars
<1> QED
    BY <1>2, <1>3, <1>4, <1>5, <1>6, <1>7, <1>8, <1>9, <1>10, <1>11, <1>12, <1>13,
       <1>14, <1>15, <1>16, <1>17 DEF Next, Serve

(***************************************************************************)
(* What a trip went through stays what it went through while its log only  *)
(* gets longer, and what is on record stays on record.                     *)
(***************************************************************************)
LEMMA WentOn ==
    ASSUME NEW db \in [Trips -> TripState], NEW db2 \in [Trips -> TripState],
           NEW t \in Trips, NEW st \in TripState,
           Len(db[t].edits) <= Len(db2[t].edits),
           \A n \in 1 .. Len(db[t].edits) : db2[t].edits[n] = db[t].edits[n],
           WentThrough(db, t, st)
    PROVE  WentThrough(db2, t, st)
<1>1. st.version \in Nat /\ db[t].edits \in Seq(Intents) /\ db2[t].edits \in Seq(Intents)
    BY DEF TripState
<1>2. Len(db[t].edits) \in Nat /\ Len(db2[t].edits) \in Nat
    BY <1>1
<1>3. st.version = Len(st.edits) /\ st.version <= Len(db2[t].edits)
    BY <1>1, <1>2 DEF WentThrough
<1>4. ASSUME NEW n \in 1 .. st.version PROVE st.edits[n] = db2[t].edits[n]
    <2>1. n \in 1 .. Len(db[t].edits)
        BY <1>1, <1>2, <1>4 DEF WentThrough
    <2> QED
        BY <1>4, <2>1 DEF WentThrough
<1> QED
    BY <1>3, <1>4 DEF WentThrough

\* What was said of a trip's effects stays true when the trip and the ledger grow.
LEMMA ToldOn ==
    ASSUME NEW db \in [Trips -> TripState], NEW db2 \in [Trips -> TripState],
           NEW rows, NEW rows2, rows \subseteq rows2,
           NEW t \in Trips, NEW st \in TripState, NEW i,
           Len(db[t].edits) <= Len(db2[t].edits),
           \A n \in 1 .. Len(db[t].edits) : db2[t].edits[n] = db[t].edits[n],
           TellsOf(db, rows, i, t, st)
    PROVE  TellsOf(db2, rows2, i, t, st)
<1>1. WentThrough(db2, t, st)
    BY WentOn DEF TellsOf
<1> QED
    BY <1>1 DEF TellsOf

(***************************************************************************)
(* The empty state is one every trip went through.                         *)
(***************************************************************************)
LEMMA NoStateWentThrough ==
    ASSUME NEW db \in [Trips -> TripState], NEW t \in Trips
    PROVE  WentThrough(db, t, NoState)
<1>1. Len(db[t].edits) \in Nat
    BY DEF TripState
<1> QED
    BY <1>1, EmptySeq DEF WentThrough, NoState

(***************************************************************************)
(* A step of one handler that leaves the database and the payloads alone   *)
(* only has to leave that handler in order.                                *)
(***************************************************************************)
LEMMA LocalStep ==
    ASSUME CommandInv, NEW w \in Workers,
           UNCHANGED <<stored, ledger, order, answers>>,
           \A v \in Workers \ {w} : handler'[v] = handler[v],
           HandlerOK(handler'[w])
    PROVE  CommandInv'
<1>1. LedgerInv' /\ AnswersInv' /\ OrderInv'
    BY DEF CommandInv, LedgerInv, AnswersInv, OrderInv
<1>2. ASSUME NEW v \in Workers PROVE HandlerOK(handler[v])'
    <2>1. HandlerOK(handler'[v])
        BY DEF CommandInv, HandlerInv
    <2> QED
        BY <2>1 DEF HandlerOK
<1> QED
    BY <1>1, <1>2 DEF CommandInv, HandlerInv

(***************************************************************************)
(* The local moves leave the handler in order: ending, answering from the  *)
(* record, and the moves that only change the step.                        *)
(***************************************************************************)
LEMMA EndsOK ==
    ASSUME TypeOK, NEW w \in Workers, Ends(w)
    PROVE  /\ HandlerOK(handler'[w])
           /\ \A v \in Workers \ {w} : handler'[v] = handler[v]
BY DEF Ends, HandlerOK, IdleHandler, TypeOK

\* A handler that found its command recorded holds the recorded outcome.
LEMMA ReplayOK ==
    ASSUME TypeOK, CommandInv, NEW w \in Workers, handler[w].step # "idle", ReplayRecorded(w)
    PROVE  /\ HandlerOK(handler'[w])
           /\ \A v \in Workers \ {w} : handler'[v] = handler[v]
<1>1. PICK r \in Recorded(w) :
          /\ r.intent = Doing(w)
          /\ handler' = [handler EXCEPT
                ![w].trip = r.trip, ![w].seen = OutcomeOf(r), ![w].step = "reply"]
    BY DEF ReplayRecorded
<1>2. r \in ledger /\ r \in LedgerRow
    BY <1>1 DEF Recorded, TypeOK
<1>3. TellsOf(stored, ledger, r.intent, r.trip, r.outcome) /\ r.trip \in Trips
    BY <1>2 DEF CommandInv, LedgerInv, LedgerRow
<1>4. handler[w] \in Handler /\ handler \in [Workers -> Handler] /\ Doing(w) \in Intents
    BY BusyHandler DEF CommandInv, TypeOK
<1>5. /\ handler'[w].step = "reply" /\ handler'[w].intent = r.intent
      /\ handler'[w].trip = r.trip /\ handler'[w].seen = r.outcome
    BY <1>1, <1>4 DEF Handler, Doing, OutcomeOf
<1>6. WentThrough(stored, r.trip, r.outcome)
    BY <1>3 DEF TellsOf
<1>7. HandlerOK(handler'[w])
    BY <1>1, <1>3, <1>4, <1>5, <1>6 DEF HandlerOK
<1>8. \A v \in Workers \ {w} : handler'[v] = handler[v]
    BY <1>1, <1>4
<1> QED
    BY <1>7, <1>8

\* A statement that changes no trip leaves every other handler alone.
LEMMA MoveOK ==
    ASSUME TypeOK, CommandInv, NEW w \in Workers, NEW h \in Handler,
           handler' = [handler EXCEPT ![w] = h],
           handler[w].step # "idle", handler[w].step # "reply",
           h.intent = handler[w].intent, h.trip = handler[w].trip, h.seen = handler[w].seen,
           \/ h.step = handler[w].step
           \/ h.step = "reply" /\ Doing(w) \in Asks
           \/ h.step \in {"lookup", "commit"} /\ Doing(w) \in Creates
           \/ h.step \in {"quota", "remain", "commit", "explain"} /\ Doing(w) \notin Creates
              /\ handler[w].step # "load"
    PROVE  /\ HandlerOK(handler'[w])
           /\ \A v \in Workers \ {w} : handler'[v] = handler[v]
<1>1. handler'[w] = h /\ \A v \in Workers \ {w} : handler'[v] = handler[v]
    BY DEF TypeOK
<1>2. HandlerOK(handler[w])
    BY DEF CommandInv, HandlerInv
<1>3. HandlerOK(h)
    BY <1>2, ConstantsAssumption DEF HandlerOK, Doing, ConstantsAssumption
<1> QED
    BY <1>1, <1>3

(***************************************************************************)
(* Learning the quota: "open" is a create's step, the others an event's.   *)
(***************************************************************************)
LEMMA QuotaOK ==
    ASSUME TypeOK, CommandInv, NEW w \in Workers, NEW used, KnowsQuota(w, used),
           handler[w].step # "idle", handler[w].step # "load", handler[w].step # "reply"
    PROVE  /\ HandlerOK(handler'[w])
           /\ \A v \in Workers \ {w} : handler'[v] = handler[v]
<1> DEFINE next == StepAfterQuota(w, used)
           h == [handler[w] EXCEPT !.step = next, !.due = FALSE]
<1>1. handler[w] \in Handler /\ HandlerOK(handler[w])
    BY DEF TypeOK, CommandInv, HandlerInv
<1>2. next \in HandlerStep
    BY NextStepTypes
<1>3. CASE next = "idle"
    <2>1. Ends(w)
        BY <1>3 DEF KnowsQuota, Ends
    <2> QED
        BY <2>1, EndsOK
<1>4. CASE next # "idle"
    <2>1. h \in Handler /\ handler' = [handler EXCEPT ![w] = h]
        BY <1>1, <1>2, <1>4 DEF KnowsQuota, Handler
    <2>2. /\ h.step = next /\ h.intent = handler[w].intent
          /\ h.trip = handler[w].trip /\ h.seen = handler[w].seen
        BY <1>1 DEF Handler
    <2>3. handler[w].step = "open" => Doing(w) \in Creates
        BY <1>1 DEF HandlerOK, Doing
    <2>4. handler[w].step \in {"quota", "remain"} => Doing(w) \notin Creates
        BY <1>1 DEF HandlerOK, Doing
    <2>5. \/ next = "reply" /\ Doing(w) \in Asks
          \/ next \in {"lookup", "commit"} /\ Doing(w) \in Creates
          \/ next \in {"remain", "commit"} /\ Doing(w) \notin Creates
        BY <1>4, <2>3, <2>4 DEF StepAfterQuota
    <2> HIDE DEF next, h
    <2> QED
        BY <2>1, <2>2, <2>5, MoveOK
<1> QED
    BY <1>3, <1>4

(***************************************************************************)
(* A commit: when the handler's snapshot has the stored version, the trip  *)
(* it writes extends the stored one by the command, nothing else changes,  *)
(* and the record, the trip and the answer agree.                          *)
(***************************************************************************)
LEMMA EffectExtends ==
    ASSUME TypeOK, CommandInv, NEW w \in Workers, handler[w].step # "idle", Effect(w),
           handler[w].seen.version = stored[handler[w].trip].version
    PROVE  /\ stored'[handler[w].trip] = Outcome(w)
           /\ \A t \in Trips \ {handler[w].trip} : stored'[t] = stored[t]
           /\ Outcome(w).edits = Append(stored[handler[w].trip].edits, Doing(w))
           /\ Outcome(w).version = Len(Outcome(w).edits)
           /\ Len(Outcome(w).edits) = Len(stored[handler[w].trip].edits) + 1
           /\ Outcome(w).edits[Outcome(w).version] = Doing(w)
           /\ \A t \in Trips : Len(stored[t].edits) <= Len(stored'[t].edits)
           /\ \A t \in Trips : \A n \in 1 .. Len(stored[t].edits) :
                  stored'[t].edits[n] = stored[t].edits[n]
<1> DEFINE T == handler[w].trip
           old == stored[T].edits
           new == Outcome(w).edits
<1>1. /\ Doing(w) \in Intents /\ T \in Trips
      /\ handler[w].seen \in TripState /\ stored[T] \in TripState
    BY BusyHandler DEF CommandInv, TypeOK
<1>2. old \in Seq(Intents) /\ handler[w].seen.edits \in Seq(Intents)
    BY <1>1 DEF TripState
<1>3. handler[w].seen.edits = old
    <2>1. WentThrough(stored, T, handler[w].seen) /\ stored[T].version = Len(old)
        BY <1>1 DEF CommandInv, HandlerInv, HandlerOK, LedgerInv
    <2>2. Len(handler[w].seen.edits) = Len(old)
        BY <2>1 DEF WentThrough
    <2>3. \A n \in 1 .. Len(handler[w].seen.edits) : handler[w].seen.edits[n] = old[n]
        BY <2>1 DEF WentThrough
    <2> QED
        BY <1>2, <2>2, <2>3, SeqEqual
<1>4. new = Append(old, Doing(w)) /\ Outcome(w).version = Len(old) + 1
    <2>1. stored[T].version = Len(old)
        BY <1>1 DEF CommandInv, LedgerInv
    <2> QED
        BY <1>1, <1>3, <2>1, OutcomeType
<1>5. /\ Len(new) = Len(old) + 1
      /\ new[Len(old) + 1] = Doing(w)
      /\ \A n \in 1 .. Len(old) : new[n] = old[n]
      /\ Len(old) \in Nat
    <2>1. Doing(w) \in Intents
        BY <1>1
    <2> HIDE DEF old
    <2> QED
        BY <1>2, <1>4, <2>1, AppendProperties
<1>6. stored'[T] = Outcome(w) /\ \A t \in Trips \ {T} : stored'[t] = stored[t]
    BY <1>1 DEF Effect, TypeOK
<1>7. \A t \in Trips : Len(stored[t].edits) \in Nat
    BY DEF TypeOK, TripState
<1> HIDE DEF T, old, new
<1>8. \A t \in Trips : Len(stored[t].edits) <= Len(stored'[t].edits)
    BY <1>5, <1>6, <1>7 DEF old, new
<1>9. \A t \in Trips : \A n \in 1 .. Len(stored[t].edits) :
          stored'[t].edits[n] = stored[t].edits[n]
    BY <1>5, <1>6 DEF old, new
<1> QED
    BY <1>4, <1>5, <1>6, <1>8, <1>9 DEF T, old, new

\* An effect keeps every part of the invariant.
LEMMA EffectStep ==
    ASSUME TypeOK, TypeOK', CommandInv, NEW w \in Workers, AtStep(w, "commit"),
           Recorded(w) = {}, Effect(w), UNCHANGED <<order, answers>>,
           handler[w].seen.version = stored[handler[w].trip].version
    PROVE  CommandInv'
<1> DEFINE T == handler[w].trip
           row == [id |-> IdOf[Doing(w)], intent |-> Doing(w), trip |-> T, outcome |-> Outcome(w)]
<1>1. handler[w].step = "commit" /\ handler[w].step # "idle"
    BY DEF AtStep
<1>2. Doing(w) \in Intents /\ T \in Trips /\ handler[w] \in Handler /\ Outcome(w) \in TripState
    BY <1>1, BusyHandler, OutcomeType DEF CommandInv
<1>3. /\ stored'[T] = Outcome(w) /\ \A t \in Trips \ {T} : stored'[t] = stored[t]
      /\ Outcome(w).version = Len(Outcome(w).edits)
      /\ Len(Outcome(w).edits) = Len(stored[T].edits) + 1
      /\ Outcome(w).edits[Outcome(w).version] = Doing(w)
    BY <1>1, EffectExtends
<1>4. /\ \A t \in Trips : Len(stored[t].edits) <= Len(stored'[t].edits)
      /\ \A t \in Trips : \A n \in 1 .. Len(stored[t].edits) :
             stored'[t].edits[n] = stored[t].edits[n]
    BY <1>1, EffectExtends
<1>5. /\ ledger \subseteq ledger'
      /\ Doing(w) \in Keyed => ledger' = ledger \cup {row}
      /\ Doing(w) \notin Keyed => ledger' = ledger
    BY DEF Effect
<1>6. stored \in [Trips -> TripState] /\ stored' \in [Trips -> TripState]
    BY DEF TypeOK
<1>7. \A t \in Trips : Len(stored[t].edits) \in Nat /\ Len(stored'[t].edits) \in Nat
    BY <1>6 DEF TripState
<1>8. Doing(w) \in Keyed => row \in ledger' /\ \A r \in ledger : r.id # row.id
    BY <1>5 DEF Recorded
<1> HIDE DEF T
<1>9. TellsOf(stored', ledger', Doing(w), T, Outcome(w))
    <2>1. WentThrough(stored', T, Outcome(w))
        BY <1>3, <1>7, <1>2 DEF WentThrough
    <2>2. Outcome(w).version > 0
        BY <1>2, <1>3, <1>7
    <2>3. Doing(w) \in Keyed => \E r \in ledger' : r.intent = Doing(w) /\ r.trip = T /\ r.outcome = Outcome(w)
        BY <1>8
    <2> QED
        BY <1>3, <2>1, <2>2, <2>3 DEF TellsOf
<1>10. ASSUME NEW i, NEW t \in Trips, NEW st \in TripState, TellsOf(stored, ledger, i, t, st)
       PROVE  TellsOf(stored', ledger', i, t, st)
    BY <1>4, <1>5, <1>6, <1>10, ToldOn
<1>11. LedgerInv'
    <2>1. \A t \in Trips : stored'[t].version = Len(stored'[t].edits)
        BY <1>3 DEF CommandInv, LedgerInv
    <2>2. \A r, s \in ledger' : r.id = s.id => r = s
        BY <1>5, <1>8 DEF CommandInv, LedgerInv
    <2>3. ASSUME NEW r \in ledger'
          PROVE  /\ r.intent \in Keyed /\ IdOf[r.intent] = r.id
                 /\ TellsOf(stored', ledger', r.intent, r.trip, r.outcome)
        <3>1. CASE r \in ledger
            <4>1. r.trip \in Trips /\ r.outcome \in TripState
                BY <3>1 DEF TypeOK, LedgerRow
            <4>2. /\ r.intent \in Keyed /\ IdOf[r.intent] = r.id
                  /\ TellsOf(stored, ledger, r.intent, r.trip, r.outcome)
                BY <3>1 DEF CommandInv, LedgerInv
            <4> QED
                BY <1>10, <4>1, <4>2
        <3>2. CASE r \notin ledger
            <4>1. Doing(w) \in Keyed /\ r = row
                BY <1>5, <3>2
            <4> QED
                BY <1>9, <4>1
        <3> QED
            BY <3>1, <3>2
    <2>4. ASSUME NEW t \in Trips, NEW n \in 1 .. Len(stored'[t].edits),
                 stored'[t].edits[n] \in Keyed
          PROVE  \E r \in ledger' :
                     r.intent = stored'[t].edits[n] /\ r.trip = t /\ r.outcome.version = n
        <3>1. CASE n \in 1 .. Len(stored[t].edits)
            <4>1. stored'[t].edits[n] = stored[t].edits[n]
                BY <1>4, <3>1
            <4>2. \E r \in ledger :
                      r.intent = stored[t].edits[n] /\ r.trip = t /\ r.outcome.version = n
                BY <2>4, <3>1, <4>1 DEF CommandInv, LedgerInv
            <4> QED
                BY <1>5, <4>1, <4>2
        <3>2. CASE n \notin 1 .. Len(stored[t].edits)
            <4>1. t = T
                BY <1>3, <2>4, <3>2
            <4>2. n = Outcome(w).version /\ stored'[t].edits[n] = Doing(w)
                BY <1>3, <1>7, <2>4, <3>2, <4>1
            <4> QED
                BY <1>8, <2>4, <4>1, <4>2
        <3> QED
            BY <3>1, <3>2
    <2> QED
        BY <2>1, <2>2, <2>3, <2>4 DEF LedgerInv
<1>12. OrderInv'
    <2>1. ASSUME NEW i \in Intents, order[i] # NoOrder
          PROVE  order[i].trip \in Trips /\ order[i].expected <= stored'[order[i].trip].version
        <3>1. order[i].trip \in Trips /\ order[i].expected <= stored[order[i].trip].version
            BY <2>1 DEF CommandInv, OrderInv
        <3>2. /\ stored[order[i].trip].version = Len(stored[order[i].trip].edits)
              /\ stored'[order[i].trip].version = Len(stored'[order[i].trip].edits)
            BY <1>11, <3>1 DEF CommandInv, LedgerInv
        <3>3. order[i].expected \in Nat
            BY DEF TypeOK, Order
        <3> QED
            BY <1>4, <1>7, <3>1, <3>2, <3>3
    <2> QED
        BY <2>1 DEF OrderInv
<1>13. HandlerInv'
    <2>1. ASSUME NEW v \in Workers PROVE HandlerOK(handler[v])'
        <3>1. CASE v = w
            <4>1. /\ handler'[w].step = "reply" /\ handler'[w].intent = Doing(w)
                  /\ handler'[w].trip = T /\ handler'[w].seen = Outcome(w)
                BY <1>2 DEF Effect, TypeOK, Handler, Doing, T
            <4>2. WentThrough(stored', T, Outcome(w))
                BY <1>9 DEF TellsOf
            <4> QED
                BY <1>2, <1>9, <3>1, <4>1, <4>2 DEF HandlerOK, T
        <3>2. CASE v # w
            <4>1. handler'[v] = handler[v] /\ HandlerOK(handler[v]) /\ handler[v] \in Handler
                BY <3>2 DEF Effect, TypeOK, CommandInv, HandlerInv
            <4>2. CASE handler[v].step = "idle"
                BY <4>1, <4>2 DEF HandlerOK
            <4>3. CASE handler[v].step # "idle"
                <5>1. handler[v].trip \in Trips /\ handler[v].seen \in TripState
                    BY <4>1, <4>3 DEF HandlerOK, Handler
                <5>2. WentThrough(stored', handler[v].trip, handler[v].seen)
                    BY <1>4, <1>6, <4>1, <4>3, <5>1, WentOn DEF HandlerOK
                <5>3. handler[v].step = "reply" /\ handler[v].intent \notin Asks =>
                          TellsOf(stored', ledger', handler[v].intent, handler[v].trip, handler[v].seen)
                    BY <1>10, <4>1, <4>3, <5>1 DEF HandlerOK
                <5> QED
                    BY <4>1, <4>3, <5>2, <5>3 DEF HandlerOK
            <4> QED
                BY <4>2, <4>3
        <3> QED
            BY <3>1, <3>2
    <2> QED
        BY <2>1 DEF HandlerInv
<1>14. AnswersInv'
    <2>1. ASSUME NEW a \in answers PROVE TellsOf(stored', ledger', a.intent, a.trip, a.outcome)
        <3>1. a.trip \in Trips /\ a.outcome \in TripState
            BY DEF TypeOK, AnswerRow
        <3> QED
            BY <1>10, <3>1 DEF CommandInv, AnswersInv
    <2> QED
        BY <2>1 DEF AnswersInv
<1> QED
    BY <1>11, <1>12, <1>13, <1>14 DEF CommandInv

(***************************************************************************)
(* The arrival of a request leaves its handler in order, once the payload  *)
(* of an event names a trip that exists.                                   *)
(***************************************************************************)
LEMMA ArriveFields ==
    ASSUME TypeOK, NEW w \in Workers, NEW i, NEW step, NEW t, Arrive(w, i, step, t)
    PROVE  /\ handler'[w].step = step /\ handler'[w].intent = i
           /\ handler'[w].trip = t /\ handler'[w].seen = NoState
           /\ \A v \in Workers \ {w} : handler'[v] = handler[v]
           /\ UNCHANGED <<stored, ledger, answers>>
BY DEF Arrive, IdleHandler, TypeOK, databaseVars

\* A request that arrives holds no state yet.
LEMMA ArrivalStep ==
    ASSUME TypeOK, CommandInv, NEW w \in Workers, NEW i \in Intents,
           SendCreate(w, i) \/ SendEvent(w, i) \/ ResendEvent(w, i)
    PROVE  CommandInv'
<1>0. \A t \in Trips : WentThrough(stored, t, NoState)
    BY NoStateWentThrough DEF TypeOK
<1>1. CASE SendCreate(w, i)
    <2>1. PICK t \in Trips : Arrive(w, i, "open", t)
        BY <1>1 DEF SendCreate
    <2>2. /\ handler'[w].step = "open" /\ handler'[w].intent = i
          /\ handler'[w].trip = t /\ handler'[w].seen = NoState
          /\ \A v \in Workers \ {w} : handler'[v] = handler[v]
          /\ UNCHANGED <<stored, ledger, answers>>
        BY <2>1, ArriveFields
    <2>3. HandlerOK(handler'[w])
        BY <1>0, <1>1, <2>2 DEF SendCreate, HandlerOK
    <2> QED
        BY <1>1, <2>2, <2>3, LocalStep DEF SendCreate
<1>2. CASE ResendEvent(w, i)
    <2>1. /\ order[i] # NoOrder /\ i \notin Creates /\ UNCHANGED order
          /\ Arrive(w, i, "load", order[i].trip)
        BY <1>2 DEF ResendEvent
    <2>2. /\ handler'[w].step = "load" /\ handler'[w].intent = i
          /\ handler'[w].trip = order[i].trip /\ handler'[w].seen = NoState
          /\ \A v \in Workers \ {w} : handler'[v] = handler[v]
          /\ UNCHANGED <<stored, ledger, answers>>
        BY <2>1, ArriveFields
    <2>3. order[i].trip \in Trips
        BY <2>1 DEF CommandInv, OrderInv
    <2>4. HandlerOK(handler'[w])
        BY <1>0, <2>1, <2>2, <2>3 DEF HandlerOK
    <2> QED
        BY <2>1, <2>2, <2>4, LocalStep
<1>3. CASE SendEvent(w, i)
    <2>1. PICK t \in Trips : \E e \in 0 .. stored[t].version :
              /\ order' = [order EXCEPT ![i] = [trip |-> t, expected |-> e]]
              /\ Arrive(w, i, "load", t)
        BY <1>3 DEF SendEvent
    <2>2. PICK e \in 0 .. stored[t].version :
              /\ order' = [order EXCEPT ![i] = [trip |-> t, expected |-> e]]
              /\ Arrive(w, i, "load", t)
        BY <2>1
    <2>3. order[i] = NoOrder /\ i \notin Creates
        BY <1>3 DEF SendEvent
    <2>4. /\ handler'[w].step = "load" /\ handler'[w].intent = i
          /\ handler'[w].trip = t /\ handler'[w].seen = NoState
          /\ \A v \in Workers \ {w} : handler'[v] = handler[v]
          /\ UNCHANGED <<stored, ledger, answers>>
        BY <2>2, ArriveFields
    <2>5. /\ order'[i] = [trip |-> t, expected |-> e]
          /\ \A j \in Intents \ {i} : order'[j] = order[j]
        BY <2>2 DEF TypeOK
    <2>6. order'[i] # NoOrder /\ order'[i].trip = t /\ order'[i].expected <= stored[t].version
        <3>1. stored[t].version \in Nat
            BY DEF TypeOK, TripState
        <3>2. order'[i].expected <= stored[t].version
            BY <2>2, <2>5, <3>1
        <3>3. order'[i].trip # NoTrip
            BY <2>5, ConstantsAssumption DEF ConstantsAssumption
        <3> QED
            BY <2>5, <3>2, <3>3 DEF NoOrder
    <2>7. LedgerInv' /\ AnswersInv'
        BY <2>4 DEF CommandInv, LedgerInv, AnswersInv
    <2>8. OrderInv'
        BY <2>4, <2>5, <2>6 DEF CommandInv, OrderInv
    <2>9. ASSUME NEW v \in Workers PROVE HandlerOK(handler[v])'
        <3>1. CASE v = w
            BY <1>0, <2>3, <2>4, <2>6, <3>1 DEF HandlerOK
        <3>2. CASE v # w
            <4>1. handler'[v] = handler[v] /\ HandlerOK(handler[v])
                BY <2>4, <3>2 DEF CommandInv, HandlerInv
            <4>2. handler[v].step # "idle" /\ handler[v].step # "reply" /\ handler[v].intent \notin Creates
                  => handler[v].intent \in Intents \ {i}
                BY <2>3, <4>1 DEF HandlerOK
            <4> QED
                BY <2>4, <2>5, <4>1, <4>2 DEF HandlerOK
        <3> QED
            BY <3>1, <3>2
    <2> QED
        BY <2>7, <2>8, <2>9 DEF CommandInv, HandlerInv
<1> QED
    BY <1>1, <1>2, <1>3

(***************************************************************************)
(* What the optimistic check buys: a handler that passes it holds the      *)
(* stored trip, even when the version it compares is the client's.         *)
(***************************************************************************)
LEMMA SnapshotIsStored ==
    ASSUME TypeOK, CommandInv, NEW w \in Workers, CommitCreate(w) \/ CommitEvent(w)
    PROVE  handler[w].seen.version = stored[handler[w].trip].version
<1>0. handler[w].step = "commit" /\ HandlerOK(handler[w]) /\ handler[w] \in Handler
    BY DEF CommitCreate, CommitEvent, AtStep, TypeOK, CommandInv, HandlerInv
<1>1. CASE CommitCreate(w)
    <2>1. Doing(w) \in Creates /\ stored[handler[w].trip].version = 0
        BY <1>1 DEF CommitCreate
    <2>2. handler[w].seen.version = 0
        BY <1>0, <2>1 DEF HandlerOK, Doing, NoState
    <2> QED
        BY <2>1, <2>2
<1>2. CASE CommitEvent(w)
    <2>1. Doing(w) \notin Creates /\ VersionMatches(w)
        BY <1>2 DEF CommitEvent
    <2>2. /\ order[Doing(w)].expected <= handler[w].seen.version
          /\ WentThrough(stored, handler[w].trip, handler[w].seen)
          /\ handler[w].trip \in Trips /\ Doing(w) \in Intents
        BY <1>0, <2>1 DEF HandlerOK, Doing
    <2>3. /\ handler[w].seen.version <= stored[handler[w].trip].version
          /\ handler[w].seen.version \in Nat /\ stored[handler[w].trip].version \in Nat
          /\ order[Doing(w)].expected \in Nat
        BY <1>0, <2>2 DEF WentThrough, CommandInv, LedgerInv, TypeOK, TripState, Handler, Order
    <2> QED
        BY <2>1, <2>2, <2>3 DEF VersionMatches, Expected
<1> QED
    BY <1>1, <1>2

(***************************************************************************)
(* Every statement of a handler keeps CommandInv.                          *)
(***************************************************************************)
LEMMA ServeStep ==
    ASSUME TypeOK, TypeOK', CommandInv, NEW w \in Workers, Serve(w)
    PROVE  CommandInv'
<1>0. handler[w] \in Handler /\ HandlerOK(handler[w]) /\ handler \in [Workers -> Handler]
    BY DEF TypeOK, CommandInv, HandlerInv
<1> DEFINE Only == \A v \in Workers \ {w} : handler'[v] = handler[v]
           Calm == UNCHANGED <<stored, ledger, order, answers>>
<1>1. CASE Load(w)
    <2>1. /\ handler[w].step = "load" /\ Doing(w) \notin Creates
          /\ order[Doing(w)].trip = handler[w].trip /\ order[Doing(w)] # NoOrder
          /\ Doing(w) \in Intents /\ handler[w].trip \in Trips
        BY <1>0, <1>1 DEF Load, AtStep, HandlerOK, Doing
    <2>2. /\ handler'[w].seen = stored[handler[w].trip]
          /\ handler'[w].intent = Doing(w) /\ handler'[w].trip = handler[w].trip
          /\ handler'[w].step = IF Doing(w) \in Keyed \ Asks THEN "lookup" ELSE AfterLookup(w)
          /\ Only
        BY <1>0, <1>1 DEF Load, Handler, Doing
    <2>3. handler'[w].step \in {"lookup", "quota", "remain"}
        BY <2>1, <2>2 DEF AfterLookup
    <2>4. order[Doing(w)].expected <= stored[handler[w].trip].version
        BY <2>1 DEF CommandInv, OrderInv
    <2>5. WentThrough(stored, handler[w].trip, stored[handler[w].trip])
        <3>1. /\ stored[handler[w].trip].version = Len(stored[handler[w].trip].edits)
              /\ stored[handler[w].trip].version \in Nat
            BY <2>1 DEF CommandInv, LedgerInv, TypeOK, TripState
        <3> QED
            BY <3>1 DEF WentThrough
    <2>6. HandlerOK(handler'[w])
        BY <2>1, <2>2, <2>3, <2>4, <2>5 DEF HandlerOK
    <2> QED
        BY <1>1, <2>2, <2>6, LocalStep DEF Load, databaseVars, clientVars
<1>2. CASE Lookup(w)
    <2>0. handler[w].step = "lookup" /\ Calm
        BY <1>2 DEF Lookup, AtStep, databaseVars, clientVars
    <2>1. CASE ReplayRecorded(w)
        BY <2>0, <2>1, ReplayOK, LocalStep
    <2>2. CASE RefuseMismatch(w)
        BY <2>0, <2>2, EndsOK, LocalStep DEF RefuseMismatch
    <2>3. CASE Goes(w, AfterLookup(w))
        <3> DEFINE h == [handler[w] EXCEPT !.step = AfterLookup(w)]
        <3>1. h \in Handler /\ handler' = [handler EXCEPT ![w] = h]
            BY <1>0, <2>3, NextStepTypes DEF Goes, Handler
        <3>2. /\ h.step = AfterLookup(w) /\ h.intent = handler[w].intent
              /\ h.trip = handler[w].trip /\ h.seen = handler[w].seen
            BY <1>0 DEF Handler
        <3>3. \/ AfterLookup(w) = "commit" /\ Doing(w) \in Creates
              \/ AfterLookup(w) \in {"quota", "remain"} /\ Doing(w) \notin Creates
            BY ConstantsAssumption DEF AfterLookup, ConstantsAssumption
        <3> HIDE DEF h
        <3>4. HandlerOK(handler'[w]) /\ Only
            BY <2>0, <3>1, <3>2, <3>3, MoveOK
        <3> QED
            BY <2>0, <3>4, LocalStep
    <2> QED
        BY <1>2, <2>1, <2>2, <2>3 DEF Lookup
<1>3. CASE ReadQuota(w)
    <2>0. handler[w].step \in {"open", "quota", "remain", "explain"} /\ Calm
        BY <1>3 DEF ReadQuota, AtStep, databaseVars, clientVars
    <2>1. CASE KnowsQuota(w, quota.used)
        BY <2>0, <2>1, QuotaOK, LocalStep
    <2>2. CASE handler' = [handler EXCEPT ![w].due = TRUE]
        <3>1. HandlerOK(handler'[w]) /\ Only
            BY <1>0, <2>2 DEF HandlerOK, Handler
        <3> QED
            BY <2>0, <3>1, LocalStep
    <2> QED
        BY <1>3, <2>1, <2>2 DEF ReadQuota
<1>4. CASE ResetQuota(w)
    <2>1. Calm /\ KnowsQuota(w, 0)
        BY <1>4 DEF ResetQuota, clientVars
    <2>2. CASE handler[w].step \in {"open", "quota", "remain", "explain"}
        BY <2>1, <2>2, QuotaOK, LocalStep
    <2>3. CASE handler[w].step \notin {"open", "quota", "remain", "explain"}
        <3>1. StepAfterQuota(w, 0) = "idle"
            BY <2>3 DEF StepAfterQuota
        <3>2. Ends(w)
            BY <2>1, <3>1 DEF KnowsQuota, Ends
        <3> QED
            BY <2>1, <3>2, EndsOK, LocalStep
    <2> QED
        BY <2>2, <2>3
<1>5. CASE CommitRecorded(w)
    <2>0. handler[w].step = "commit" /\ Calm
        BY <1>5 DEF CommitRecorded, AtStep, databaseVars, clientVars
    <2>1. CASE ReplayRecorded(w)
        BY <2>0, <2>1, ReplayOK, LocalStep
    <2>2. CASE RefuseMismatch(w)
        BY <2>0, <2>2, EndsOK, LocalStep DEF RefuseMismatch
    <2> QED
        BY <1>5, <2>1, <2>2 DEF CommitRecorded
<1>6. CASE CommitCreate(w)
    <2>1. /\ AtStep(w, "commit") /\ Recorded(w) = {} /\ Effect(w)
          /\ UNCHANGED <<order, answers>>
        BY <1>6 DEF CommitCreate, clientVars
    <2> QED
        BY <1>6, <2>1, SnapshotIsStored, EffectStep
<1>7. CASE CommitConflict(w)
    BY <1>7, EndsOK, LocalStep DEF CommitConflict, databaseVars, clientVars
<1>8. CASE CommitOverLimit(w)
    <2>0. handler[w].step = "commit" /\ Calm /\ Doing(w) \notin Creates /\ Goes(w, "explain")
        BY <1>8 DEF CommitOverLimit, AtStep, databaseVars, clientVars
    <2> DEFINE h == [handler[w] EXCEPT !.step = "explain"]
    <2>1. h \in Handler /\ handler' = [handler EXCEPT ![w] = h]
        BY <1>0, <2>0 DEF Goes, Handler, HandlerStep
    <2>2. /\ h.step = "explain" /\ h.intent = handler[w].intent
          /\ h.trip = handler[w].trip /\ h.seen = handler[w].seen
        BY <1>0 DEF Handler
    <2> HIDE DEF h
    <2>3. HandlerOK(handler'[w]) /\ Only
        BY <2>0, <2>1, <2>2, MoveOK
    <2> QED
        BY <2>0, <2>3, LocalStep
<1>9. CASE CommitEvent(w)
    <2>1. /\ AtStep(w, "commit") /\ Recorded(w) = {} /\ Effect(w)
          /\ UNCHANGED <<order, answers>>
        BY <1>9 DEF CommitEvent, clientVars
    <2> QED
        BY <1>9, <2>1, SnapshotIsStored, EffectStep
<1>10. CASE Reply(w)
    <2>1. handler[w].step = "reply" /\ Ends(w) /\ UNCHANGED <<stored, ledger, order>>
        BY <1>10 DEF Reply, AtStep, databaseVars
    <2>2. HandlerOK(handler'[w]) /\ Only
        BY <2>1, EndsOK
    <2>3. ASSUME NEW v \in Workers PROVE HandlerOK(handler[v])'
        <3>1. HandlerOK(handler'[v])
            BY <2>2 DEF CommandInv, HandlerInv
        <3> QED
            BY <2>1, <3>1 DEF HandlerOK
    <2>4. AnswersInv'
        <3>1. CASE Doing(w) \in Asks
            BY <1>10, <2>1, <3>1 DEF Reply, CommandInv, AnswersInv
        <3>2. CASE Doing(w) \notin Asks
            <4>1. TellsOf(stored, ledger, Doing(w), handler[w].trip, handler[w].seen)
                BY <1>0, <2>1, <3>2 DEF HandlerOK, Doing
            <4>2. answers' = answers \cup {[intent |-> Doing(w), trip |-> handler[w].trip,
                                            outcome |-> handler[w].seen]}
                BY <1>10, <3>2 DEF Reply
            <4> QED
                BY <2>1, <4>1, <4>2 DEF CommandInv, AnswersInv
        <3> QED
            BY <3>1, <3>2
    <2>5. LedgerInv' /\ OrderInv'
        BY <2>1 DEF CommandInv, LedgerInv, OrderInv
    <2> QED
        BY <2>3, <2>4, <2>5 DEF CommandInv, HandlerInv
<1>11. CASE Fail(w)
    BY <1>11, EndsOK, LocalStep DEF Fail, databaseVars, clientVars
<1> QED
    BY <1>1, <1>2, <1>3, <1>4, <1>5, <1>6, <1>7, <1>8, <1>9, <1>10, <1>11 DEF Serve

(***************************************************************************)
(* The invariant: types and CommandInv, from the initial state, by every   *)
(* step.                                                                   *)
(***************************************************************************)
LEMMA InvInit == Init => CommandInv
<1> SUFFICES ASSUME Init PROVE CommandInv
    OBVIOUS
<1>1. LedgerInv
    BY EmptySeq DEF Init, LedgerInv, NoState
<1>2. HandlerInv
    BY DEF Init, HandlerInv, HandlerOK, IdleHandler
<1>3. OrderInv /\ AnswersInv
    BY DEF Init, OrderInv, AnswersInv
<1> QED
    BY <1>1, <1>2, <1>3 DEF CommandInv

\* Every step preserves the invariant.
LEMMA InvStep == TypeOK /\ CommandInv /\ [Next]_vars => (TypeOK /\ CommandInv)'
<1> SUFFICES ASSUME TypeOK, CommandInv, [Next]_vars PROVE TypeOK' /\ CommandInv'
    OBVIOUS
<1>1. TypeOK'
    BY TypeStep DEF CommandInv
<1>2. ASSUME NEW w \in Workers, NEW i \in Intents,
             SendCreate(w, i) \/ SendEvent(w, i) \/ ResendEvent(w, i)
      PROVE  CommandInv'
    BY <1>2, ArrivalStep
<1>3. ASSUME NEW w \in Workers, Serve(w) PROVE CommandInv'
    BY <1>1, <1>3, ServeStep
<1>4. CASE Midnight \/ UNCHANGED vars
    <2>1. UNCHANGED <<stored, ledger, order, answers, handler>>
        BY <1>4 DEF Midnight, vars, databaseVars, clientVars
    <2>2. LedgerInv' /\ OrderInv' /\ AnswersInv'
        BY <2>1 DEF CommandInv, LedgerInv, OrderInv, AnswersInv
    <2>3. HandlerInv'
        BY <2>1 DEF CommandInv, HandlerInv, HandlerOK
    <2> QED
        BY <1>1, <2>2, <2>3 DEF CommandInv
<1>5. CASE Next
    <2>1. \/ \E w \in Workers, i \in Intents :
               SendCreate(w, i) \/ SendEvent(w, i) \/ ResendEvent(w, i)
          \/ \E w \in Workers : Serve(w)
          \/ Midnight
        BY <1>5 DEF Next
    <2>2. CommandInv'
        BY <1>2, <1>3, <1>4, <2>1
    <2> QED
        BY <1>1, <2>2
<1> QED
    BY <1>1, <1>4, <1>5

(***************************************************************************)
(* TypeOK is an invariant: in particular the quota row never holds more    *)
(* than the daily limit.                                                   *)
(***************************************************************************)
THEOREM TypeInvariant == Spec => []TypeOK
<1>1. Init => TypeOK /\ CommandInv
    BY TypeInit, InvInit
<1>2. TypeOK /\ CommandInv /\ [Next]_vars => (TypeOK /\ CommandInv)'
    BY InvStep
<1> QED
    BY <1>1, <1>2, PTL DEF Spec

(***************************************************************************)
(* CommandInv is an invariant.                                             *)
(***************************************************************************)
THEOREM CommandInvariant == Spec => []CommandInv
<1>1. Init => TypeOK /\ CommandInv
    BY TypeInit, InvInit
<1>2. TypeOK /\ CommandInv /\ [Next]_vars => (TypeOK /\ CommandInv)'
    BY InvStep
<1> QED
    BY <1>1, <1>2, PTL DEF Spec

(***************************************************************************)
(* No lost update, for any number of trips, commands and concurrent        *)
(* requests: see NoLostUpdate.                                             *)
(***************************************************************************)
LEMMA EffectsOnRecord == TypeOK /\ CommandInv => NoLostUpdate
<1> SUFFICES ASSUME TypeOK, CommandInv PROVE NoLostUpdate
    OBVIOUS
<1>1. \A t \in Trips : DOMAIN stored[t].edits = 1 .. Len(stored[t].edits)
    BY LenProperties DEF TypeOK, TripState
<1>2. \A t \in Trips : stored[t].version = Len(stored[t].edits)
    BY DEF CommandInv, LedgerInv
<1>3. ASSUME NEW r \in ledger
      PROVE  /\ r.outcome.version \in DOMAIN stored[r.trip].edits
             /\ stored[r.trip].edits[r.outcome.version] = r.intent
    <2>1. TellsOf(stored, ledger, r.intent, r.trip, r.outcome)
        BY DEF CommandInv, LedgerInv
    <2>2. r.trip \in Trips /\ r.outcome.version \in Nat /\ stored[r.trip].edits \in Seq(Intents)
        BY DEF TypeOK, LedgerRow, TripState
    <2>3. r.outcome.version \in 1 .. r.outcome.version /\ Len(stored[r.trip].edits) \in Nat
        BY <2>1, <2>2 DEF TellsOf
    <2> QED
        BY <1>1, <2>1, <2>2, <2>3 DEF TellsOf, WentThrough
<1>4. ASSUME NEW t \in Trips, NEW n \in DOMAIN stored[t].edits, stored[t].edits[n] \in Keyed
      PROVE  \E r \in ledger :
                 r.intent = stored[t].edits[n] /\ r.trip = t /\ r.outcome.version = n
    BY <1>1, <1>4 DEF CommandInv, LedgerInv
<1> QED
    BY <1>2, <1>3, <1>4 DEF NoLostUpdate

\* SPEC-44 A2 for every number of workers, trips and requests: no effect that was
\* recorded is ever overwritten by a handler that had loaded an older trip.
THEOREM LostUpdateFreedom == Spec => []NoLostUpdate
BY TypeInvariant, CommandInvariant, EffectsOnRecord, PTL

(***************************************************************************)
(* A command id has at most one effect: see OneEffectPerId.                *)
(***************************************************************************)
LEMMA OneRecordOneEffect == TypeOK /\ CommandInv => OneEffectPerId
<1> SUFFICES ASSUME TypeOK, CommandInv,
                    NEW t \in Trips, NEW u \in Trips,
                    NEW m \in DOMAIN stored[t].edits, NEW n \in DOMAIN stored[u].edits,
                    stored[t].edits[m] \in Keyed, stored[u].edits[n] \in Keyed,
                    IdOf[stored[t].edits[m]] = IdOf[stored[u].edits[n]]
             PROVE  t = u /\ m = n
    BY DEF OneEffectPerId
<1>1. NoLostUpdate
    BY EffectsOnRecord
<1>2. PICK r \in ledger :
          r.intent = stored[t].edits[m] /\ r.trip = t /\ r.outcome.version = m
    BY <1>1 DEF NoLostUpdate
<1>3. PICK s \in ledger :
          s.intent = stored[u].edits[n] /\ s.trip = u /\ s.outcome.version = n
    BY <1>1 DEF NoLostUpdate
<1>4. r.id = s.id
    BY <1>2, <1>3 DEF CommandInv, LedgerInv
<1>5. r = s
    BY <1>4 DEF CommandInv, LedgerInv
<1> QED
    BY <1>2, <1>3, <1>5

\* SPEC-44 A3: a command_id has one effect at most.
THEOREM Idempotence == Spec => []OneEffectPerId
BY TypeInvariant, CommandInvariant, OneRecordOneEffect, PTL

(***************************************************************************)
(* The answers to a command id are all the recorded one: see SameAnswer.   *)
(***************************************************************************)
LEMMA AnswersAgree == TypeOK /\ CommandInv => SameAnswer
<1> SUFFICES ASSUME TypeOK, CommandInv PROVE SameAnswer
    OBVIOUS
<1>1. ASSUME NEW a \in answers, NEW b \in answers, a.intent \in Keyed, b.intent \in Keyed,
             IdOf[a.intent] = IdOf[b.intent]
      PROVE  a = b
    <2>1. PICK r \in ledger : r.intent = a.intent /\ r.trip = a.trip /\ r.outcome = a.outcome
        BY <1>1 DEF CommandInv, AnswersInv, TellsOf
    <2>2. PICK s \in ledger : s.intent = b.intent /\ s.trip = b.trip /\ s.outcome = b.outcome
        BY <1>1 DEF CommandInv, AnswersInv, TellsOf
    <2>3. r = s
        BY <1>1, <2>1, <2>2 DEF CommandInv, LedgerInv
    <2> QED
        BY <2>1, <2>2, <2>3 DEF TypeOK, AnswerRow
<1>2. ASSUME NEW a \in answers
      PROVE  /\ a.outcome.version \in DOMAIN stored[a.trip].edits
             /\ a.outcome.edits = SubSeq(stored[a.trip].edits, 1, a.outcome.version)
             /\ a.outcome.edits[a.outcome.version] = a.intent
    <2> DEFINE v == a.outcome.version
               now == stored[a.trip].edits
               then == a.outcome.edits
    <2>1. /\ WentThrough(stored, a.trip, a.outcome)
          /\ v > 0 /\ then[v] = a.intent
        BY DEF CommandInv, AnswersInv, TellsOf
    <2>2. then \in Seq(Intents) /\ now \in Seq(Intents) /\ v \in Nat
        BY DEF TypeOK, AnswerRow, TripState
    <2>3. v = Len(then) /\ v <= Len(now) /\ \A n \in 1 .. v : then[n] = now[n]
        BY <2>1 DEF WentThrough
    <2> HIDE DEF v, now, then
    <2>4. Len(now) \in Nat /\ DOMAIN now = 1 .. Len(now)
        BY <2>2, LenProperties
    <2>5. \A n \in 1 .. v : now[n] \in Intents
        BY <2>2, <2>3, <2>4, ElementOfSeq
    <2>6. /\ SubSeq(now, 1, v) \in Seq(Intents)
          /\ Len(SubSeq(now, 1, v)) = v
          /\ \A n \in 1 .. v : SubSeq(now, 1, v)[n] = now[n]
        <3>1. /\ SubSeq(now, 1, v) \in Seq(Intents)
              /\ Len(SubSeq(now, 1, v)) = IF 1 <= v THEN v - 1 + 1 ELSE 0
              /\ \A n \in 1 .. v - 1 + 1 : SubSeq(now, 1, v)[n] = now[1 + n - 1]
            BY <2>2, <2>5, SubSeqProperties
        <3>2. v - 1 + 1 = v /\ 1 <= v /\ \A n \in 1 .. v : 1 + n - 1 = n
            BY <2>1, <2>2
        <3> QED
            BY <3>1, <3>2
    <2>7. then = SubSeq(now, 1, v)
        BY <2>2, <2>3, <2>6, SeqEqual
    <2>8. v \in DOMAIN now
        BY <2>1, <2>2, <2>3, <2>4
    <2> QED
        BY <2>1, <2>7, <2>8 DEF v, now, then
<1> QED
    BY <1>1, <1>2 DEF SameAnswer

\* SPEC-44 A3: every 200 for a command_id carries the same outcome, and no 200 tells
\* of a state the trip never was in.
THEOREM StableAnswers == Spec => []SameAnswer
BY TypeInvariant, CommandInvariant, AnswersAgree, PTL

-----------------------------------------------------------------------------
(* Refinement *)

Log == [t \in Trips |-> stored[t].edits]
Told == {Answered(a) : a \in answers}

(***************************************************************************)
(* A committed effect is the abstract Apply.                               *)
(***************************************************************************)
LEMMA EffectIsApply ==
    ASSUME TypeOK, CommandInv, NEW w \in Workers, AtStep(w, "commit"),
           Recorded(w) = {}, Effect(w), UNCHANGED answers,
           handler[w].seen.version = stored[handler[w].trip].version
    PROVE  Abstract!Next
<1> DEFINE T == handler[w].trip
           i == Doing(w)
<1>1. handler[w].step # "idle"
    BY DEF AtStep
<1>2. i \in Intents /\ T \in Trips
    BY <1>1, BusyHandler DEF CommandInv
<1>3. i \in Keyed => ~Abstract!IdUsed(i)
    <2>1. SUFFICES ASSUME i \in Keyed, NEW t \in Trips, NEW n \in DOMAIN stored[t].edits,
                          stored[t].edits[n] \in Keyed, IdOf[stored[t].edits[n]] = IdOf[i]
                   PROVE  FALSE
        BY DEF Abstract!IdUsed
    <2>2. PICK r \in ledger : r.intent = stored[t].edits[n]
        BY <2>1, EffectsOnRecord DEF NoLostUpdate
    <2>3. r.id = IdOf[i]
        BY <2>1, <2>2 DEF CommandInv, LedgerInv
    <2> QED
        BY <2>1, <2>3 DEF Recorded
<1>4. Log' = [Log EXCEPT ![T] = Append(@, i)]
    <2>1. /\ stored'[T].edits = Append(stored[T].edits, i)
          /\ \A t \in Trips \ {T} : stored'[t] = stored[t]
        BY <1>1, EffectExtends
    <2> HIDE DEF T, i
    <2> QED
        BY <1>2, <2>1 DEF Log
<1>5. UNCHANGED Told
    BY DEF Told
<1>6. PICK t \in Trips : t = T
    BY <1>2
<1>7. PICK j \in Intents : j = i
    BY <1>2
<1>8. Abstract!Apply(j, t)
    BY <1>3, <1>4, <1>5, <1>6, <1>7 DEF Abstract!Apply, Abstract!IdUsed, Log, Told
<1> QED
    BY <1>8 DEF Abstract!Next

(***************************************************************************)
(* A 200 is the abstract Answer.                                           *)
(***************************************************************************)
LEMMA ReplyIsAnswer ==
    ASSUME TypeOK, CommandInv, NEW w \in Workers, Reply(w)
    PROVE  Abstract!Next \/ UNCHANGED <<Log, Told>>
<1> DEFINE T == handler[w].trip
           i == Doing(w)
           n == handler[w].seen.version
<1>1. handler[w].step = "reply" /\ UNCHANGED stored
    BY DEF Reply, AtStep, databaseVars
<1>2. UNCHANGED Log
    BY <1>1 DEF Log
<1>3. CASE i \in Asks
    BY <1>2, <1>3 DEF Reply, Told
<1>4. CASE i \notin Asks
    <2>1. i \in Intents /\ T \in Trips /\ handler[w].seen \in TripState
        BY <1>1, BusyHandler DEF CommandInv
    <2>2. TellsOf(stored, ledger, i, T, handler[w].seen)
        BY <1>1, <1>4 DEF CommandInv, HandlerInv, HandlerOK, Doing
    <2>3. stored[T].edits \in Seq(Intents) /\ n \in Nat
        BY <2>1 DEF TypeOK, TripState
    <2>4. n \in DOMAIN stored[T].edits /\ stored[T].edits[n] = i
        <3>1. DOMAIN stored[T].edits = 1 .. Len(stored[T].edits) /\ Len(stored[T].edits) \in Nat
            BY <2>3, LenProperties
        <3>2. n > 0 /\ n <= Len(stored[T].edits)
            BY <2>2 DEF TellsOf, WentThrough
        <3>3. n \in 1 .. n /\ n \in 1 .. Len(stored[T].edits)
            BY <2>3, <3>1, <3>2
        <3> QED
            BY <2>2, <3>1, <3>3 DEF TellsOf, WentThrough
    <2>5. Told' = Told \cup {[intent |-> i, trip |-> T, version |-> n]}
        <3> DEFINE a == [intent |-> i, trip |-> T, outcome |-> handler[w].seen]
        <3>1. answers' = answers \cup {a}
            BY <1>4 DEF Reply
        <3>2. Answered(a) = [intent |-> i, trip |-> T, version |-> n]
            BY DEF Answered
        <3> HIDE DEF a, i, T, n
        <3> QED
            BY <3>1, <3>2 DEF Told
    <2>6. Abstract!Answer(i, T, n)
        BY <1>2, <2>1, <2>4, <2>5 DEF Abstract!Answer, Log, Told
    <2>7. n \in DOMAIN Log[T] /\ Log[T][n] = i
        BY <2>1, <2>4 DEF Log
    <2> HIDE DEF T, i, n
    <2> QED
        BY <2>1, <2>6, <2>7 DEF Abstract!Next, Log
<1> QED
    BY <1>3, <1>4

(***************************************************************************)
(* The concurrent handlers implement the ledger: see ImplementsLedger.     *)
(***************************************************************************)
THEOREM Refinement == Spec => ImplementsLedger
<1>1. Init => Abstract!Init
    BY DEF Init, Abstract!Init, NoState
<1>2. TypeOK /\ CommandInv /\ [Next]_vars => [Abstract!Next]_<<Log, Told>>
    <2> SUFFICES ASSUME TypeOK, CommandInv, [Next]_vars
                 PROVE  Abstract!Next \/ UNCHANGED <<Log, Told>>
        OBVIOUS
    <2>1. ASSUME UNCHANGED <<stored, answers>> PROVE UNCHANGED <<Log, Told>>
        BY <2>1 DEF Log, Told
    <2>2. ASSUME NEW w \in Workers, NEW i \in Intents,
                 SendCreate(w, i) \/ SendEvent(w, i) \/ ResendEvent(w, i)
          PROVE  UNCHANGED <<Log, Told>>
        BY <2>1, <2>2 DEF SendCreate, SendEvent, ResendEvent, Arrive, databaseVars
    <2>3. ASSUME NEW w \in Workers,
                 \/ Load(w) \/ Lookup(w) \/ ReadQuota(w) \/ ResetQuota(w) \/ CommitRecorded(w)
                 \/ CommitConflict(w) \/ CommitOverLimit(w) \/ Fail(w)
          PROVE  UNCHANGED <<Log, Told>>
        BY <2>1, <2>3 DEF Load, Lookup, ReadQuota, ResetQuota, CommitRecorded,
           CommitConflict, CommitOverLimit, Fail, databaseVars, clientVars
    <2>4. ASSUME NEW w \in Workers, CommitCreate(w) \/ CommitEvent(w) PROVE Abstract!Next
        <3>1. /\ AtStep(w, "commit") /\ Recorded(w) = {} /\ Effect(w) /\ UNCHANGED answers
              /\ handler[w].step = "commit" /\ HandlerOK(handler[w]) /\ handler[w] \in Handler
            BY <2>4 DEF CommitCreate, CommitEvent, clientVars, AtStep, CommandInv, HandlerInv, TypeOK
        <3>2. handler[w].seen.version = stored[handler[w].trip].version
            BY <2>4, <3>1, SnapshotIsStored
        <3> QED
            BY <3>1, <3>2, EffectIsApply
    <2>5. CASE Next
        <3>1. \/ \E w \in Workers, i \in Intents :
                   SendCreate(w, i) \/ SendEvent(w, i) \/ ResendEvent(w, i)
              \/ \E w \in Workers : Serve(w)
              \/ Midnight
            BY <2>5 DEF Next
        <3>2. ASSUME NEW w \in Workers, Serve(w) PROVE Abstract!Next \/ UNCHANGED <<Log, Told>>
            BY <2>3, <2>4, <3>2, ReplyIsAnswer DEF Serve
        <3>3. CASE Midnight
            BY <2>1, <3>3 DEF Midnight, databaseVars, clientVars
        <3> QED
            BY <2>2, <3>1, <3>2, <3>3
    <2>6. CASE UNCHANGED vars
        BY <2>1, <2>6 DEF vars, databaseVars, clientVars
    <2> QED
        BY <2>5, <2>6
<1> QED
    BY <1>1, <1>2, TypeInvariant, CommandInvariant, PTL
    DEF Spec, ImplementsLedger, Abstract!Spec, Log, Told

-----------------------------------------------------------------------------
(* The quota and the day *)

(***************************************************************************)
(* Multiplying by the limit keeps the order.                               *)
(***************************************************************************)
LEMMA LimitTimes ==
    ASSUME NEW L \in Nat, NEW a \in Nat, NEW b \in Nat
    PROVE  /\ L * a \in Nat
           /\ a <= b => L * a <= L * b
           /\ a < b => L * a + L <= L * b
<1>1. L * a \in Nat /\ L * b \in Nat
    BY SMT
<1>2. ASSUME a <= b PROVE L * a <= L * b
    <2>1. b - a \in Nat /\ L * (b - a) = L * b - L * a
        BY <1>2
    <2>2. L * (b - a) >= 0
        BY <2>1
    <2> QED
        BY <1>1, <2>1, <2>2
<1>3. ASSUME a < b PROVE L * a + L <= L * b
    <2>1. b - a - 1 \in Nat /\ L * (b - a - 1) = L * b - L * a - L
        BY <1>3
    <2>2. L * (b - a - 1) >= 0
        BY <2>1
    <2> QED
        BY <1>1, <2>1, <2>2
<1> QED
    BY <1>1, <1>2, <1>3

(***************************************************************************)
(* The workers about to reset the quota can be counted, before and after   *)
(* a step.                                                                 *)
(***************************************************************************)
LEMMA ResettingCount ==
    ASSUME NEW S \in SUBSET Workers
    PROVE  /\ IsFiniteSet(S)
           /\ Cardinality(S) \in Nat /\ Cardinality(Workers) \in Nat
           /\ Cardinality(S) <= Cardinality(Workers)
           /\ Cardinality(S) = Cardinality(Workers) => S = Workers
           /\ \A R \in SUBSET S : Cardinality(R) \in Nat /\ Cardinality(R) <= Cardinality(S)
           /\ Cardinality({}) = 0
BY WorkersAssumption, FS_Subset, FS_CardinalityType, FS_EmptySet

(***************************************************************************)
(* A step of one handler that leaves the quota and the clock alone keeps   *)
(* DayInv, unless it passes the quota check of a day not yet reset.        *)
(***************************************************************************)
LEMMA DayFrame ==
    ASSUME TypeOK, DayInv, UNCHANGED <<quota, day, spent>>, NEW w \in Workers,
           \A v \in Workers \ {w} : handler'[v] = handler[v],
           handler'[w].born <= day,
           handler'[w].due => handler[w].due \/ quota.resetDay # day,
           Granted(handler'[w]) =>
              quota.resetDay = day \/ (Granted(handler[w]) /\ handler'[w].born = handler[w].born)
    PROVE  DayInv'
<1>0. quota.resetDay \in Nat /\ quota.used \in Nat /\ day \in Nat /\ spent \in Nat /\ Limit \in Nat
    BY ConstantsAssumption DEF TypeOK, ConstantsAssumption
<1>1. \A v \in Workers : handler'[v].born <= day
    BY DEF DayInv
<1>2. CASE quota.resetDay # day
    <2>1. day # 0
        BY <1>0, <1>2 DEF DayInv
    <2>2. \A v \in Workers : Granted(handler'[v]) => handler'[v].born < day
        BY <1>2 DEF DayInv
    <2> QED
        BY <1>1, <1>2, <2>1, <2>2 DEF DayInv, Granted
<1>3. CASE quota.resetDay = day
    <2>1. Resetting' \subseteq Resetting /\ Resetting \in SUBSET Workers
        BY <1>3 DEF Resetting
    <2>2. Cardinality(Resetting') \in Nat /\ Cardinality(Resetting) \in Nat
          /\ Cardinality(Resetting') <= Cardinality(Resetting) /\ Cardinality(Workers) \in Nat
        BY <2>1, ResettingCount
    <2>3. Limit * Cardinality(Resetting') <= Limit * Cardinality(Resetting)
          /\ Limit * Cardinality(Resetting') \in Nat /\ Limit * Cardinality(Resetting) \in Nat
          /\ Limit * Cardinality(Workers) \in Nat
        BY <1>0, <2>2, LimitTimes
    <2>4. spent + Limit * Cardinality(Resetting') + Limit <= quota.used + Limit * Cardinality(Workers)
        BY <1>0, <1>3, <2>3 DEF DayInv
    <2>5. day = 0 => Resetting' = {}
        BY <2>1 DEF DayInv
    <2> QED
        BY <1>1, <1>3, <2>4, <2>5 DEF DayInv
<1> QED
    BY <1>2, <1>3


(***************************************************************************)
(* The arrival of a request: it belongs to today and has seen no quota.    *)
(***************************************************************************)
LEMMA DayArrival ==
    ASSUME TypeOK, DayInv, NEW w \in Workers, NEW i \in Intents,
           NEW step \in {"open", "load"}, NEW t, Arrive(w, i, step, t)
    PROVE  DayInv'
<1>1. /\ UNCHANGED <<quota, day, spent>>
      /\ handler'[w].step = step /\ handler'[w].born = day /\ ~handler'[w].due
      /\ \A v \in Workers \ {w} : handler'[v] = handler[v]
    BY DEF Arrive, IdleHandler, TypeOK, databaseVars, clockVars
<1>2. day \in Nat
    BY ConstantsAssumption DEF TypeOK, ConstantsAssumption
<1>3. ~Granted(handler'[w]) /\ handler'[w].born <= day
    BY <1>1, <1>2 DEF Granted
<1> QED
    BY <1>1, <1>3, DayFrame

(***************************************************************************)
(* The statements that neither read, reset nor charge the quota.           *)
(***************************************************************************)
LEMMA DayAside ==
    ASSUME TypeOK, CommandInv, DayInv, NEW w \in Workers,
           \/ Load(w) \/ Lookup(w) \/ CommitRecorded(w) \/ CommitCreate(w)
           \/ CommitConflict(w) \/ CommitOverLimit(w) \/ Reply(w) \/ Fail(w)
    PROVE  DayInv'
<1>0. handler \in [Workers -> Handler] /\ handler[w] \in Handler /\ day \in Nat
    BY ConstantsAssumption DEF TypeOK, ConstantsAssumption
<1>1. UNCHANGED <<quota, day, spent>>
    BY DEF Load, Lookup, CommitRecorded, CommitCreate, CommitConflict, CommitOverLimit,
           Reply, Fail, databaseVars, clockVars
<1>2. handler[w].born <= day
    BY DEF DayInv
<1>3. ASSUME Ends(w) PROVE DayInv'
    <2>1. /\ handler'[w].born = 0 /\ handler'[w].due = FALSE /\ handler'[w].step = "idle"
          /\ \A v \in Workers \ {w} : handler'[v] = handler[v]
        BY <1>0, <1>3 DEF Ends, IdleHandler
    <2>2. ~Granted(handler'[w]) /\ handler'[w].born <= day
        BY <1>0, <2>1 DEF Granted
    <2> QED
        BY <1>1, <2>1, <2>2, DayFrame
<1>4. ASSUME \A v \in Workers \ {w} : handler'[v] = handler[v],
             handler'[w].born = handler[w].born, handler'[w].due = handler[w].due,
             ~Granted(handler'[w]) \/ Granted(handler[w])
      PROVE  DayInv'
    BY <1>1, <1>2, <1>4, DayFrame
<1>5. ASSUME ReplayRecorded(w) PROVE DayInv'
    <2>1. /\ \A v \in Workers \ {w} : handler'[v] = handler[v]
          /\ handler'[w].born = handler[w].born /\ handler'[w].due = handler[w].due
          /\ handler'[w].step = "reply"
        BY <1>0, <1>5 DEF ReplayRecorded, Handler
    <2> QED
        BY <1>4, <2>1 DEF Granted
<1>6. ASSUME NEW step \in HandlerStep, Goes(w, step)
      PROVE  /\ \A v \in Workers \ {w} : handler'[v] = handler[v]
             /\ handler'[w].born = handler[w].born /\ handler'[w].due = handler[w].due
             /\ handler'[w].step = step /\ handler'[w].intent = handler[w].intent
    BY <1>0, <1>6 DEF Goes, Handler
<1>7. AfterLookup(w) \in HandlerStep
    BY NextStepTypes
<1>8. Doing(w) \in Reroutes => AfterLookup(w) = "quota"
    BY ConstantsAssumption DEF AfterLookup, ConstantsAssumption
<1>9. CASE Load(w)
    <2>1. /\ \A v \in Workers \ {w} : handler'[v] = handler[v]
          /\ handler'[w].born = handler[w].born /\ handler'[w].due = handler[w].due
          /\ handler'[w].intent = handler[w].intent
          /\ handler'[w].step \in {"lookup", AfterLookup(w)}
        BY <1>0, <1>9 DEF Load, Handler
    <2>2. ~Granted(handler'[w])
        BY <1>8, <2>1 DEF Granted, Doing
    <2> QED
        BY <1>4, <2>1, <2>2
<1>10. CASE Lookup(w)
    <2>1. ASSUME Goes(w, AfterLookup(w)) PROVE DayInv'
        <3>1. /\ \A v \in Workers \ {w} : handler'[v] = handler[v]
              /\ handler'[w].born = handler[w].born /\ handler'[w].due = handler[w].due
              /\ handler'[w].step = AfterLookup(w) /\ handler'[w].intent = handler[w].intent
            BY <1>6, <1>7, <2>1
        <3>2. ~Granted(handler'[w])
            BY <1>8, <3>1 DEF Granted, Doing
        <3> QED
            BY <1>4, <3>1, <3>2
    <2> QED
        BY <1>3, <1>5, <1>10, <2>1 DEF Lookup, RefuseMismatch
<1>11. CASE CommitRecorded(w)
    BY <1>3, <1>5, <1>11 DEF CommitRecorded, RefuseMismatch
<1>12. CASE CommitCreate(w)
    <2>1. /\ \A v \in Workers \ {w} : handler'[v] = handler[v]
          /\ handler'[w].born = handler[w].born /\ handler'[w].due = handler[w].due
          /\ handler'[w].step = "reply"
        BY <1>0, <1>12 DEF CommitCreate, Effect, Handler
    <2> QED
        BY <1>4, <2>1 DEF Granted
<1>13. CASE CommitConflict(w)
    BY <1>3, <1>13 DEF CommitConflict
<1>14. CASE CommitOverLimit(w)
    <2>1. "explain" \in HandlerStep /\ Goes(w, "explain") /\ handler[w].step = "commit"
        BY <1>14 DEF CommitOverLimit, HandlerStep, AtStep
    <2>2. /\ \A v \in Workers \ {w} : handler'[v] = handler[v]
          /\ handler'[w].born = handler[w].born /\ handler'[w].due = handler[w].due
          /\ handler'[w].intent = handler[w].intent
        BY <1>6, <2>1
    <2> QED
        BY <1>4, <2>1, <2>2 DEF Granted
<1>15. CASE Reply(w) \/ Fail(w)
    BY <1>3, <1>15 DEF Reply, Fail
<1> QED
    BY <1>9, <1>10, <1>11, <1>12, <1>13, <1>14, <1>15


(***************************************************************************)
(* What a handler that has learnt the quota looks like.                    *)
(***************************************************************************)
LEMMA KnowsFields ==
    ASSUME TypeOK, NEW w \in Workers, NEW used, KnowsQuota(w, used)
    PROVE  /\ \A v \in Workers \ {w} : handler'[v] = handler[v]
           /\ handler'[w].born \in {0, handler[w].born} /\ handler'[w].due = FALSE
<1>1. handler \in [Workers -> Handler] /\ handler[w] \in Handler
    BY DEF TypeOK
<1>2. CASE StepAfterQuota(w, used) = "idle"
    BY <1>1, <1>2 DEF KnowsQuota, IdleHandler
<1>3. CASE StepAfterQuota(w, used) # "idle"
    BY <1>1, <1>3 DEF KnowsQuota, Handler
<1> QED
    BY <1>2, <1>3

(***************************************************************************)
(* Reading the quota: the handler goes on only when the row is of today.   *)
(***************************************************************************)
LEMMA DayRead ==
    ASSUME TypeOK, DayInv, NEW w \in Workers, ReadQuota(w)
    PROVE  DayInv'
<1>0. handler \in [Workers -> Handler] /\ handler[w] \in Handler /\ day \in Nat
      /\ handler[w].born \in Nat /\ handler[w].born <= day
    BY ConstantsAssumption DEF TypeOK, ConstantsAssumption, Handler, DayInv
<1>1. UNCHANGED <<quota, day, spent>>
    BY DEF ReadQuota, databaseVars, clockVars
<1>2. CASE quota.resetDay = day /\ KnowsQuota(w, quota.used)
    <2>1. /\ \A v \in Workers \ {w} : handler'[v] = handler[v]
          /\ handler'[w].born \in {0, handler[w].born} /\ handler'[w].due = FALSE
        BY <1>2, KnowsFields
    <2>2. handler'[w].born <= day
        BY <1>0, <2>1
    <2> QED
        BY <1>1, <1>2, <2>1, <2>2, DayFrame
<1>3. CASE quota.resetDay # day /\ handler' = [handler EXCEPT ![w].due = TRUE]
    <2>1. /\ \A v \in Workers \ {w} : handler'[v] = handler[v]
          /\ handler'[w].born = handler[w].born
          /\ handler'[w].step = handler[w].step /\ handler'[w].intent = handler[w].intent
        BY <1>0, <1>3 DEF Handler
    <2>2. Granted(handler'[w]) => Granted(handler[w])
        BY <2>1 DEF Granted
    <2> QED
        BY <1>0, <1>1, <1>3, <2>1, <2>2, DayFrame
<1> QED
    BY <1>2, <1>3 DEF ReadQuota

(***************************************************************************)
(* Resetting it: the day's first reset finds nothing spent and leaves the  *)
(* other workers; a later one has one worker fewer to follow it.           *)
(***************************************************************************)
LEMMA DayReset ==
    ASSUME TypeOK, DayInv, NEW w \in Workers, ResetQuota(w)
    PROVE  DayInv'
<1>0. /\ handler \in [Workers -> Handler] /\ handler[w] \in Handler /\ day \in Nat
      /\ handler[w].born \in Nat /\ handler[w].born <= day
      /\ spent \in Nat /\ quota.used \in 0 .. Limit /\ Limit \in Nat
    BY ConstantsAssumption DEF TypeOK, ConstantsAssumption, Handler, DayInv
<1>1. /\ UNCHANGED <<day, spent>> /\ quota'.used = 0 /\ quota'.resetDay = day
      /\ KnowsQuota(w, 0) /\ handler[w].due
    BY DEF ResetQuota, clockVars
<1>2. /\ \A v \in Workers \ {w} : handler'[v] = handler[v]
      /\ handler'[w].born \in {0, handler[w].born} /\ handler'[w].due = FALSE
    BY <1>1, KnowsFields
<1>3. \A v \in Workers : handler'[v].born <= day
    BY <1>0, <1>2 DEF DayInv
<1>4. Resetting' = Resetting \ {w} /\ w \in Resetting /\ Resetting \in SUBSET Workers
    BY <1>1, <1>2 DEF Resetting
<1>5. /\ Cardinality(Resetting') = Cardinality(Resetting) - 1
      /\ Cardinality(Resetting) \in Nat /\ Cardinality(Resetting') \in Nat
      /\ Cardinality(Workers) \in Nat /\ Cardinality(Resetting) <= Cardinality(Workers)
    BY <1>4, ResettingCount, FS_RemoveElement
<1>6. /\ Limit * Cardinality(Resetting') + Limit <= Limit * Cardinality(Resetting)
      /\ Limit * Cardinality(Resetting) <= Limit * Cardinality(Workers)
      /\ Limit * Cardinality(Resetting') \in Nat /\ Limit * Cardinality(Resetting) \in Nat
      /\ Limit * Cardinality(Workers) \in Nat
    <2>1. Cardinality(Resetting') < Cardinality(Resetting)
        BY <1>5
    <2> QED
        BY <1>0, <1>5, <2>1, LimitTimes
<1>7. day # 0
    BY <1>4 DEF DayInv
<1>8. spent + Limit * Cardinality(Resetting') + Limit <= Limit * Cardinality(Workers)
    <2>1. CASE quota.resetDay = day
        <3>1. spent + Limit * Cardinality(Resetting) + Limit <= quota.used + Limit * Cardinality(Workers)
            BY <2>1 DEF DayInv
        <3> QED
            BY <1>0, <1>6, <3>1
    <2>2. CASE quota.resetDay # day
        <3>1. spent = 0
            BY <2>2 DEF DayInv
        <3> QED
            BY <1>0, <1>6, <3>1
    <2> QED
        BY <2>1, <2>2
<1>9. quota'.used + Limit * Cardinality(Workers) = Limit * Cardinality(Workers)
    BY <1>1, <1>6
<1> QED
    BY <1>0, <1>1, <1>3, <1>7, <1>8, <1>9 DEF DayInv

(***************************************************************************)
(* Charging it: a reroute of today is charged to a row of today, and the   *)
(* row counts what is spent.                                               *)
(***************************************************************************)
LEMMA DayCharge ==
    ASSUME TypeOK, DayInv, NEW w \in Workers, CommitEvent(w)
    PROVE  DayInv'
<1>0. /\ handler \in [Workers -> Handler] /\ handler[w] \in Handler /\ day \in Nat
      /\ spent \in Nat /\ quota.used \in Nat /\ Limit \in Nat /\ handler[w].due = FALSE
      /\ handler[w].step = "commit"
    BY ConstantsAssumption DEF TypeOK, ConstantsAssumption, Handler, CommitEvent, AtStep
<1>1. /\ \A v \in Workers \ {w} : handler'[v] = handler[v]
      /\ handler'[w].born = handler[w].born /\ handler'[w].due = FALSE
      /\ handler'[w].step = "reply" /\ day' = day
    BY <1>0 DEF CommitEvent, Effect, Handler
<1>2. ~Granted(handler'[w])
    BY <1>1 DEF Granted
<1>3. handler[w].born <= day
    BY DEF DayInv
<1>4. CASE ~Charged(w)
    <2>1. UNCHANGED <<quota, day, spent>>
        BY <1>4 DEF CommitEvent
    <2> QED
        BY <1>1, <1>2, <1>3, <2>1, DayFrame
<1>5. CASE Charged(w)
    <2>1. quota'.used = quota.used + 1 /\ quota'.resetDay = quota.resetDay
        BY <1>5 DEF CommitEvent, TypeOK
    <2>2. Resetting' = Resetting
        BY <1>0, <1>1 DEF Resetting
    <2>3. \A v \in Workers : handler'[v].born <= day
        BY <1>1, <1>3 DEF DayInv
    <2>4. Granted(handler[w])
        BY <1>0, <1>5 DEF Granted, Charged, Doing
    <2>5. CASE quota.resetDay # day
        <3>1. handler[w].born < day /\ handler[w].born \in Nat
            BY <1>0, <2>4, <2>5 DEF DayInv, Handler
        <3>2. spent' = spent
            BY <1>0, <3>1 DEF CommitEvent
        <3>3. \A v \in Workers : Granted(handler'[v]) => handler'[v].born < day
            BY <1>1, <1>2, <2>5 DEF DayInv
        <3> QED
            BY <1>1, <2>1, <2>2, <2>3, <2>5, <3>2, <3>3 DEF DayInv
    <2>6. CASE quota.resetDay = day
        <3>1. spent' \in {spent, spent + 1}
            BY DEF CommitEvent
        <3>2. /\ Cardinality(Resetting) \in Nat /\ Cardinality(Workers) \in Nat
              /\ Limit * Cardinality(Resetting) \in Nat /\ Limit * Cardinality(Workers) \in Nat
            <4>1. Resetting \in SUBSET Workers
                BY DEF Resetting
            <4>2. Cardinality(Resetting) \in Nat /\ Cardinality(Workers) \in Nat
                BY <4>1, ResettingCount
            <4> QED
                BY <1>0, <4>2, LimitTimes
        <3>3. spent + Limit * Cardinality(Resetting) + Limit <= quota.used + Limit * Cardinality(Workers)
            BY <2>6 DEF DayInv
        <3>4. spent' + Limit * Cardinality(Resetting) + Limit
              <= quota.used + 1 + Limit * Cardinality(Workers)
            BY <1>0, <3>1, <3>2, <3>3
        <3> QED
            BY <1>1, <2>1, <2>2, <2>3, <2>6, <3>4 DEF DayInv
    <2> QED
        BY <2>5, <2>6
<1> QED
    BY <1>4, <1>5


(***************************************************************************)
(* DayInv holds at first, every step keeps it, and it bounds what is spent *)
(* in a day.                                                               *)
(***************************************************************************)
LEMMA DayInit == Init => DayInv
<1> SUFFICES ASSUME Init PROVE DayInv
    OBVIOUS
<1>1. /\ day = 0 /\ spent = 0 /\ quota.used = 0 /\ quota.resetDay = 0
      /\ \A w \in Workers : handler[w].born = 0 /\ handler[w].due = FALSE
    BY DEF Init, IdleHandler
<1>2. Resetting = {}
    BY <1>1 DEF Resetting
<1>3. Cardinality(Resetting) = 0 /\ 0 < Cardinality(Workers) /\ Cardinality(Workers) \in Nat
    <2>1. Cardinality({}) = 0 /\ Cardinality(Workers) \in Nat /\ Cardinality(Workers) # 0
        BY WorkersAssumption, FS_CardinalityType, FS_EmptySet
    <2> QED
        BY <1>2, <2>1
<1>4. Limit \in Nat /\ Limit * 0 + Limit <= Limit * Cardinality(Workers) /\ Limit * 0 = 0
    BY <1>3, ConstantsAssumption, LimitTimes DEF ConstantsAssumption
<1>5. Limit * Cardinality(Workers) \in Nat
    BY <1>3, <1>4, LimitTimes
<1>6. spent + Limit * Cardinality(Resetting) + Limit <= quota.used + Limit * Cardinality(Workers)
    BY <1>1, <1>3, <1>4, <1>5
<1> QED
    BY <1>1, <1>2, <1>6 DEF DayInv

LEMMA DayStep ==
    ASSUME TypeOK, CommandInv, DayInv, [Next]_vars
    PROVE  DayInv'
<1>1. ASSUME NEW w \in Workers, NEW i \in Intents,
             SendCreate(w, i) \/ SendEvent(w, i) \/ ResendEvent(w, i)
      PROVE  DayInv'
    <2>1. PICK step \in {"open", "load"} : \E t : Arrive(w, i, step, t)
        BY <1>1 DEF SendCreate, SendEvent, ResendEvent
    <2>2. PICK t : Arrive(w, i, step, t)
        BY <2>1
    <2> QED
        BY <2>2, DayArrival
<1>2. ASSUME NEW w \in Workers, Serve(w) PROVE DayInv'
    BY <1>2, DayAside, DayRead, DayReset, DayCharge DEF Serve
<1>3. ASSUME Midnight PROVE DayInv'
    <2>1. /\ day \in Nat /\ day' = day + 1 /\ spent' = 0 /\ UNCHANGED <<quota, handler>>
          /\ quota.resetDay \in Nat /\ quota.resetDay <= day
        BY <1>3, ConstantsAssumption DEF Midnight, TypeOK, ConstantsAssumption, databaseVars, DayInv
    <2>2. \A w \in Workers : handler[w].born \in Nat /\ handler[w].born <= day
        BY DEF TypeOK, Handler, DayInv
    <2>3. quota'.resetDay < day' /\ \A w \in Workers : handler'[w].born < day'
        BY <2>1, <2>2
    <2>4. day' # 0 /\ quota'.resetDay # day' /\ quota'.resetDay <= day'
          /\ \A w \in Workers : handler'[w].born <= day'
        BY <2>1, <2>2
    <2> QED
        BY <2>1, <2>3, <2>4 DEF DayInv
<1>4. CASE UNCHANGED vars
    BY <1>4 DEF vars, databaseVars, clockVars, DayInv, Resetting, Granted
<1> QED
    BY <1>1, <1>2, <1>3, <1>4 DEF Next

LEMMA DayBound == TypeOK /\ DayInv => DailyCapPerWorker
<1> SUFFICES ASSUME TypeOK, DayInv PROVE DailyCapPerWorker
    OBVIOUS
<1>1. /\ spent \in Nat /\ quota.used \in Nat /\ quota.used <= Limit /\ Limit \in Nat
      /\ Resetting \in SUBSET Workers
    BY ConstantsAssumption DEF TypeOK, ConstantsAssumption, Resetting
<1>2. /\ Cardinality(Resetting) \in Nat /\ Cardinality(Workers) \in Nat
    BY <1>1, ResettingCount
<1>3. Limit * Cardinality(Resetting) \in Nat /\ Limit * Cardinality(Workers) \in Nat
    BY <1>1, <1>2, LimitTimes
<1>4. CASE quota.resetDay = day
    <2>1. spent + Limit * Cardinality(Resetting) + Limit <= quota.used + Limit * Cardinality(Workers)
        BY <1>4 DEF DayInv
    <2> QED
        BY <1>1, <1>3, <2>1 DEF DailyCapPerWorker
<1>5. CASE quota.resetDay # day
    BY <1>1, <1>3, <1>5 DEF DayInv, DailyCapPerWorker
<1> QED
    BY <1>4, <1>5

(***************************************************************************)
(* A user gets at most Limit reroutes a day per request served at the same *)
(* time, for any number of workers, days and requests: see                 *)
(* DailyCapPerWorker.                                                      *)
(***************************************************************************)
THEOREM DailyCapBound == Spec => []DailyCapPerWorker
<1>1. Init => TypeOK /\ CommandInv /\ DayInv
    BY TypeInit, InvInit, DayInit
<1>2. TypeOK /\ CommandInv /\ DayInv /\ [Next]_vars => (TypeOK /\ CommandInv /\ DayInv)'
    BY InvStep, DayStep
<1>3. TypeOK /\ DayInv => DailyCapPerWorker
    BY DayBound
<1> QED
    BY <1>1, <1>2, <1>3, PTL DEF Spec


-----------------------------------------------------------------------------
(* The quota counts the reroutes of the first day *)

(***************************************************************************)
(* What a structural effect is: a place of a trip's log that holds one.    *)
(***************************************************************************)
LEMMA EffectPlaces ==
    ASSUME NEW t \in Trips, NEW n
    PROVE  <<t, n>> \in RerouteEffects <=>
               n \in DOMAIN stored[t].edits /\ stored[t].edits[n] \in Reroutes
BY DEF RerouteEffects

(***************************************************************************)
(* An effect adds its own place to the structural effects, if it is one,   *)
(* and no other.                                                           *)
(***************************************************************************)
LEMMA EffectsGrow ==
    ASSUME TypeOK, TypeOK', CommandInv, NEW w \in Workers, CommitCreate(w) \/ CommitEvent(w)
    PROVE  \E place : place \notin RerouteEffects /\
               RerouteEffects' = IF Doing(w) \in Reroutes THEN RerouteEffects \cup {place}
                                 ELSE RerouteEffects
<1> DEFINE T == handler[w].trip
           old == stored[T].edits
           new == stored'[T].edits
           place == <<T, Len(old) + 1>>
<1>0. handler[w].step # "idle" /\ Effect(w)
      /\ handler[w].seen.version = stored[handler[w].trip].version
    BY SnapshotIsStored DEF CommitCreate, CommitEvent, AtStep
<1>1. T \in Trips /\ Doing(w) \in Intents
    BY <1>0, BusyHandler DEF CommandInv
<1>2. /\ new = Append(old, Doing(w))
      /\ \A t \in Trips \ {T} : stored'[t] = stored[t]
    <2>1. /\ stored'[T] = Outcome(w) /\ Outcome(w).edits = Append(old, Doing(w))
          /\ \A t \in Trips \ {T} : stored'[t] = stored[t]
        BY <1>0, EffectExtends
    <2> QED
        BY <2>1
<1>3. old \in Seq(Intents)
    BY <1>1 DEF TypeOK, TripState
<1>4. /\ DOMAIN old = 1 .. Len(old) /\ DOMAIN new = 1 .. (Len(old) + 1) /\ Len(old) \in Nat
      /\ new[Len(old) + 1] = Doing(w) /\ \A n \in 1 .. Len(old) : new[n] = old[n]
    <2> HIDE DEF old, new
    <2> QED
        BY <1>1, <1>2, <1>3, AppendProperties, LenProperties
<1>5. DOMAIN new = DOMAIN old \cup {Len(old) + 1} /\ Len(old) + 1 \notin DOMAIN old
    <2>1. \A k \in Nat : 1 .. (k + 1) = (1 .. k) \cup {k + 1} /\ k + 1 \notin 1 .. k
        OBVIOUS
    <2> HIDE DEF old, new
    <2> QED
        BY <1>4, <2>1
<1>6. place \notin RerouteEffects
    BY <1>1, <1>5, EffectPlaces
<1>7. RerouteEffects' = UNION {{<<t, n>> : n \in {m \in DOMAIN stored'[t].edits :
                                    stored'[t].edits[m] \in Reroutes}} : t \in Trips}
    BY DEF RerouteEffects
<1>8. ASSUME NEW p PROVE p \in RerouteEffects' <=>
          p \in RerouteEffects \/ (p = place /\ Doing(w) \in Reroutes)
    <2>1. ASSUME NEW t \in Trips, NEW n
          PROVE  n \in DOMAIN stored'[t].edits /\ stored'[t].edits[n] \in Reroutes <=>
                 \/ n \in DOMAIN stored[t].edits /\ stored[t].edits[n] \in Reroutes
                 \/ t = T /\ n = Len(old) + 1 /\ Doing(w) \in Reroutes
        <3>1. CASE t = T
            BY <1>4, <1>5, <3>1
        <3>2. CASE t # T
            BY <1>2, <3>2
        <3> QED
            BY <3>1, <3>2
    <2>2. CASE \E t \in Trips : \E n : p = <<t, n>>
        <3>1. PICK t \in Trips : \E n : p = <<t, n>>
            BY <2>2
        <3>2. PICK n : p = <<t, n>>
            BY <3>1
        <3>3. p \in RerouteEffects <=>
                  n \in DOMAIN stored[t].edits /\ stored[t].edits[n] \in Reroutes
            BY <3>2, EffectPlaces
        <3>4. p \in RerouteEffects' <=>
                  n \in DOMAIN stored'[t].edits /\ stored'[t].edits[n] \in Reroutes
            BY <1>7, <3>2
        <3>5. p = place <=> t = T /\ n = Len(old) + 1
            BY <3>2
        <3> QED
            BY <2>1, <3>3, <3>4, <3>5
    <2>3. CASE ~\E t \in Trips : \E n : p = <<t, n>>
        BY <1>1, <1>7, <2>3 DEF RerouteEffects
    <2> QED
        BY <2>2, <2>3
<1> HIDE DEF place
<1>9. RerouteEffects' = IF Doing(w) \in Reroutes THEN RerouteEffects \cup {place} ELSE RerouteEffects
    BY <1>8
<1> QED
    BY <1>6, <1>9

(***************************************************************************)
(* Every step keeps the count: on the first day nothing is reset, and only *)
(* an effect is charged.                                                   *)
(***************************************************************************)
LEMMA CountStep ==
    ASSUME TypeOK, TypeOK', CommandInv, DayInv, [Next]_vars,
           IsFiniteSet(RerouteEffects), QuotaExact
    PROVE  IsFiniteSet(RerouteEffects)' /\ QuotaExact'
<1>0. quota.used \in Nat /\ day \in Nat
    BY ConstantsAssumption DEF TypeOK, ConstantsAssumption
<1>1. ASSUME UNCHANGED <<stored, quota, day>> PROVE IsFiniteSet(RerouteEffects)' /\ QuotaExact'
    BY <1>1 DEF RerouteEffects, QuotaExact
<1>2. ASSUME NEW w \in Workers, CommitCreate(w) \/ CommitEvent(w)
      PROVE  IsFiniteSet(RerouteEffects)' /\ QuotaExact'
    <2>1. PICK place : place \notin RerouteEffects /\
              RerouteEffects' = IF Doing(w) \in Reroutes THEN RerouteEffects \cup {place}
                                ELSE RerouteEffects
        BY <1>2, EffectsGrow
    <2>2. day' = day /\ quota'.used = IF Doing(w) \in Reroutes THEN quota.used + 1 ELSE quota.used
        <3>1. CASE CommitCreate(w)
            BY <3>1, ConstantsAssumption DEF CommitCreate, ConstantsAssumption, clockVars
        <3>2. CASE CommitEvent(w)
            BY <3>2 DEF CommitEvent, Charged, TypeOK
        <3> QED
            BY <1>2, <3>1, <3>2
    <2>3. CASE Doing(w) \in Reroutes
        <3>1. RerouteEffects' = RerouteEffects \cup {place} /\ quota'.used = quota.used + 1
            BY <2>1, <2>2, <2>3
        <3>2. /\ IsFiniteSet(RerouteEffects \cup {place})
              /\ Cardinality(RerouteEffects \cup {place}) = Cardinality(RerouteEffects) + 1
            BY <2>1, FS_AddElement
        <3> QED
            BY <2>2, <3>1, <3>2 DEF QuotaExact
    <2>4. CASE Doing(w) \notin Reroutes
        BY <2>1, <2>2, <2>4 DEF QuotaExact
    <2> QED
        BY <2>3, <2>4
<1>3. ASSUME NEW w \in Workers, ResetQuota(w)
      PROVE  IsFiniteSet(RerouteEffects)' /\ QuotaExact'
    <2>1. w \in Resetting /\ UNCHANGED <<stored, day>>
        BY <1>3 DEF ResetQuota, Resetting, clockVars
    <2>2. day # 0
        BY <2>1 DEF DayInv
    <2> QED
        BY <2>1, <2>2 DEF QuotaExact, RerouteEffects
<1>4. ASSUME Midnight PROVE IsFiniteSet(RerouteEffects)' /\ QuotaExact'
    <2>1. stored' = stored /\ day' # 0
        BY <1>0, <1>4 DEF Midnight, databaseVars
    <2> QED
        BY <2>1 DEF QuotaExact, RerouteEffects
<1>5. ASSUME NEW w \in Workers, NEW i \in Intents,
             SendCreate(w, i) \/ SendEvent(w, i) \/ ResendEvent(w, i)
      PROVE  UNCHANGED <<stored, quota, day>>
    BY <1>5 DEF SendCreate, SendEvent, ResendEvent, Arrive, databaseVars, clockVars
<1>6. ASSUME NEW w \in Workers,
             \/ Load(w) \/ Lookup(w) \/ ReadQuota(w) \/ CommitRecorded(w)
             \/ CommitConflict(w) \/ CommitOverLimit(w) \/ Reply(w) \/ Fail(w)
      PROVE  UNCHANGED <<stored, quota, day>>
    BY <1>6 DEF Load, Lookup, ReadQuota, CommitRecorded, CommitConflict, CommitOverLimit,
                Reply, Fail, databaseVars, clockVars
<1>7. CASE UNCHANGED vars
    BY <1>1, <1>7 DEF vars, databaseVars, clockVars
<1> QED
    BY <1>1, <1>2, <1>3, <1>4, <1>5, <1>6, <1>7 DEF Next, Serve

(***************************************************************************)
(* Until the first midnight the quota counts exactly the reroutes that     *)
(* took effect: see QuotaExact.                                            *)
(***************************************************************************)
THEOREM ExactQuota == Spec => []QuotaExact
<1>1. Init => TypeOK /\ CommandInv /\ DayInv
    BY TypeInit, InvInit, DayInit
<1>2. Init => IsFiniteSet(RerouteEffects) /\ QuotaExact
    <2> SUFFICES ASSUME Init PROVE IsFiniteSet(RerouteEffects) /\ QuotaExact
        OBVIOUS
    <2>1. \A t \in Trips : DOMAIN stored[t].edits = {}
        BY DEF Init, NoState
    <2>2. RerouteEffects = {} /\ quota.used = 0
        BY <2>1 DEF RerouteEffects, Init
    <2> QED
        BY <2>2, FS_EmptySet DEF QuotaExact
<1>3. TypeOK /\ CommandInv /\ DayInv /\ [Next]_vars => (TypeOK /\ CommandInv /\ DayInv)'
    BY InvStep, DayStep
<1>4. TypeOK /\ TypeOK' /\ CommandInv /\ DayInv /\ [Next]_vars
      /\ IsFiniteSet(RerouteEffects) /\ QuotaExact
      => IsFiniteSet(RerouteEffects)' /\ QuotaExact'
    BY CountStep
<1> QED
    BY <1>1, <1>2, <1>3, <1>4, PTL DEF Spec

=============================================================================
