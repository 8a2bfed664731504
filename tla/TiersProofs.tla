---------------------------- MODULE TiersProofs ----------------------------
(***************************************************************************)
(* Proofs about Tiers, for any number of requests served at once and of    *)
(* changes: TypeOK, TiersInv and KindIsHighestServed are inductive         *)
(* together, and TierIsPaidFor follows.                                    *)
(***************************************************************************)
EXTENDS Tiers, TLAPS

LEMMA StoreOfEvent == \A t \in EventType : StoreOf(t) \in Stores
  BY DEF StoreOf, Stores

\* The ranks of the identity kinds.
LEMMA Ranks ==
    /\ Rank["unknown"] = 0 /\ Rank["anonymous"] = 1 /\ Rank["supabase"] = 2
    /\ \A k \in Kind : Rank[k] \in Nat
  BY DEF Rank, Kind

LEMMA NoEventIsNone == NoEvent \notin Event /\ NoEvent.type \notin Graces
  BY DEF NoEvent, Event, EventType, Upgrades, Downgrades, Graces

\* A worker without a request.
LEMMA IdleIsRequest == Idle \in Request
  BY TiersAssumption DEF Idle, New, Request, NoEvent, Job, Step, Kind

LEMMA IdleIsOK == ASSUME TypeOK PROVE RequestOK(Idle)
  <1>1. changes \in Nat /\ 0 <= changes
    BY TiersAssumption DEF TypeOK
  <1> QED BY <1>1 DEF Idle, New, NoEvent, RequestOK

\* The row keeps its shape.
LEMMA WrittenRow ==
    ASSUME TypeOK, NEW r \in Request
    PROVE  /\ WriteTier(r) \in Row
           /\ row = NoRow <=> WriteTier(r) = NoRow
           /\ WriteTier(r).kind = row.kind
           /\ row # NoRow => WriteTier(r).tier = NewTier(r)
  <1>1. NewTier(r) \in Tier
    BY DEF NewTier, Tier
  <1>2. CASE row = NoRow
    BY <1>2 DEF WriteTier, NoRow, Row
  <1>3. CASE row # NoRow
    <2>1. row \in [tier : Tier, kind : Kind]
      BY <1>3 DEF TypeOK, Row
    <2>2. WriteTier(r) = [row EXCEPT !.tier = NewTier(r)]
      BY <1>3 DEF WriteTier
    <2> QED BY <1>1, <1>3, <2>1, <2>2 DEF NoRow, Row, Tier
  <1> QED BY <1>2, <1>3

LEMMA RaisedRow ==
    ASSUME TypeOK, row # NoRow, NEW k \in Kind
    PROVE  /\ RaiseKind(k) \in Row /\ RaiseKind(k) # NoRow
           /\ RaiseKind(k).tier = row.tier
           /\ Rank[RaiseKind(k).kind] >= Rank[row.kind]
           /\ Rank[RaiseKind(k).kind] >= Rank[k]
  <1>1. row \in [tier : Tier, kind : Kind]
    BY DEF TypeOK, Row
  <1>2. CASE Rank[row.kind] < Rank[k]
    <2>1. RaiseKind(k) = [row EXCEPT !.kind = k]
      BY <1>2 DEF RaiseKind
    <2> QED BY <1>1, <1>2, <2>1, Ranks DEF NoRow, Row, Tier
  <1>3. CASE ~(Rank[row.kind] < Rank[k])
    <2>1. RaiseKind(k) = row
      BY <1>3 DEF RaiseKind
    <2> QED BY <1>1, <1>3, <2>1, Ranks DEF NoRow, Row, Tier
  <1> QED BY <1>2, <1>3

-----------------------------------------------------------------------------

\* A step of another request, or of a store that gives up: changes of the
\* subscriptions aside, nothing is taken back.
LEMMA KeptRequest ==
    ASSUME TypeOK, TypeOK', NEW r \in Request, RequestOK(r), UNCHANGED storeVars, applied' >= applied,
           row # NoRow => row' # NoRow /\ Rank[row'.kind] >= Rank[row.kind]
    PROVE  RequestOK(r)'
  <1>1. changes' = changes /\ subscription' = subscription
    BY DEF storeVars
  <1>2. Matches(r.event) => Matches(r.event)'
    BY <1>1 DEF Matches
  <1>3. r.job = "status" /\ r.step = "done" => row # NoRow
    BY NoEventIsNone DEF RequestOK
  <1>4. row # NoRow => row.kind \in Kind /\ row'.kind \in Kind /\ r.kind \in Kind
    BY DEF TypeOK, Row, NoRow, Request
  <1>5. r.at \in Nat /\ applied \in Nat /\ applied' \in Nat
    BY TiersAssumption DEF TypeOK, Request
  <1>6. r.job = "status" /\ r.step = "done" => Rank[r.kind] <= Rank[row'.kind]
    BY <1>3, <1>4, Ranks DEF RequestOK
  <1> QED BY <1>1, <1>2, <1>5, <1>6 DEF RequestOK

\* What a worker goes on with is in order, and the others keep theirs.
LEMMA KeptRequests ==
    ASSUME TypeOK, TypeOK', TiersInv, NEW w \in Workers, NEW r \in Request,
           request' = [request EXCEPT ![w] = r], RequestOK(r)',
           UNCHANGED storeVars, applied' >= applied,
           row # NoRow => row' # NoRow /\ Rank[row'.kind] >= Rank[row.kind]
    PROVE  \A v \in Workers : RequestOK(request[v])'
  <1> SUFFICES ASSUME NEW v \in Workers PROVE RequestOK(request[v])'
    OBVIOUS
  <1>1. request[v] \in Request /\ RequestOK(request[v])
    BY DEF TypeOK, TiersInv
  <1>2. request'[v] = IF v = w THEN r ELSE request[v]
    BY DEF TypeOK
  <1> DEFINE q == request[v]
  <1>3. CASE v = w
    BY <1>2, <1>3 DEF RequestOK, Matches
  <1>4. CASE v # w
    <2>1. \A x \in Request : RequestOK(x) => RequestOK(x)'
      BY KeptRequest
    <2> QED BY <1>1, <1>2, <1>4, <2>1 DEF RequestOK, Matches
  <1> QED BY <1>3, <1>4

\* Every variable keeps its type: one case per action.
LEMMA TypeStep == ASSUME TypeOK, TiersInv, [Next]_vars PROVE TypeOK'
  <1> USE DEF TypeOK
  <1>1. ASSUME NEW s \in Stores, NEW from, NEW to \in Subscription, NEW type \in EventType, Change(s, from, to, type)
        PROVE TypeOK'
    BY <1>1, TiersAssumption DEF Change, Event, historyVars
  <1>2. CASE StoreMoves
    BY <1>1, <1>2 DEF StoreMoves, Stores, Subscription, EventType, Upgrades, Downgrades, Entitling
  <1>3. CASE Failures
    BY <1>3, TiersAssumption DEF Failures, PaymentFails, Event, EventType, Graces, historyVars, storeVars
  <1>4. ASSUME NEW e \in mail, GiveUp(e) PROVE TypeOK'
    BY <1>4 DEF GiveUp, Cause, storeVars
  <1>5. ASSUME NEW w \in Workers, NEW r \in Request, Begin(w, r) PROVE TypeOK'
    BY <1>5 DEF Begin, historyVars, storeVars
  <1>6. ASSUME NEW w \in Workers, NEW e \in mail, Webhook(w, e) PROVE TypeOK'
    <2> DEFINE r == New("webhook", IF ActionOf(e) = "grace_period" THEN "done" ELSE "apply", e, "unknown")
    <2>1. r \in Request
      BY DEF New, Request, Event, Job, Step, Kind
    <2> QED BY <1>5, <1>6, <2>1 DEF Webhook
  <1>7. ASSUME NEW w \in Workers, Status(w, "supabase") PROVE TypeOK'
    <2>1. New("status", "select", NoEvent, "supabase") \in Request
      BY TiersAssumption DEF New, NoEvent, Request, Job, Step, Kind
    <2> QED BY <1>5, <1>7, <2>1 DEF Status
  <1>8. ASSUME NEW w \in Workers, Verify(w) PROVE TypeOK'
    <2>1. New("verify", "ask", NoEvent, "unknown") \in Request
      BY TiersAssumption DEF New, NoEvent, Request, Job, Step, Kind
    <2> QED BY <1>5, <1>8, <2>1 DEF Verify
  <1>9. ASSUME NEW w \in Workers, NEW step \in Step, Goes(w, step) PROVE request' \in [Workers -> Request]
    BY <1>9 DEF Goes, Request
  <1>10. ASSUME NEW w \in Workers, Answer(w) PROVE TypeOK'
    <2>1. [request[w] EXCEPT !.step = "apply", !.at = changes] \in Request
      BY DEF Request, Step
    <2>2. request' \in [Workers -> Request]
      BY <1>10, <2>1, IdleIsRequest DEF Answer
    <2> QED BY <1>10, <2>2 DEF Answer, historyVars, storeVars
  <1>11. ASSUME NEW w \in Workers, Apply(w) PROVE TypeOK'
    <2>1. request[w] \in Request
      OBVIOUS
    <2>2. row' \in Row
      BY <1>11, <2>1, WrittenRow DEF Apply
    <2>3. applied' \in 0 .. MaxChanges
      BY <1>11, <2>1, TiersAssumption DEF Apply, Request
    <2>4. causes' \subseteq Cause
      BY <1>11 DEF Apply, Wrongs
    <2>5. request' \in [Workers -> Request]
      BY <1>11, <1>9 DEF Apply, Step
    <2> QED BY <1>11, <2>2, <2>3, <2>4, <2>5 DEF Apply, storeVars
  <1>12. ASSUME NEW w \in Workers, Select(w) PROVE TypeOK'
    BY <1>9, <1>12 DEF Select, Step, historyVars, storeVars
  <1>13. ASSUME NEW w \in Workers, UpdateKind(w) PROVE TypeOK'
    <2>1. request[w].kind \in Kind /\ request[w] \in Request
      BY DEF Request
    <2>2. row' \in Row
      <3>1. CASE row # NoRow
        BY <1>13, <2>1, <3>1, RaisedRow DEF UpdateKind
      <3>2. CASE row = NoRow
        BY <1>13, <3>2 DEF UpdateKind, TiersInv, RequestOK
      <3> QED BY <3>1, <3>2
    <2>3. request' \in [Workers -> Request]
      BY <1>9, <1>13 DEF UpdateKind, Step
    <2> QED BY <1>13, <2>2, <2>3 DEF UpdateKind, historyVars, storeVars
  <1>14. ASSUME NEW w \in Workers, Insert(w) PROVE TypeOK'
    <2>1. request[w].kind \in Kind
      BY DEF Request
    <2>2. row' \in Row
      BY <1>14, <2>1 DEF Insert, Row, Tier
    <2>3. request' \in [Workers -> Request]
      BY <1>9, <1>14, IdleIsRequest DEF Insert, Step
    <2> QED BY <1>14, <2>2, <2>3 DEF Insert, historyVars, storeVars
  <1>15. ASSUME NEW w \in Workers, Reply(w) PROVE TypeOK'
    <2>1. request[w].kind \in Kind
      BY DEF Request
    <2> QED BY <1>15, <2>1, IdleIsRequest DEF Reply, storeVars
  <1>16. ASSUME NEW w \in Workers, Fail(w) PROVE TypeOK'
    BY <1>16, IdleIsRequest DEF Fail, historyVars, storeVars
  <1>17. CASE UNCHANGED vars
    BY <1>17 DEF vars, storeVars, historyVars
  <1> QED BY <1>2, <1>3, <1>4, <1>6, <1>7, <1>8, <1>10, <1>11, <1>12, <1>13, <1>14, <1>15, <1>16, <1>17
          DEF Next, Serve

-----------------------------------------------------------------------------

\* A change of a subscription outdates everything on its way but its own event.
LEMMA ChangeStep ==
    ASSUME TypeOK, TypeOK', TiersInv, KindIsHighestServed,
           NEW s \in Stores, NEW from, NEW to \in Subscription, NEW type \in EventType \ Graces,
           Change(s, from, to, type), StoreOf(type) = s,
           type \in Upgrades => to \in Entitling,
           type \in Downgrades \ {"CANCELLATION"} => to \notin Entitling
    PROVE  TiersInv' /\ KindIsHighestServed'
  <1> DEFINE e1 == [type |-> type, at |-> changes + 1]
  <1>0. /\ changes \in Nat /\ applied \in Nat /\ changes' = changes + 1 /\ applied' = applied
        /\ \A w \in Workers : request[w] \in Request /\ request[w].at \in Nat
        /\ \A e \in mail : e \in Event /\ e.at \in Nat
    BY TiersAssumption DEF TypeOK, Request, Event, Change, historyVars
  <1>1. applied' < changes' /\ applied' # changes'
    BY <1>0 DEF TiersInv
  <1>2. e1 \in mail' /\ e1.at = changes'
    BY <1>0 DEF Change
  <1>3. \A e \in mail' : Matches(e)'
    <2> SUFFICES ASSUME NEW e \in mail' PROVE Matches(e)'
      OBVIOUS
    <2>1. CASE e \in mail
      <3>1. Matches(e) /\ e.at \in Nat
        BY <1>0, <2>1 DEF TiersInv
      <3>2. e.at <= changes /\ e.at # changes' /\ e.at <= changes'
        BY <1>0, <3>1 DEF Matches
      <3> QED BY <3>1, <3>2 DEF Matches
    <2>2. CASE e = e1
      <3>1. subscription'[s] = to
        BY DEF Change, TypeOK
      <3> QED BY <1>0, <2>2, <3>1 DEF Matches
    <2> QED BY <2>1, <2>2 DEF Change
  <1>4. \A w \in Workers : RequestOK(request[w])'
    <2> SUFFICES ASSUME NEW w \in Workers PROVE RequestOK(request[w])'
      OBVIOUS
    <2>1. RequestOK(request[w]) /\ request[w].at < changes'
      BY <1>0 DEF TiersInv, RequestOK
    <2>2. request' = request /\ row' = row
      BY DEF Change
    <2>3. Matches(request[w].event) /\ request[w].event.at = request[w].at => Matches(request[w].event)'
      BY <1>0, <2>1, <2>2 DEF Matches
    <2> QED BY <1>0, <2>1, <2>2, <2>3 DEF RequestOK
  <1>5. row' = row /\ served' = served
    BY DEF Change, historyVars
  <1>6. applied' <= changes' /\ ~(applied' = changes') /\ (\E e \in mail' : e.at = changes')
    BY <1>0, <1>1, <1>2
  <1>7. KindIsHighestServed' /\ (row' = NoRow => served' = {})
    BY <1>5 DEF TiersInv, KindIsHighestServed
  <1> QED BY <1>3, <1>4, <1>6, <1>7 DEF TiersInv

\* A step that starts, moves or ends a request without writing the tier.
LEMMA RequestStep ==
    ASSUME TypeOK, TypeOK', TiersInv, KindIsHighestServed,
           NEW w \in Workers, NEW r \in Request, request' = [request EXCEPT ![w] = r], RequestOK(r)',
           UNCHANGED <<storeVars, mail, historyVars>>,
           row # NoRow => row' # NoRow /\ Rank[row'.kind] >= Rank[row.kind],
           row'.tier = "pro" <=> row.tier = "pro"
    PROVE  TiersInv' /\ KindIsHighestServed'
  <1>1. /\ UNCHANGED <<storeVars, mail, applied, causes, served, changes, subscription>>
        /\ applied \in Nat /\ applied' >= applied
    BY TiersAssumption DEF historyVars, storeVars, TypeOK
  <1>2. \A v \in Workers : RequestOK(request[v])'
    BY <1>1, KeptRequests
  <1>3. Entitled' <=> Entitled
    BY <1>1 DEF Entitled
  <1>4. \A e \in mail' : Matches(e)'
    BY <1>1 DEF TiersInv, Matches
  <1>5. KindIsHighestServed'
    <2> SUFFICES ASSUME NEW k \in served PROVE Rank[k] <= Rank[row'.kind]
      BY <1>1 DEF KindIsHighestServed
    <2>1. row # NoRow
      BY DEF TiersInv
    <2>2. k \in Kind /\ row.kind \in Kind /\ row'.kind \in Kind
      BY <2>1 DEF TypeOK, Row
    <2> QED BY <2>1, <2>2, Ranks DEF KindIsHighestServed
  <1>6. row' = NoRow => served' = {}
    BY <1>1 DEF TiersInv
  <1> QED BY <1>1, <1>2, <1>3, <1>4, <1>5, <1>6 DEF TiersInv

\* A row that stays as it is.
LEMMA SameRow ==
    ASSUME TypeOK, row' = row
    PROVE  /\ row # NoRow => row' # NoRow /\ Rank[row'.kind] >= Rank[row.kind]
           /\ row'.tier = "pro" <=> row.tier = "pro"
  <1>1. row # NoRow => row.kind \in Kind
    BY DEF TypeOK, Row
  <1> QED BY <1>1, Ranks

\* The requests' steps other than Apply and Reply.
LEMMA RequestSteps ==
    ASSUME TypeOK, TypeOK', TiersInv, KindIsHighestServed, NEW w \in Workers,
           \/ \E e \in mail : Webhook(w, e)
           \/ Status(w, "supabase") \/ Verify(w) \/ Answer(w) \/ Select(w)
           \/ UpdateKind(w) \/ Insert(w) \/ Fail(w)
    PROVE  TiersInv' /\ KindIsHighestServed'
  <1>0. request[w] \in Request /\ RequestOK(request[w]) /\ request \in [Workers -> Request]
    BY DEF TypeOK, TiersInv
  <1>1. changes \in Nat /\ applied \in Nat /\ request[w].at \in Nat
    BY <1>0, TiersAssumption DEF TypeOK, Request
  <1>2. ASSUME UNCHANGED <<storeVars, mail, historyVars>>
        PROVE  changes' = changes /\ applied' = applied /\ subscription' = subscription
    BY <1>2 DEF storeVars, historyVars
  <1>3. RequestOK(Idle)'
    BY IdleIsOK, PTL
  <1>5. ASSUME NEW e \in mail, Webhook(w, e) PROVE TiersInv' /\ KindIsHighestServed'
    <2> DEFINE r == New("webhook", IF ActionOf(e) = "grace_period" THEN "done" ELSE "apply", e, "unknown")
    <2>1. e \in Event /\ Matches(e) /\ e.at \in Nat
      BY TiersAssumption DEF TypeOK, TiersInv, Event
    <2>2. UNCHANGED <<storeVars, mail, historyVars>> /\ row' = row /\ request' = [request EXCEPT ![w] = r]
      BY <1>5 DEF Webhook, Begin
    <2>3. /\ r.step = IF ActionOf(e) = "grace_period" THEN "done" ELSE "apply"
          /\ r.job = "webhook" /\ r.event = e /\ r.at = e.at
      BY DEF New
    <2>4. r \in Request
      BY <2>1 DEF New, Request, Event, Job, Step, Kind
    <2>5. ActionOf(e) = "grace_period" <=> e.type \in Graces
      BY <2>1 DEF ActionOf, Event, EventType, Upgrades, Downgrades, Graces
    <2>6. Matches(e)'
      BY <1>2, <2>1, <2>2 DEF Matches
    <2>7. RequestOK(r)'
      BY <1>1, <1>2, <2>1, <2>2, <2>3, <2>5, <2>6 DEF RequestOK, Matches
    <2> QED BY <2>2, <2>4, <2>7, RequestStep, SameRow
  <1>6. CASE Status(w, "supabase")
    <2> DEFINE r == New("status", "select", NoEvent, "supabase")
    <2>1. UNCHANGED <<storeVars, mail, historyVars>> /\ row' = row /\ request' = [request EXCEPT ![w] = r]
      BY <1>6 DEF Status, Begin
    <2>2. r.step = "select" /\ r.job = "status" /\ r.event = NoEvent /\ r.at = 0
      BY DEF New, NoEvent
    <2>3. r \in Request
      BY TiersAssumption DEF New, NoEvent, Request, Job, Step, Kind
    <2>4. RequestOK(r)'
      BY <1>1, <1>2, <2>1, <2>2 DEF RequestOK
    <2> QED BY <2>1, <2>3, <2>4, RequestStep, SameRow
  <1>7. CASE Verify(w)
    <2> DEFINE r == New("verify", "ask", NoEvent, "unknown")
    <2>1. UNCHANGED <<storeVars, mail, historyVars>> /\ row' = row /\ request' = [request EXCEPT ![w] = r]
      BY <1>7 DEF Verify, Begin
    <2>2. r.step = "ask" /\ r.job = "verify" /\ r.event = NoEvent /\ r.at = 0
      BY DEF New, NoEvent
    <2>3. r \in Request
      BY TiersAssumption DEF New, NoEvent, Request, Job, Step, Kind
    <2>4. RequestOK(r)'
      BY <1>1, <1>2, <2>1, <2>2 DEF RequestOK
    <2> QED BY <2>1, <2>3, <2>4, RequestStep, SameRow
  <1>8. CASE Fail(w)
    <2>1. UNCHANGED <<storeVars, mail, historyVars>> /\ row' = row /\ request' = [request EXCEPT ![w] = Idle]
      BY <1>8 DEF Fail
    <2> QED BY <1>3, <2>1, IdleIsRequest, RequestStep, SameRow
  <1>9. CASE Answer(w)
    <2>1. UNCHANGED <<storeVars, mail, historyVars>> /\ row' = row
      BY <1>9 DEF Answer
    <2>2. [request[w] EXCEPT !.step = "apply", !.at = changes] \in Request
      BY <1>0 DEF Request, Step, TypeOK
    <2>5. PICK r \in Request : r = [request[w] EXCEPT !.step = "apply", !.at = changes]
      BY <2>2
    <2>3. CASE subscription["revenuecat"] \in Entitling
      <3>1. request' = [request EXCEPT ![w] = r]
        BY <1>9, <2>3, <2>5 DEF Answer
      <3>2. r.step = "apply" /\ r.job = "verify" /\ r.at = changes /\ r.event = NoEvent
        BY <1>0, <1>9, <2>5 DEF Answer, RequestOK, Request
      <3>3. RequestOK(r)'
        BY <1>1, <1>2, <2>1, <2>3, <3>2 DEF RequestOK
      <3> QED BY <2>1, <3>1, <3>3, RequestStep, SameRow
    <2>4. CASE ~(subscription["revenuecat"] \in Entitling)
      <3>1. request' = [request EXCEPT ![w] = Idle]
        BY <1>9, <2>4 DEF Answer
      <3> QED BY <1>3, <2>1, <3>1, IdleIsRequest, RequestStep, SameRow
    <2> QED BY <2>3, <2>4
  <1>10. ASSUME NEW step \in Step \ {"ask", "apply"}, Goes(w, step),
                request[w].step \in {"select", "kind", "insert"},
                UNCHANGED <<storeVars, mail, historyVars>>, row' \in Row,
                step \in {"kind", "done"} => row' # NoRow,
                step = "done" => Rank[request[w].kind] <= Rank[row'.kind],
                row # NoRow => row' # NoRow /\ Rank[row'.kind] >= Rank[row.kind],
                row'.tier = "pro" <=> row.tier = "pro"
         PROVE  TiersInv' /\ KindIsHighestServed'
    <2>0. [request[w] EXCEPT !.step = step] \in Request
      BY <1>0, <1>10 DEF Request
    <2>5. PICK r \in Request : r = [request[w] EXCEPT !.step = step]
      BY <2>0
    <2>1. request' = [request EXCEPT ![w] = r] /\ r \in Request
      BY <1>10, <2>5 DEF Goes
    <2>2. r.step = step /\ r.job = request[w].job /\ r.event = request[w].event /\ r.at = request[w].at
          /\ r.kind = request[w].kind
      BY <1>0, <2>5 DEF Request
    <2>3. Matches(r.event) => Matches(r.event)'
      BY <1>2, <1>10 DEF Matches
    <2>4. RequestOK(r)'
      BY <1>0, <1>1, <1>2, <1>10, <2>2, <2>3 DEF RequestOK
    <2> QED BY <1>10, <2>1, <2>4, RequestStep
  <1>11. CASE Select(w)
    <2>1. UNCHANGED <<storeVars, mail, historyVars>> /\ row' = row /\ row' \in Row
      BY <1>11 DEF Select, TypeOK
    <2>2. CASE row = NoRow
      BY <1>10, <1>11, <2>1, <2>2, SameRow DEF Select, Step
    <2>3. CASE row # NoRow
      <3>1. request[w].kind \in Kind /\ row.kind \in Kind
        BY <1>0, <2>3 DEF TypeOK, Request, Row
      <3>2. Rank[request[w].kind] \in Nat /\ Rank[row.kind] \in Nat
        BY <3>1, Ranks
      <3>3. CASE Rank[request[w].kind] > Rank[row.kind]
        BY <1>10, <1>11, <2>1, <2>3, <3>2, <3>3, SameRow DEF Select, Step
      <3>4. CASE ~(Rank[request[w].kind] > Rank[row.kind])
        BY <1>10, <1>11, <2>1, <2>3, <3>2, <3>4, SameRow DEF Select, Step
      <3> QED BY <3>3, <3>4
    <2> QED BY <2>2, <2>3
  <1>12. CASE UpdateKind(w)
    <2>1. UNCHANGED <<storeVars, mail, historyVars>> /\ row' = RaiseKind(request[w].kind)
          /\ Goes(w, "done") /\ request[w].step = "kind"
      BY <1>12 DEF UpdateKind
    <2>2. row # NoRow /\ request[w].kind \in Kind
      BY <1>0, <2>1 DEF RequestOK, Request
    <2>3. /\ row' \in Row /\ row' # NoRow /\ row'.tier = row.tier
          /\ Rank[row'.kind] >= Rank[row.kind] /\ Rank[row'.kind] >= Rank[request[w].kind]
      BY <2>1, <2>2, RaisedRow
    <2>4. Rank[request[w].kind] <= Rank[row'.kind]
      BY <2>1, <2>2, <2>3, Ranks DEF Row, NoRow
    <2> QED BY <1>10, <2>1, <2>2, <2>3, <2>4 DEF Step
  <1>13. CASE Insert(w)
    <2>1. UNCHANGED <<storeVars, mail, historyVars>> /\ request[w].step = "insert"
      BY <1>13 DEF Insert
    <2>2. CASE row = NoRow
      <3>1. row' = [tier |-> "free", kind |-> request[w].kind] /\ Goes(w, "done")
        BY <1>13, <2>2 DEF Insert
      <3>2. request[w].kind \in Kind
        BY <1>0 DEF Request
      <3>3. row'.kind = request[w].kind /\ row'.tier # "pro" /\ row.tier # "pro" /\ row' # NoRow /\ row' \in Row
        BY <2>2, <3>1, <3>2 DEF NoRow, Row, Tier
      <3>4. Rank[request[w].kind] <= Rank[row'.kind]
        BY <3>2, <3>3, Ranks
      <3> QED BY <1>10, <2>1, <2>2, <3>1, <3>3, <3>4 DEF Step
    <2>3. CASE row # NoRow
      <3>1. row' = row /\ request' = [request EXCEPT ![w] = Idle]
        BY <1>13, <2>3 DEF Insert
      <3> QED BY <1>3, <2>1, <3>1, IdleIsRequest, RequestStep, SameRow
    <2> QED BY <2>2, <2>3
  <1> QED BY <1>5, <1>6, <1>7, <1>8, <1>9, <1>11, <1>12, <1>13

\* The stores stop posting an event, or post one of a failed payment.
LEMMA MailStep ==
    ASSUME TypeOK, TypeOK', TiersInv, KindIsHighestServed,
           Failures \/ \E e \in mail : GiveUp(e)
    PROVE  TiersInv' /\ KindIsHighestServed'
  <1>1. /\ UNCHANGED <<storeVars, row, request, applied, served>>
        /\ changes' = changes /\ subscription' = subscription
        /\ changes \in Nat /\ applied \in Nat
    <2>1. changes \in Nat /\ applied \in Nat
      BY TiersAssumption DEF TypeOK
    <2>2. CASE Failures
      BY <2>1, <2>2 DEF Failures, PaymentFails, historyVars, storeVars
    <2>3. CASE \E e \in mail : GiveUp(e)
      BY <2>1, <2>3 DEF GiveUp, storeVars
    <2> QED BY <2>2, <2>3
  <1>2. \A w \in Workers : RequestOK(request[w])'
    <2> SUFFICES ASSUME NEW w \in Workers PROVE RequestOK(request[w])'
      OBVIOUS
    <2>1. RequestOK(request[w]) /\ request' = request
      BY <1>1 DEF TiersInv
    <2> QED BY <1>1, <2>1 DEF RequestOK, Matches
  <1>3. \A e \in mail' : Matches(e)'
    <2> SUFFICES ASSUME NEW e \in mail' PROVE Matches(e)'
      OBVIOUS
    <2>1. e \in mail \/ (e.at = 0 /\ e.type \in Graces)
      <3>1. CASE Failures
        BY <3>1 DEF Failures, PaymentFails, Graces
      <3>2. CASE \E f \in mail : GiveUp(f)
        BY <3>2 DEF GiveUp
      <3> QED BY <3>1, <3>2
    <2>2. CASE e \in mail
      BY <1>1, <2>2 DEF TiersInv, Matches
    <2>3. CASE e.at = 0 /\ e.type \in Graces
      BY <1>1, <2>3 DEF Matches, Graces, Upgrades, Downgrades
    <2> QED BY <2>1, <2>2, <2>3
  <1>4. causes' = {} => causes = {}
    BY DEF Failures, PaymentFails, GiveUp, historyVars
  <1>5. applied < changes /\ causes' = {} => \E e \in mail' : e.at = changes
    <2>1. CASE Failures
      BY <1>4, <2>1 DEF TiersInv, Failures, PaymentFails
    <2>2. ASSUME NEW e \in mail, GiveUp(e), applied < changes, causes' = {}
          PROVE  \E f \in mail' : f.at = changes
      <3>1. ~(e.at > applied)
        BY <2>2 DEF GiveUp
      <3>2. PICK f \in mail : f.at = changes
        BY <1>4, <2>2 DEF TiersInv
      <3>3. f # e
        BY <1>1, <2>2, <3>1, <3>2
      <3> QED BY <2>2, <3>2, <3>3 DEF GiveUp
    <2> QED BY <2>1, <2>2
  <1>6. Entitled' <=> Entitled
    BY <1>1 DEF Entitled
  <1> QED BY <1>1, <1>2, <1>3, <1>4, <1>5, <1>6 DEF TiersInv, KindIsHighestServed

\* The tier is written: right if the change is the newest and nothing is noted.
LEMMA ApplyStep ==
    ASSUME TypeOK, TypeOK', TiersInv, KindIsHighestServed, NEW w \in Workers, Apply(w)
    PROVE  TiersInv' /\ KindIsHighestServed'
  <1>1. PICK r \in Request : r = request[w]
    BY DEF TypeOK
  <1>2. /\ RequestOK(r) /\ r.step = "apply"
        /\ row' = WriteTier(r)
        /\ causes' = IF r.at = changes THEN Wrongs(r) ELSE causes \cup Wrongs(r)
        /\ applied' = IF r.at > applied THEN r.at ELSE applied
        /\ UNCHANGED <<storeVars, mail, served>>
        /\ changes' = changes /\ subscription' = subscription
    BY <1>1 DEF Apply, TiersInv, storeVars
  <1>3. /\ changes \in Nat /\ applied \in Nat /\ r.at \in Nat
        /\ r.at <= changes /\ applied <= changes
    BY <1>2, TiersAssumption DEF TypeOK, Request, RequestOK, TiersInv
  <1>4. /\ applied' >= applied /\ applied' >= r.at /\ applied' <= changes' /\ applied' \in Nat
    BY <1>2, <1>3
  <1>5. /\ row = NoRow <=> row' = NoRow
        /\ row'.kind = row.kind
        /\ row # NoRow => row'.tier = NewTier(r)
    BY <1>2, WrittenRow
  <1>6. row # NoRow => row' # NoRow /\ Rank[row'.kind] >= Rank[row.kind]
    <2>1. row # NoRow => row.kind \in Kind
      BY DEF TypeOK, Row
    <2> QED BY <1>5, <2>1, Ranks
  <1>7. \A v \in Workers : RequestOK(request[v])'
    <2>1. [r EXCEPT !.step = "select"] \in Request
      BY DEF Request, Step
    <2>2. PICK q \in Request : q = [r EXCEPT !.step = "select"]
      BY <2>1
    <2>3. request' = [request EXCEPT ![w] = q]
      BY <1>1, <2>2 DEF Apply, Goes
    <2>4. q.step = "select" /\ q.job = r.job /\ q.event = r.event /\ q.at = r.at /\ q.kind = r.kind
      BY <2>2 DEF Request
    <2>5. Matches(r.event) => Matches(r.event)'
      BY <1>2 DEF Matches
    <2>6. RequestOK(q)'
      BY <1>2, <1>3, <1>4, <2>4, <2>5 DEF RequestOK
    <2> QED BY <1>2, <1>4, <1>6, <2>3, <2>6, KeptRequests
  <1>8. applied' = changes' /\ causes' = {} => (row'.tier = "pro" <=> Entitled')
    <2> SUFFICES ASSUME applied' = changes', causes' = {} PROVE row'.tier = "pro" <=> Entitled
      BY <1>2 DEF Entitled
    <2>1. Wrongs(r) = {}
      BY <1>2
    <2>2. row # NoRow /\ ~(r.at < applied)
      BY <2>1 DEF Wrongs, Cause
    <2>3. r.at = changes
      <3>1. applied' = changes
        BY <1>2
      <3>2. applied' = IF r.at > applied THEN r.at ELSE applied
        BY <1>2
      <3>3. r.at > applied \/ r.at = applied
        BY <1>3, <2>2
      <3> QED BY <3>1, <3>2, <3>3
    <2>4. row'.tier = NewTier(r)
      BY <1>5, <2>2
    <2>5. CASE r.job = "verify"
      <3>1. subscription["revenuecat"] \in Entitling
        BY <1>2, <2>3, <2>5 DEF RequestOK
      <3> QED BY <2>4, <2>5, <3>1 DEF NewTier, Entitled, Stores
    <2>6. CASE r.job = "webhook"
      <3>1. r.event \in Event /\ r.event.at = changes /\ Matches(r.event) /\ r.event.type \notin Graces
        BY <1>2, <2>3, <2>6 DEF RequestOK
      <3>2. r.event.type \in EventType /\ StoreOf(r.event.type) \in Stores
        BY <3>1, StoreOfEvent DEF Event
      <3>3. CASE r.event.type \in Upgrades
        <4>1. subscription[StoreOf(r.event.type)] \in Entitling
          BY <3>1, <3>3 DEF Matches
        <4>2. NewTier(r) = "pro"
          BY <3>3 DEF NewTier, ActionOf, Upgrades, Downgrades
        <4> QED BY <2>4, <3>2, <4>1, <4>2 DEF Entitled
      <3>4. CASE r.event.type \in Downgrades
        <4>1. NewTier(r) = "free"
          BY <2>6, <3>4 DEF NewTier, ActionOf, Upgrades, Downgrades
        <4>2. r.event.type # "CANCELLATION"
          BY <2>1 DEF Wrongs, Cause
        <4>3. subscription[StoreOf(r.event.type)] \notin Entitling
          BY <3>1, <3>4, <4>2 DEF Matches
        <4>4. ~\E s \in Stores \ {StoreOf(r.event.type)} : subscription[s] \in Entitling
          BY <2>1, <4>1 DEF Wrongs, Cause
        <4> QED BY <2>4, <4>1, <4>3, <4>4 DEF Entitled
      <3> QED BY <3>1, <3>2, <3>3, <3>4 DEF EventType
    <2> QED BY <1>2, <2>5, <2>6 DEF Request, Job, RequestOK
  <1>9. applied' < changes' /\ causes' = {} => \E e \in mail' : e.at = changes'
    <2>1. applied' < changes' => r.at # changes
      BY <1>2, <1>3
    <2>2. r.at # changes /\ causes' = {} => causes = {}
      BY <1>2
    <2> QED BY <1>2, <1>3, <1>4, <2>1, <2>2 DEF TiersInv
  <1>10. \A e \in mail' : Matches(e)'
    BY <1>2 DEF TiersInv, Matches
  <1>11. KindIsHighestServed' /\ (row' = NoRow => served' = {})
    BY <1>2, <1>5 DEF TiersInv, KindIsHighestServed
  <1> QED BY <1>4, <1>7, <1>8, <1>9, <1>10, <1>11 DEF TiersInv

\* An event is crossed off only when its change has been written.
LEMMA ReplyStep ==
    ASSUME TypeOK, TypeOK', TiersInv, KindIsHighestServed, NEW w \in Workers, Reply(w)
    PROVE  TiersInv' /\ KindIsHighestServed'
  <1>1. PICK r \in Request : r = request[w]
    BY DEF TypeOK
  <1>2. /\ RequestOK(r) /\ r.step = "done"
        /\ mail' = mail \ {r.event}
        /\ served' = IF r.job = "status" THEN served \cup {r.kind} ELSE served
        /\ UNCHANGED <<storeVars, row, applied, causes>>
        /\ changes' = changes /\ subscription' = subscription
        /\ request' = [request EXCEPT ![w] = Idle]
    BY <1>1 DEF Reply, TiersInv, storeVars
  <1>3. changes \in Nat /\ applied \in Nat /\ r.at \in Nat /\ applied' >= applied
    BY <1>2, TiersAssumption DEF TypeOK, Request
  <1>4. row # NoRow => row' # NoRow /\ Rank[row'.kind] >= Rank[row.kind]
    BY <1>2, SameRow
  <1>5. \A v \in Workers : RequestOK(request[v])'
    <2>1. RequestOK(Idle)'
      BY IdleIsOK, PTL
    <2> QED BY <1>2, <1>3, <1>4, <2>1, IdleIsRequest, KeptRequests
  <1>6. applied < changes /\ causes = {} => \E e \in mail' : e.at = changes
    <2> SUFFICES ASSUME applied < changes, causes = {} PROVE \E e \in mail' : e.at = changes
      OBVIOUS
    <2>1. PICK e \in mail : e.at = changes
      BY DEF TiersInv
    <2>2. CASE r.job = "webhook"
      <3>1. r.event.at <= applied
        BY <1>2, <2>2 DEF RequestOK
      <3> QED BY <1>2, <1>3, <2>1, <3>1
    <2>3. CASE r.job # "webhook"
      <3>1. r.event = NoEvent /\ e \in Event
        BY <1>2, <2>3 DEF RequestOK, TypeOK
      <3> QED BY <1>2, <2>1, <3>1, NoEventIsNone
    <2> QED BY <2>2, <2>3
  <1>7. \A e \in mail' : Matches(e)'
    BY <1>2 DEF TiersInv, Matches
  <1>8. r.job = "status" => row # NoRow /\ Rank[r.kind] <= Rank[row.kind]
    BY <1>2, NoEventIsNone DEF RequestOK
  <1>9. KindIsHighestServed' /\ (row' = NoRow => served' = {})
    BY <1>2, <1>8 DEF TiersInv, KindIsHighestServed
  <1>10. Entitled' <=> Entitled
    BY <1>2 DEF Entitled
  <1> QED BY <1>2, <1>5, <1>6, <1>7, <1>9, <1>10 DEF TiersInv

-----------------------------------------------------------------------------

LEMMA InvInit == Init => TypeOK /\ TiersInv /\ KindIsHighestServed
  <1> SUFFICES ASSUME Init PROVE TypeOK /\ TiersInv /\ KindIsHighestServed
    OBVIOUS
  <1>1. TypeOK
    BY TiersAssumption, IdleIsRequest DEF Init, TypeOK, Row, Tier, Kind, Subscription
  <1>2. \A w \in Workers : RequestOK(request[w])
    BY <1>1, IdleIsOK DEF Init
  <1>3. row.tier # "pro" /\ ~Entitled
    BY DEF Init, NoRow, Entitled, Entitling
  <1> QED BY <1>1, <1>2, <1>3 DEF Init, TiersInv, KindIsHighestServed

LEMMA InvStep ==
    ASSUME TypeOK, TiersInv, KindIsHighestServed, [Next]_vars
    PROVE  TypeOK' /\ TiersInv' /\ KindIsHighestServed'
  <1>1. TypeOK'
    BY TypeStep
  <1>2. CASE StoreMoves
    <2>1. /\ \A t \in {"INITIAL_PURCHASE", "RENEWAL", "CANCELLATION", "UNCANCELLATION", "EXPIRATION"} :
                StoreOf(t) = "revenuecat"
          /\ StoreOf("checkout.session.completed") = "stripe"
          /\ StoreOf("customer.subscription.deleted") = "stripe"
          /\ {"revenuecat", "stripe"} \subseteq Stores
      BY DEF StoreOf, Stores
    <2>2. /\ {"INITIAL_PURCHASE", "RENEWAL", "CANCELLATION", "UNCANCELLATION", "EXPIRATION",
              "checkout.session.completed", "customer.subscription.deleted"} \subseteq EventType \ Graces
          /\ {"running", "cancelled", "over"} \subseteq Subscription
      BY DEF EventType, Upgrades, Downgrades, Graces, Subscription
    <2>3. /\ {"running", "cancelled"} \subseteq Entitling /\ "over" \notin Entitling
          /\ {"EXPIRATION", "customer.subscription.deleted", "CANCELLATION"} \cap Upgrades = {}
          /\ {"INITIAL_PURCHASE", "RENEWAL", "UNCANCELLATION", "checkout.session.completed"} \cap Downgrades = {}
      BY DEF Entitling, Upgrades, Downgrades
    <2>4. CASE Change("revenuecat", {"none", "over"}, "running", "INITIAL_PURCHASE")
      BY <1>1, <2>1, <2>2, <2>3, <2>4, ChangeStep
    <2>5. CASE Change("revenuecat", {"running"}, "running", "RENEWAL")
      BY <1>1, <2>1, <2>2, <2>3, <2>5, ChangeStep
    <2>6. CASE Change("revenuecat", {"running"}, "cancelled", "CANCELLATION")
      BY <1>1, <2>1, <2>2, <2>3, <2>6, ChangeStep
    <2>7. CASE Change("revenuecat", {"cancelled"}, "running", "UNCANCELLATION")
      BY <1>1, <2>1, <2>2, <2>3, <2>7, ChangeStep
    <2>8. CASE Change("revenuecat", Entitling, "over", "EXPIRATION")
      BY <1>1, <2>1, <2>2, <2>3, <2>8, ChangeStep
    <2>9. CASE Change("stripe", {"none", "over"}, "running", "checkout.session.completed")
      BY <1>1, <2>1, <2>2, <2>3, <2>9, ChangeStep
    <2>10. CASE Change("stripe", {"running"}, "over", "customer.subscription.deleted")
      BY <1>1, <2>1, <2>2, <2>3, <2>10, ChangeStep
    <2> QED BY <1>2, <2>4, <2>5, <2>6, <2>7, <2>8, <2>9, <2>10 DEF StoreMoves
  <1>3. CASE Failures \/ \E e \in mail : GiveUp(e)
    BY <1>1, <1>3, MailStep
  <1>4. ASSUME NEW w \in Workers,
               \/ \E e \in mail : Webhook(w, e)
               \/ Status(w, "supabase") \/ Verify(w) \/ Answer(w) \/ Select(w)
               \/ UpdateKind(w) \/ Insert(w) \/ Fail(w)
        PROVE  TiersInv' /\ KindIsHighestServed'
    BY <1>1, <1>4, RequestSteps
  <1>5. ASSUME NEW w \in Workers, Apply(w) PROVE TiersInv' /\ KindIsHighestServed'
    BY <1>1, <1>5, ApplyStep
  <1>6. ASSUME NEW w \in Workers, Reply(w) PROVE TiersInv' /\ KindIsHighestServed'
    BY <1>1, <1>6, ReplyStep
  <1>7. CASE UNCHANGED vars
    <2>1. UNCHANGED <<subscription, changes, mail, row, request, applied, causes, served>>
      BY <1>7 DEF vars, storeVars, historyVars
    <2>2. /\ Entitled' <=> Entitled
          /\ \A e \in mail : Matches(e) => Matches(e)'
          /\ KindIsHighestServed'
      BY <2>1 DEF Entitled, Matches, KindIsHighestServed
    <2>3. \A w \in Workers : RequestOK(request[w])'
      BY <2>1 DEF TiersInv, RequestOK, Matches
    <2>4. /\ applied' = applied /\ changes' = changes /\ causes' = causes
          /\ row' = row /\ mail' = mail /\ served' = served
      BY <2>1
    <2> QED BY <1>1, <2>2, <2>3, <2>4 DEF TiersInv
  <1> QED BY <1>1, <1>2, <1>3, <1>4, <1>5, <1>6, <1>7 DEF Next, Serve

\* The state has its type, TiersInv and KindIsHighestServed always hold.
THEOREM Invariance == Spec => [](TypeOK /\ TiersInv /\ KindIsHighestServed)
  <1>1. Init => TypeOK /\ TiersInv /\ KindIsHighestServed
    BY InvInit
  <1>2. TypeOK /\ TiersInv /\ KindIsHighestServed /\ [Next]_vars
          => (TypeOK /\ TiersInv /\ KindIsHighestServed)'
    BY InvStep
  <1> QED BY <1>1, <1>2, PTL DEF Spec

\* Type correctness of the row, the requests and the mail.
THEOREM TypeCorrect == Spec => []TypeOK
  BY Invariance, PTL

\* identity_kind is at least what any answered request has told.
THEOREM KindKept == Spec => []KindIsHighestServed
  BY Invariance, PTL

\* Once nothing is under way the tier is what is paid for, unless a listed cause
\* is noted: with no mail the newest change must have been written.
THEOREM PaidFor == Spec => []TierIsPaidFor
  <1>1. TypeOK /\ TiersInv => TierIsPaidFor
    <2> SUFFICES ASSUME TypeOK, TiersInv, Settled, causes = {} PROVE row.tier = "pro" <=> Entitled
      BY DEF TierIsPaidFor
    <2>1. mail = {} /\ changes \in Nat /\ applied \in Nat
      BY TiersAssumption DEF Settled, TypeOK
    <2>2. applied = changes
      BY <2>1 DEF TiersInv
    <2> QED BY <2>2 DEF TiersInv
  <1> QED BY <1>1, Invariance, PTL
=============================================================================
