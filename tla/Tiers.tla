-------------------------------- MODULE Tiers --------------------------------
(***************************************************************************)
(* Payments and tiers: one user's row of user_tiers, written by the        *)
(* webhooks of the two stores (RevenueCat for the app, Stripe for the      *)
(* web), by POST /payment/verify-purchase, and created by whichever        *)
(* request reads it first.                                                 *)
(*                                                                         *)
(* The stores are external: they keep the subscription, post each change   *)
(* of it until a 200 comes back, in any order and perhaps more than once,  *)
(* and give up after a while.  upgrade_user and downgrade_user are an      *)
(* UPDATE followed by get_or_create_user (a SELECT, then an INSERT or an   *)
(* UPDATE of identity_kind), each a statement of its own; several          *)
(* instances serve requests at once.                                       *)
(***************************************************************************)
EXTENDS Naturals

CONSTANTS
    Workers,    \* requests served at the same time (bound)
    MaxChanges  \* changes of the subscriptions (bound)

ASSUME TiersAssumption == MaxChanges \in Nat

Stores == {"revenuecat", "stripe"}

\* A subscription of either store: never bought, running, cancelled but paid for
\* until its period ends, or over.
Subscription == {"none", "running", "cancelled", "over"}
Entitling == {"running", "cancelled"}

Upgrades == {"INITIAL_PURCHASE", "RENEWAL", "UNCANCELLATION", "checkout.session.completed"}
Downgrades == {"CANCELLATION", "EXPIRATION", "customer.subscription.deleted"}
\* BILLING_ISSUE and invoice.payment_failed start a grace period nothing enforces.
Graces == {"BILLING_ISSUE", "invoice.payment_failed"}
EventType == Upgrades \cup Downgrades \cup Graces

StoreOf(type) ==
    IF type \in {"checkout.session.completed", "customer.subscription.deleted",
                 "invoice.payment_failed"} THEN "stripe" ELSE "revenuecat"

\* identity_kind, by _IDENTITY_KIND_RANK; the tokens in use say "supabase", an
\* internal caller "unknown", and "anonymous" is left from the retired scheme.
Kind == {"unknown", "anonymous", "supabase"}
Rank == [k \in Kind |-> CASE k = "unknown" -> 0 [] k = "anonymous" -> 1 [] k = "supabase" -> 2]

Tier == {"free", "pro"}
NoRow == [tier |-> "absent", kind |-> "unknown"]
Row == [tier : Tier, kind : Kind] \cup {NoRow}

Event == [type : EventType, at : 0 .. MaxChanges]
NoEvent == [type |-> "none", at |-> 0]

\* A request: what it is for, the event it delivers, the identity kind its caller
\* gave, and the change of the subscriptions its knowledge is from.
Job == {"status", "verify", "webhook"}
Step == {"idle", "ask", "apply", "select", "kind", "insert", "done"}
Request == [step : Step, job : Job, event : Event \cup {NoEvent}, kind : Kind, at : 0 .. MaxChanges]
New(job, step, event, kind) ==
    [step |-> step, job |-> job, event |-> event, kind |-> kind, at |-> event.at]
Idle == New("status", "idle", NoEvent, "unknown")

\* Why a tier may disagree with the subscriptions although nothing is under way.
Cause == {"no row", "late", "cancelled", "other store", "given up"}

VARIABLES
    subscription,  \* what the user has at each store
    changes,       \* changes of the subscriptions so far
    mail,          \* events the stores have posted and have no 200 for
    row,           \* the user's row of user_tiers
    request,       \* the request each worker serves
    applied,       \* history: the newest change whose UPDATE has run
    causes,        \* history: what has gone wrong since the tier last was right
    served         \* history: identity kinds of the status requests answered 200

storeVars == <<subscription, changes>>
historyVars == <<applied, causes, served>>
vars == <<storeVars, mail, row, request, historyVars>>

TypeOK ==
    /\ subscription \in [Stores -> Subscription]
    /\ changes \in 0 .. MaxChanges
    /\ mail \subseteq Event
    /\ row \in Row
    /\ request \in [Workers -> Request]
    /\ applied \in 0 .. MaxChanges
    /\ causes \subseteq Cause
    /\ served \subseteq Kind

\* A user nobody has seen, or one with a row from before.
Init ==
    /\ subscription = [s \in Stores |-> "none"]
    /\ changes = 0
    /\ mail = {}
    /\ row \in {NoRow, [tier |-> "free", kind |-> "anonymous"]}
    /\ request = [w \in Workers |-> Idle]
    /\ applied = 0 /\ causes = {} /\ served = {}

Entitled == \E s \in Stores : subscription[s] \in Entitling

-----------------------------------------------------------------------------
(* The stores *)

\* The subscription changes and its event is posted.
Change(s, from, to, type) ==
    /\ changes < MaxChanges
    /\ subscription[s] \in from
    /\ subscription' = [subscription EXCEPT ![s] = to]
    /\ changes' = changes + 1
    /\ mail' = mail \cup {[type |-> type, at |-> changes + 1]}
    /\ UNCHANGED <<row, request, historyVars>>

StoreMoves ==
    \/ Change("revenuecat", {"none", "over"}, "running", "INITIAL_PURCHASE")
    \/ Change("revenuecat", {"running"}, "running", "RENEWAL")
    \/ Change("revenuecat", {"running"}, "cancelled", "CANCELLATION")
    \/ Change("revenuecat", {"cancelled"}, "running", "UNCANCELLATION")
    \/ Change("revenuecat", Entitling, "over", "EXPIRATION")
    \/ Change("stripe", {"none", "over"}, "running", "checkout.session.completed")
    \/ Change("stripe", {"running"}, "over", "customer.subscription.deleted")

\* A failed payment changes nothing yet.  One such event at a time (bound).
PaymentFails(s, type) ==
    /\ subscription[s] = "running"
    /\ \A e \in mail : e.type \notin Graces
    /\ mail' = mail \cup {[type |-> type, at |-> 0]}
    /\ UNCHANGED <<storeVars, row, request, historyVars>>

Failures ==
    \/ PaymentFails("revenuecat", "BILLING_ISSUE")
    \/ PaymentFails("stripe", "invoice.payment_failed")

\* The store stops posting an event it has no 200 for.
GiveUp(e) ==
    /\ e \in mail
    /\ mail' = mail \ {e}
    /\ causes' = IF e.at > applied THEN causes \cup {"given up"} ELSE causes
    /\ UNCHANGED <<storeVars, row, request, applied, served>>

-----------------------------------------------------------------------------
(* Requests *)

Begin(w, r) ==
    /\ request[w].step = "idle"
    /\ request' = [request EXCEPT ![w] = r]
    /\ UNCHANGED <<storeVars, mail, row, historyVars>>

Goes(w, step) == request' = [request EXCEPT ![w].step = step]

ActionOnExpiry(e) ==
    CASE e.type \in Upgrades -> "upgrade"
      [] e.type \in Downgrades \ {"EXPIRATION"} -> "downgrade"
      [] OTHER -> "grace_period"

\* handle_subscription_event and handle_revenuecat_webhook.
ActionOf(e) ==
    CASE e.type \in Upgrades -> "upgrade"
      [] e.type \in Downgrades -> "downgrade"
      [] OTHER -> "grace_period"

\* An event that changes no tier is answered at once.
Webhook(w, e) ==
    /\ e \in mail
    /\ Begin(w, New("webhook", IF ActionOf(e) = "grace_period" THEN "done" ELSE "apply", e, "unknown"))

\* GET /user/status, GET /payment/status and POST /trip/create read the row with
\* the caller's identity_kind.
Status(w, k) == Begin(w, New("status", "select", NoEvent, k))

\* POST /payment/verify-purchase: the receipt goes to RevenueCat.
Verify(w) == Begin(w, New("verify", "ask", NoEvent, "unknown"))

\* RevenueCat answers from what it knows now; a subscription that is not active,
\* or a receipt it refuses, ends the request with a 402.
Answer(w) ==
    /\ request[w].step = "ask"
    /\ request' = [request EXCEPT ![w] =
          IF subscription["revenuecat"] \in Entitling
          THEN [@ EXCEPT !.step = "apply", !.at = changes] ELSE Idle]
    /\ UNCHANGED <<storeVars, mail, row, historyVars>>

NewTier(r) ==
    IF r.job = "verify" \/ ActionOf(r.event) = "upgrade" THEN "pro" ELSE "free"

\* What is wrong with writing this tier now.
Wrongs(r) ==
    {c \in Cause :
        \/ c = "no row" /\ row = NoRow
        \/ c = "late" /\ r.at < applied
        \/ c = "cancelled" /\ r.event.type = "CANCELLATION"
        \/ c = "other store" /\ NewTier(r) = "free"
              /\ \E s \in Stores \ {StoreOf(r.event.type)} : subscription[s] \in Entitling}

\* upgrade_user or downgrade_user: UPDATE user_tiers SET tier_status = ...
\* WHERE user_id = ..., which writes no row where there is none.  Nothing is
\* wrong any more once the newest change has been written.
WriteTier(r) == IF row = NoRow THEN row ELSE [row EXCEPT !.tier = NewTier(r)]

Apply(w) ==
    LET r == request[w]
    IN  /\ r.step = "apply"
        /\ row' = WriteTier(r)
        /\ causes' = IF r.at = changes THEN Wrongs(r) ELSE causes \cup Wrongs(r)
        /\ applied' = IF r.at > applied THEN r.at ELSE applied
        /\ Goes(w, "select")
        /\ UNCHANGED <<storeVars, mail, served>>

\* get_or_create_user: SELECT * FROM user_tiers.  A higher kind than the stored
\* one is written next.
Select(w) ==
    /\ request[w].step = "select"
    /\ Goes(w, CASE row = NoRow -> "insert"
                 [] row # NoRow /\ Rank[request[w].kind] > Rank[row.kind] -> "kind"
                 [] OTHER -> "done")
    /\ UNCHANGED <<storeVars, mail, row, historyVars>>

\* UPDATE ... SET identity_kind = k WHERE identity_kind IN (the lower kinds).
RaiseKind(k) == IF Rank[row.kind] < Rank[k] THEN [row EXCEPT !.kind = k] ELSE row

UpdateKind(w) ==
    /\ request[w].step = "kind"
    /\ row' = RaiseKind(request[w].kind)
    /\ Goes(w, "done")
    /\ UNCHANGED <<storeVars, mail, historyVars>>

InsertIgnored(w) ==
    /\ request[w].step = "insert"
    /\ row' = IF row = NoRow THEN [tier |-> "free", kind |-> request[w].kind] ELSE row
    /\ Goes(w, "done")
    /\ UNCHANGED <<storeVars, mail, historyVars>>

\* INSERT a free row; where another request was first the primary key refuses it
\* and the request fails (500).
Insert(w) ==
    /\ request[w].step = "insert"
    /\ IF row = NoRow
       THEN row' = [tier |-> "free", kind |-> request[w].kind] /\ Goes(w, "done")
       ELSE row' = row /\ request' = [request EXCEPT ![w] = Idle]
    /\ UNCHANGED <<storeVars, mail, historyVars>>

\* 200.  The store crosses a delivered event off.
Reply(w) ==
    /\ request[w].step = "done"
    /\ request' = [request EXCEPT ![w] = Idle]
    /\ mail' = mail \ {request[w].event}
    /\ served' = IF request[w].job = "status" THEN served \cup {request[w].kind} ELSE served
    /\ UNCHANGED <<storeVars, row, applied, causes>>

\* A statement or the call to RevenueCat fails, the instance dies, or the 200 is
\* lost: a store posts its event again.
Fail(w) ==
    /\ request[w].step # "idle"
    /\ request' = [request EXCEPT ![w] = Idle]
    /\ UNCHANGED <<storeVars, mail, row, historyVars>>

Serve(w) ==
    Answer(w) \/ Apply(w) \/ Select(w) \/ UpdateKind(w) \/ Insert(w) \/ Reply(w) \/ Fail(w)

Next ==
    \/ StoreMoves \/ Failures
    \/ \E e \in mail : GiveUp(e)
    \/ \E w \in Workers :
        \/ \E e \in mail : Webhook(w, e)
        \/ Status(w, "supabase")
        \/ Verify(w)
        \/ Serve(w)

Spec == Init /\ [][Next]_vars

-----------------------------------------------------------------------------
(* Properties *)

\* No event on its way, no request in service.
Settled == mail = {} /\ \A w \in Workers : request[w].step = "idle"

(***************************************************************************)
(* Once nothing is under way, the user is pro exactly if a subscription    *)
(* entitles them, unless, since the newest change was last written: an     *)
(* UPDATE found no row; an older change or a stale RevenueCat answer was   *)
(* written over a newer one; a CANCELLATION took the tier before the paid  *)
(* period was over; one store's end took what the other store gives; or a  *)
(* store gave up.  Nothing else goes wrong, whatever fails between the     *)
(* statements (payment_router.py:84-149).                                  *)
(***************************************************************************)
TierIsPaidFor == Settled /\ causes = {} => (row.tier = "pro" <=> Entitled)

(***************************************************************************)
(* identity_kind is at least what any answered request has told, although  *)
(* SELECT, INSERT and UPDATE are separate statements (supabase_service.py, *)
(* "only promote, never demote").                                          *)
(***************************************************************************)
KindIsHighestServed == \A k \in served : Rank[k] <= Rank[row.kind]

(***************************************************************************)
(* "Pro subscription activated!" is answered to a user who is pro, or to   *)
(* one who stopped being it meanwhile (payment_router.py:102;              *)
(* supabase_service.py:200, "Upgrade user to pro tier").                   *)
(***************************************************************************)
ActivatedIsPro ==
    \A w \in Workers : request[w].job = "verify" /\ request[w].step = "done" =>
        row.tier = "pro" \/ applied > request[w].at

-----------------------------------------------------------------------------
(* The inductive invariant behind them *)

\* An event of the newest change says what the subscription now is.
Matches(e) ==
    /\ e.at <= changes
    /\ e.type \in Graces <=> e.at = 0
    /\ e.at = changes /\ e.type \in Upgrades => subscription[StoreOf(e.type)] \in Entitling
    /\ e.at = changes /\ e.type \in Downgrades \ {"CANCELLATION"} =>
          subscription[StoreOf(e.type)] \notin Entitling

RequestOK(r) ==
    /\ r.at <= changes
    /\ r.job = "webhook" /\ r.step # "idle" => r.event \in Event /\ r.event.at = r.at /\ Matches(r.event)
    /\ r.job = "webhook" /\ r.step \in {"select", "kind", "insert", "done"} => r.at <= applied
    /\ r.job # "webhook" => r.event = NoEvent
    /\ r.job = "verify" /\ r.step = "apply" /\ r.at = changes => subscription["revenuecat"] \in Entitling
    /\ r.step = "ask" => r.job = "verify"
    /\ r.job = "status" => r.step # "apply"
    /\ r.step = "apply" /\ r.job = "webhook" => r.event.type \notin Graces
    /\ r.step = "kind" => row # NoRow
    /\ r.step = "done" => row # NoRow \/ r.event.type \in Graces
    /\ r.job = "status" /\ r.step = "done" => Rank[r.kind] <= Rank[row.kind]

(***************************************************************************)
(* The tier is right as soon as the newest change is written; as long as   *)
(* it is not, its event is on its way, or a cause is noted.  Inductive     *)
(* together with TypeOK.                                                   *)
(***************************************************************************)
TiersInv ==
    /\ applied <= changes
    /\ applied = changes /\ causes = {} => (row.tier = "pro" <=> Entitled)
    /\ applied < changes /\ causes = {} => \E e \in mail : e.at = changes
    /\ \A e \in mail : Matches(e)
    /\ \A w \in Workers : RequestOK(request[w])
    /\ row = NoRow => served = {}
=============================================================================
