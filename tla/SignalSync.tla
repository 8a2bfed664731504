----------------------------- MODULE SignalSync -----------------------------
(***************************************************************************)
(* The offline-first signal pipeline of the mobile client, end to end:     *)
(*                                                                         *)
(*   SignalService.emit   two awaits: read the outbox size, insert the row *)
(*   SyncEngine.syncOnce  one pass: query, mark, POST, clean up            *)
(*   SignOutController    halt, wipe, revoke, mint, restart                *)
(*   POST /signals        the server's idempotent ingest, seen from here   *)
(*                                                                         *)
(* Dart runs on one thread, so what happens between two awaits is one      *)
(* step and anything else may happen at an await.  The outbox and the      *)
(* auth session survive a crash; everything else is process memory.        *)
(***************************************************************************)
EXTENDS Naturals, FiniteSets

CONSTANTS
    MaxSignals,    \* signals ever captured (bound)
    MaxUsers,      \* anonymous identities ever minted (bound)
    Emitters,      \* emit() calls that may be suspended at the same time (bound)
    BatchLimit,    \* rows per pass: 50 in the code
    QueueCap,      \* rows the outbox should hold at most: 5000 in the code
    MaxFaults,     \* failed requests, token expiries and timeouts (bound)
    MaxDbFaults,   \* failed SQLite calls of a pass, an emit or a restart (bound)
    MaxCrashes,    \* process deaths (bound)
    QuietSignOut,  \* TRUE: nothing else happens on the device during a sign-out
    SlowStatements \* TRUE: a SQLite statement may outlast sign-out's network calls

ASSUME ConstantsAssumption ==
    /\ MaxSignals \in Nat
    /\ MaxUsers \in Nat
    /\ Emitters \in Nat \ {0}
    /\ BatchLimit \in Nat \ {0}
    /\ QueueCap \in Nat \ {0}
    /\ MaxFaults \in Nat
    /\ MaxDbFaults \in Nat
    /\ MaxCrashes \in Nat
    /\ QuietSignOut \in BOOLEAN
    /\ SlowStatements \in BOOLEAN

\* Signal ids are fresh UUIDs; numbering them in capture order gives the
\* outbox its ORDER BY captured_at.  Identities are numbered as minted.
Signals == 1 .. MaxSignals
Users == 1 .. MaxUsers
NoUser == 0

RowState == {"absent", "pending", "inflight", "failed_permanent"}
PassStep == {"idle", "query", "mark", "post", "wait", "replied", "fail", "retry", "cleanup", "wedged"}
SignOutStep == {"idle", "wipe", "revoke", "mint", "restart"}
ReplyKind == {"none", "ok", "unauthorized", "server", "permanent"}

VARIABLES
    running,     \* the app process is alive
    outbox,      \* table outbox: state of each signal's row
    backoff,     \* rows whose next_retry_at is in the future
    session,     \* the persisted GoTrue session's user, or NoUser
    emits,       \* emit() calls between the cap check and the insert
    pass,        \* where the running syncOnce is suspended; "idle" = not syncing
    batch,       \* the rows that pass holds in memory
    todo,        \* rows its markFailed / markRetry loop has still to write
    sender,      \* whose token its request carries
    reply,       \* the answer on its way back
    rejected,    \* the ids that answer rejects
    authHalted,  \* SyncEngine._authHalted
    timer,       \* periodic timer and connectivity subscription are live
    signOut,     \* where SignOutController.run is suspended
    late,        \* requests the client gave up on that may yet reach the server
    stored,      \* the server's signals table: the user each row belongs to
    minted,      \* identities handed out so far
    captured,    \* signals captured so far
    faults, dbFaults, crashes,   \* budgets used
    owner,       \* history: the session each signal was captured under
    accepted,    \* history: signals whose insert completed
    wiped,       \* history: signals whose row a sign-out deleted
    crossing     \* history: signals a sign-out left in memory, or that came after its wipe

memoryVars == <<emits, pass, batch, todo, sender, reply, rejected, authHalted, timer, signOut>>
budgetVars == <<faults, dbFaults, crashes>>
historyVars == <<captured, owner, accepted, wiped, crossing>>
vars == <<running, outbox, backoff, session, memoryVars, late, stored, minted, budgetVars, historyVars>>

Request == [batch : SUBSET Signals, user : Users]

TypeOK ==
    /\ running \in BOOLEAN
    /\ outbox \in [Signals -> RowState]
    /\ backoff \subseteq Signals
    /\ session \in Users \cup {NoUser}
    /\ emits \subseteq Signals
    /\ pass \in PassStep
    /\ batch \subseteq Signals /\ todo \subseteq Signals
    /\ sender \in Users \cup {NoUser}
    /\ reply \in ReplyKind /\ rejected \subseteq Signals
    /\ authHalted \in BOOLEAN /\ timer \in BOOLEAN
    /\ signOut \in SignOutStep
    /\ late \subseteq Request
    /\ stored \in [Signals -> Users \cup {NoUser}]
    /\ minted \in 0 .. MaxUsers
    /\ captured \in 0 .. MaxSignals
    /\ faults \in 0 .. MaxFaults /\ dbFaults \in 0 .. MaxDbFaults /\ crashes \in 0 .. MaxCrashes
    /\ owner \in [Signals -> Users \cup {NoUser}]
    /\ accepted \subseteq Signals /\ wiped \subseteq Signals /\ crossing \subseteq Signals

\* A fresh install that has not been opened yet.
Init ==
    /\ running = FALSE
    /\ outbox = [s \in Signals |-> "absent"]
    /\ backoff = {}
    /\ session = NoUser
    /\ emits = {} /\ pass = "idle" /\ batch = {} /\ todo = {}
    /\ sender = NoUser /\ reply = "none" /\ rejected = {}
    /\ authHalted = FALSE /\ timer = FALSE /\ signOut = "idle"
    /\ late = {}
    /\ stored = [s \in Signals |-> NoUser]
    /\ minted = 0
    /\ captured = 0
    /\ faults = 0 /\ dbFaults = 0 /\ crashes = 0
    /\ owner = [s \in Signals |-> NoUser]
    /\ accepted = {} /\ wiped = {} /\ crossing = {}

-----------------------------------------------------------------------------
(* Outbox statements (offline_database.dart) *)

Rows == {s \in Signals : outbox[s] # "absent"}
PresentIn(S) == {s \in S : outbox[s] # "absent"}

\* UPDATE / DELETE ... WHERE signal_id IN (S): ids without a row are untouched.
Written(S, state) == [s \in Signals |-> IF s \in PresentIn(S) THEN state ELSE outbox[s]]

\* UPDATE outbox SET state = 'pending' WHERE state = 'inflight'
RecoverInflightAll == [s \in Signals |-> IF outbox[s] = "absent" THEN "absent" ELSE "pending"]
RecoverInflightNot == outbox
RecoverInflight == [s \in Signals |-> IF outbox[s] = "inflight" THEN "pending" ELSE outbox[s]]

\* WHERE state = 'pending' AND (next_retry_at IS NULL OR next_retry_at <= now)
Eligible == {s \in Signals : outbox[s] = "pending" /\ s \notin backoff}
\* ORDER BY captured_at ASC LIMIT 50
Oldest(S) == {s \in S : Cardinality({t \in S : t < s}) < BatchLimit}

MarkedInflight == Written(batch, "inflight")

\* DELETE FROM outbox, every row
WipedOutboxFailedOnly == [s \in Signals |-> IF outbox[s] = "failed_permanent" THEN "absent" ELSE outbox[s]]
WipedOutbox == [s \in Signals |-> "absent"]

\* A statement that throws
DbFault == dbFaults < MaxDbFaults /\ dbFaults' = dbFaults + 1

-----------------------------------------------------------------------------
(* SyncEngine.syncOnce up to its first await, as every trigger calls it *)

CanStart == ~authHalted /\ pass = "idle"
SyncOnce == pass' = IF CanStart THEN "query" ELSE pass

-----------------------------------------------------------------------------
(* SignalService.emit *)

BelowCapOffByOne == Cardinality(Rows) <= QueueCap
BelowCap == Cardinality(Rows) < QueueCap

\* The size is read, then the id and captured_at are made; at the cap the
\* signal is throttled and nothing is captured.
EmitCheck ==
    /\ running
    /\ QuietSignOut => signOut = "idle"
    /\ captured < MaxSignals
    /\ Cardinality(emits) < Emitters
    /\ BelowCap
    /\ captured' = captured + 1
    /\ owner' = [owner EXCEPT ![captured + 1] = session]
    /\ emits' = emits \cup {captured + 1}
    /\ crossing' = IF signOut = "revoke" THEN crossing \cup {captured + 1} ELSE crossing
    /\ UNCHANGED <<running, outbox, backoff, session, pass, batch, todo, sender, reply, rejected,
                   authHalted, timer, signOut, late, stored, minted, budgetVars, accepted, wiped>>

\* The insert completes and triggers a sync.
EmitEnqueue(s) ==
    /\ s \in emits
    /\ outbox' = [outbox EXCEPT ![s] = "pending"]
    /\ accepted' = accepted \cup {s}
    /\ emits' = emits \ {s}
    /\ SyncOnce
    /\ UNCHANGED <<running, backoff, session, batch, todo, sender, reply, rejected, authHalted,
                   timer, signOut, late, stored, minted, budgetVars, captured, owner, wiped, crossing>>

\* Anything that throws between the check and the insert: the signal is gone
\* and emit() answers FALSE.
EmitError(s) ==
    /\ s \in emits
    /\ emits' = emits \ {s}
    /\ DbFault
    /\ UNCHANGED <<running, outbox, backoff, session, pass, batch, todo, sender, reply, rejected,
                   authHalted, timer, signOut, late, stored, minted, faults, crashes, historyVars>>

-----------------------------------------------------------------------------
(* What starts a pass: the 60 s timer, a resume, regained connectivity,
   and the debug screen's refresh, which also clears the auth halt. *)

TimerTick ==
    /\ running /\ timer /\ CanStart
    /\ pass' = "query"
    /\ UNCHANGED <<running, outbox, backoff, session, emits, batch, todo, sender, reply, rejected,
                   authHalted, timer, signOut, late, stored, minted, budgetVars, historyVars>>

Resume ==
    /\ running /\ CanStart
    /\ QuietSignOut => signOut = "idle"
    /\ pass' = "query"
    /\ UNCHANGED <<running, outbox, backoff, session, emits, batch, todo, sender, reply, rejected,
                   authHalted, timer, signOut, late, stored, minted, budgetVars, historyVars>>

ConnectivityRegained ==
    /\ running /\ timer
    /\ backoff' = {s \in backoff : outbox[s] # "pending"}
    /\ SyncOnce
    /\ UNCHANGED <<running, outbox, session, emits, batch, todo, sender, reply, rejected,
                   authHalted, timer, signOut, late, stored, minted, budgetVars, historyVars>>

RefreshSyncStatus ==
    /\ running
    /\ QuietSignOut => signOut = "idle"
    /\ authHalted' = FALSE
    /\ pass' = IF pass = "idle" THEN "query" ELSE pass
    /\ UNCHANGED <<running, outbox, backoff, session, emits, batch, todo, sender, reply, rejected,
                   timer, signOut, late, stored, minted, budgetVars, historyVars>>

\* The clock passes a row's next_retry_at.
BackoffExpires(s) ==
    /\ s \in backoff
    /\ backoff' = backoff \ {s}
    /\ UNCHANGED <<running, outbox, session, memoryVars, late, stored, minted, budgetVars, historyVars>>

-----------------------------------------------------------------------------
(* The pass *)

ReadBatch ==
    /\ pass = "query"
    /\ batch' = Oldest(Eligible)
    /\ pass' = IF Eligible = {} THEN "cleanup" ELSE "mark"
    /\ UNCHANGED <<running, outbox, backoff, session, emits, todo, sender, reply, rejected,
                   authHalted, timer, signOut, late, stored, minted, budgetVars, historyVars>>

MarkInflight ==
    /\ pass = "mark"
    /\ outbox' = MarkedInflight
    /\ pass' = "post"
    /\ UNCHANGED <<running, backoff, session, emits, batch, todo, sender, reply, rejected,
                   authHalted, timer, signOut, late, stored, minted, budgetVars, historyVars>>

\* The Dio interceptor reads the token when the request goes out, and the
\* pass does not look at _authHalted again.
SendPost ==
    /\ pass = "post"
    /\ sender' = session
    /\ pass' = "wait"
    /\ UNCHANGED <<running, outbox, backoff, session, emits, batch, todo, reply, rejected,
                   authHalted, timer, signOut, late, stored, minted, budgetVars, historyVars>>

-----------------------------------------------------------------------------
(* POST /signals, seen from the client.  Validation is per item; what it
   rejects, and whether the answer arrives, is left open here. *)

\* INSERT ... ON CONFLICT (signal_id) DO NOTHING
StoredBy(S, u) == [s \in Signals |-> IF s \in S /\ stored[s] = NoUser THEN u ELSE stored[s]]

Fault == faults < MaxFaults /\ faults' = faults + 1

Answer(kind, rej, S) ==
    /\ pass = "wait"
    /\ pass' = "replied" /\ reply' = kind /\ rejected' = rej
    /\ stored' = StoredBy(S, sender)
    /\ UNCHANGED <<running, outbox, backoff, session, emits, batch, todo, sender, authHalted,
                   timer, signOut, late, minted, dbFaults, crashes, historyVars>>

\* 200: every item not rejected is stored or is a duplicate.
AnswerOk ==
    /\ sender # NoUser
    /\ \E rej \in SUBSET batch : Answer("ok", rej, batch \ rej)
    /\ UNCHANGED faults

\* No token, or a token that expired on the way.
AnswerUnauthorized ==
    /\ Answer("unauthorized", {}, {})
    /\ IF sender = NoUser THEN UNCHANGED faults ELSE Fault

\* 5xx: an exception part-way through the batch leaves the items before it stored.
AnswerServerError ==
    /\ sender # NoUser
    /\ \E S \in SUBSET batch : Answer("server", {}, S)
    /\ Fault

\* 403, 404 or a typed 422 for the request as a whole.
AnswerPermanent ==
    /\ sender # NoUser
    /\ Answer("permanent", {}, {})
    /\ Fault

\* The client's timeout or a dropped connection: the request may have been
\* processed, may be lost, or may still reach the server after the client gave up.
Timeout ==
    /\ pass \in {"wait", "replied"}
    /\ pass' = "retry" /\ todo' = batch
    /\ reply' = "none" /\ rejected' = {}
    /\ \/ UNCHANGED late
       \/ /\ pass = "wait" /\ sender # NoUser
          /\ late' = late \cup {[batch |-> batch, user |-> sender]}
    /\ Fault
    /\ UNCHANGED <<running, outbox, backoff, session, emits, batch, sender, authHalted, timer,
                   signOut, stored, minted, dbFaults, crashes, historyVars>>

ServeLate(r) ==
    /\ r \in late
    /\ late' = late \ {r}
    /\ \E S \in SUBSET r.batch : stored' = StoredBy(S, r.user)
    /\ UNCHANGED <<running, outbox, backoff, session, memoryVars, minted, budgetVars, historyVars>>

-----------------------------------------------------------------------------
(* The pass handles the answer *)

Answered(kind) == pass = "replied" /\ reply = kind
AnswerConsumed == reply' = "none" /\ rejected' = {}

\* Ids the answer does not reject: accepted or duplicates.
SyncedIdsAll == batch
SyncedIds == batch \ rejected

DeleteSynced ==
    /\ Answered("ok")
    /\ outbox' = Written(SyncedIds, "absent")
    /\ backoff' = backoff \ SyncedIds
    /\ todo' = rejected
    /\ pass' = IF rejected = {} THEN "cleanup" ELSE "fail"
    /\ AnswerConsumed
    /\ UNCHANGED <<running, session, emits, batch, sender, authHalted, timer, signOut, late,
                   stored, minted, budgetVars, historyVars>>

\* One markFailed per rejected id.
MarkFailedOne(s) ==
    /\ pass = "fail" /\ s \in todo
    /\ outbox' = Written({s}, "failed_permanent")
    /\ todo' = todo \ {s}
    /\ pass' = IF todo = {s} THEN "cleanup" ELSE "fail"
    /\ UNCHANGED <<running, backoff, session, emits, batch, sender, reply, rejected, authHalted,
                   timer, signOut, late, stored, minted, budgetVars, historyVars>>

HaltOnUnauthorized ==
    /\ Answered("unauthorized")
    /\ authHalted' = TRUE
    /\ pass' = "cleanup"
    /\ AnswerConsumed
    /\ UNCHANGED <<running, outbox, backoff, session, emits, batch, todo, sender, timer, signOut,
                   late, stored, minted, budgetVars, historyVars>>

BeginRetry ==
    /\ Answered("server")
    /\ pass' = "retry" /\ todo' = batch
    /\ AnswerConsumed
    /\ UNCHANGED <<running, outbox, backoff, session, emits, batch, sender, authHalted, timer,
                   signOut, late, stored, minted, budgetVars, historyVars>>

\* markRetry reads and writes row by row and skips rows that are gone.
MarkRetryOne(s) ==
    /\ pass = "retry" /\ s \in todo
    /\ outbox' = Written({s}, "pending")
    /\ backoff' = backoff \cup PresentIn({s})
    /\ todo' = todo \ {s}
    /\ pass' = IF todo = {s} THEN "cleanup" ELSE "retry"
    /\ UNCHANGED <<running, session, emits, batch, sender, reply, rejected, authHalted, timer,
                   signOut, late, stored, minted, budgetVars, historyVars>>

MarkFailedAll ==
    /\ Answered("permanent")
    /\ outbox' = Written(batch, "failed_permanent")
    /\ pass' = "cleanup"
    /\ AnswerConsumed
    /\ UNCHANGED <<running, backoff, session, emits, batch, todo, sender, authHalted, timer,
                   signOut, late, stored, minted, budgetVars, historyVars>>

\* Any other exception (SQLite, JSON) falls to the catch-all.
PassError ==
    /\ pass \in {"query", "mark", "post", "replied", "fail", "retry"}
    /\ pass' = "cleanup"
    /\ AnswerConsumed
    /\ DbFault
    /\ UNCHANGED <<running, outbox, backoff, session, emits, batch, todo, sender, authHalted,
                   timer, signOut, late, stored, minted, faults, crashes, historyVars>>

\* finally: every inflight row back to pending, then the guard is released.
Cleanup ==
    /\ pass = "cleanup"
    /\ outbox' = RecoverInflight
    /\ pass' = "idle" /\ batch' = {} /\ todo' = {}
    /\ UNCHANGED <<running, backoff, session, emits, sender, reply, rejected, authHalted, timer,
                   signOut, late, stored, minted, budgetVars, historyVars>>

\* recoverInflight throws inside finally: _isSyncing stays TRUE.
CleanupError ==
    /\ pass = "cleanup"
    /\ pass' = "wedged"
    /\ DbFault
    /\ UNCHANGED <<running, outbox, backoff, session, emits, batch, todo, sender, reply, rejected,
                   authHalted, timer, signOut, late, stored, minted, faults, crashes, historyVars>>

-----------------------------------------------------------------------------
(* SignOutController.run *)

SignOutBegin ==
    /\ running /\ signOut = "idle"
    /\ QuietSignOut => pass = "idle" /\ emits = {}
    /\ authHalted' = TRUE /\ timer' = FALSE
    /\ signOut' = "wipe"
    /\ UNCHANGED <<running, outbox, backoff, session, emits, pass, batch, todo, sender, reply,
                   rejected, late, stored, minted, budgetVars, historyVars>>

\* The rows of a pass suspended before its UPDATE.  One suspended after it
\* still posts with the old token (see SignOutRevoke).
HeldUnmarked == IF pass = "mark" THEN batch ELSE {}

SignOutWipe ==
    /\ signOut = "wipe"
    /\ outbox' = WipedOutbox
    /\ backoff' = {}
    /\ wiped' = wiped \cup Rows
    /\ crossing' = crossing \cup emits \cup HeldUnmarked
    /\ signOut' = "revoke"
    /\ UNCHANGED <<running, session, emits, pass, batch, todo, sender, reply, rejected, authHalted,
                   timer, late, stored, minted, budgetVars, captured, owner, accepted>>

\* Statements run and answer in the order they were issued: if markInflight
\* ran before the wipe, its continuation (the POST) runs before the wipe's.
SignOutRevoke ==
    /\ signOut = "revoke" /\ pass # "post"
    /\ session' = NoUser
    /\ signOut' = "mint"
    /\ UNCHANGED <<running, outbox, backoff, emits, pass, batch, todo, sender, reply, rejected,
                   authHalted, timer, late, stored, minted, budgetVars, historyVars>>

\* Every early return of run(): the timer is gone, and the halt stays too
\* unless it is sync.start() that throws, in its recoverInflight.
SignOutFail ==
    /\ signOut # "idle"
    /\ signOut' = "idle"
    /\ \/ signOut \in {"wipe", "revoke", "mint"} /\ Fault /\ UNCHANGED dbFaults
       \/ signOut = "mint" /\ minted = MaxUsers /\ UNCHANGED <<faults, dbFaults>>
       \/ signOut = "restart" /\ DbFault /\ UNCHANGED faults
    /\ UNCHANGED <<running, outbox, backoff, session, emits, pass, batch, todo, sender, reply,
                   rejected, authHalted, timer, late, stored, minted, crashes, historyVars>>

MintSession ==
    /\ session' = minted + 1 /\ session' \in Users
    /\ minted' = minted + 1

\* resetAuthHalted, once the new session is there.
SignOutMint ==
    /\ signOut = "mint"
    /\ SlowStatements \/ (pass \notin {"mark", "post"} /\ emits = {})
    /\ MintSession
    /\ authHalted' = FALSE
    /\ signOut' = "restart"
    /\ UNCHANGED <<running, outbox, backoff, emits, pass, batch, todo, sender, reply, rejected,
                   timer, late, stored, budgetVars, historyVars>>

SignOutRestart ==
    /\ signOut = "restart"
    /\ outbox' = RecoverInflight
    /\ timer' = TRUE
    /\ SyncOnce
    /\ signOut' = "idle"
    /\ UNCHANGED <<running, backoff, session, emits, batch, todo, sender, reply, rejected,
                   authHalted, late, stored, minted, budgetVars, historyVars>>

-----------------------------------------------------------------------------
(* Process death and launch *)

Crash ==
    /\ running /\ crashes < MaxCrashes
    /\ crashes' = crashes + 1
    /\ running' = FALSE
    /\ emits' = {} /\ pass' = "idle" /\ batch' = {} /\ todo' = {}
    /\ sender' = NoUser /\ reply' = "none" /\ rejected' = {}
    /\ authHalted' = FALSE /\ timer' = FALSE /\ signOut' = "idle"
    /\ \/ UNCHANGED late
       \/ /\ pass = "wait" /\ sender # NoUser
          /\ late' = late \cup {[batch |-> batch, user |-> sender]}
    /\ UNCHANGED <<outbox, backoff, session, stored, minted, faults, dbFaults, historyVars>>

\* main(): reuse or mint the session (offline, it goes on without one),
\* recover inflight rows, start the timer, try a pass.
Launch ==
    /\ ~running
    /\ running' = TRUE /\ timer' = TRUE
    /\ IF session # NoUser THEN UNCHANGED <<session, minted>>
       ELSE MintSession \/ UNCHANGED <<session, minted>>
    /\ outbox' = RecoverInflight
    /\ pass' = "query"
    /\ UNCHANGED <<backoff, emits, batch, todo, sender, reply, rejected, authHalted, signOut,
                   late, stored, budgetVars, historyVars>>

-----------------------------------------------------------------------------

Emit == EmitCheck \/ \E s \in Signals : EmitEnqueue(s) \/ EmitError(s)

Triggers == TimerTick \/ Resume \/ ConnectivityRegained \/ RefreshSyncStatus

Server == AnswerOk \/ AnswerUnauthorized \/ AnswerServerError \/ AnswerPermanent

HandleAnswer ==
    \/ DeleteSynced \/ HaltOnUnauthorized \/ BeginRetry \/ MarkFailedAll
    \/ \E s \in Signals : MarkFailedOne(s) \/ MarkRetryOne(s)

Pass == ReadBatch \/ MarkInflight \/ SendPost \/ HandleAnswer \/ Cleanup

SignOut == SignOutWipe \/ SignOutRevoke \/ SignOutMint \/ SignOutRestart

Next ==
    \/ Emit
    \/ Triggers
    \/ \E s \in Signals : BackoffExpires(s)
    \/ Pass \/ PassError \/ CleanupError
    \/ Server \/ Timeout \/ \E r \in late : ServeLate(r)
    \/ SignOutBegin \/ SignOut \/ SignOutFail
    \/ Crash \/ Launch

Spec == Init /\ [][Next]_vars

(***************************************************************************)
(* Continuations of a live process run, time passes, the timer fires, and  *)
(* an HTTP call answers or times out.  Users, crashes and the next launch  *)
(* are not fair; neither is the choice among the server's answers, but     *)
(* only MaxFaults of them are failures.                                    *)
(***************************************************************************)
Fairness ==
    /\ WF_vars(Pass)
    /\ WF_vars(Server \/ Timeout)
    /\ WF_vars(TimerTick)
    /\ \A s \in Signals : WF_vars(BackoffExpires(s)) /\ WF_vars(EmitEnqueue(s))
    /\ WF_vars(SignOut \/ SignOutFail)

FairSpec == Spec /\ Fairness

-----------------------------------------------------------------------------
(* Safety *)

\* Durability: once emit() has inserted a signal, the row stays on the device
\* until the server has stored the signal, unless a sign-out deletes it
\* (offline_database.dart enqueue, sync_engine.dart deleteSynced).
NoSilentLoss ==
    \A s \in accepted : outbox[s] # "absent" \/ stored[s] # NoUser \/ s \in wiped

\* "NEVER leave rows stuck 'inflight'": while the app is alive a row is
\* inflight only if the running pass holds it, so the pass's finally, or the
\* next launch, will put it back.
InflightIsHeldByPass ==
    \A s \in Signals : outbox[s] = "inflight" =>
        \/ ~running
        \/ s \in batch /\ pass \in {"post", "wait", "replied", "fail", "retry", "cleanup", "wedged"}

\* "mark and stop retrying": a permanently failed row is never sent again, only
\* wiped, although neither markInflight nor markRetry looks at the state.
FailedStaysFailed ==
    [][\A s \in Signals : outbox[s] = "failed_permanent" =>
            outbox'[s] \in {"failed_permanent", "absent"}]_outbox

\* ON CONFLICT DO NOTHING: however often a signal is sent, and by whoever is
\* signed in by then, its server row and the user it belongs to never change.
StoredNeverReassigned ==
    [][\A s \in Signals : stored[s] # NoUser => stored'[s] = stored[s]]_stored

\* The cap check and the insert are two awaits: each emit() suspended between
\* them can overshoot the cap by one row, and nothing overshoots it further.
QueueWithinCapPlusRace == Cardinality(Rows) <= QueueCap + Emitters - 1

\* Sign-out deletes the outbox "so identity A's pending rows can never POST
\* under identity B's Bearer": what the server stores under a user was
\* captured under that user, or before there was a session.
AttributionHolds ==
    \A s \in Signals : stored[s] # NoUser => owner[s] \in {NoUser, stored[s]}

\* How far that goes when the app does not stand still for a sign-out: across
\* wipes, revocations, late requests and crashes the server stores a signal
\* under another user only if an emit() past its cap check or a pass before
\* its UPDATE held it in memory at a wipe, or it was captured between a wipe
\* and the end of the old session.  No queued row ever crosses.
OnlyHeldSignalsCross ==
    \A s \in Signals : stored[s] # NoUser => owner[s] \in {NoUser, stored[s]} \/ s \in crossing

\* "6. Reset halt, restart sync": with the engine restarted, a halt is the
\* doing of a 401 to the present session's own request.
HaltIsOwnDoing == authHalted /\ timer => sender \in {NoUser, session}

\* Why custody is never broken: the ids a pass, a late request or an emit
\* holds in memory are related to the rows, and what an answer acknowledges
\* is stored already.
CustodyInv ==
    /\ accepted \cup emits \subseteq 1 .. captured
    /\ accepted \cap emits = {}
    /\ Rows \subseteq accepted
    /\ batch \subseteq accepted
    /\ \A r \in late : r.batch \subseteq accepted
    /\ pass = "replied" /\ reply = "ok" => \A s \in batch \ rejected : stored[s] # NoUser
    /\ NoSilentLoss

\* Why rows are where the pass thinks: its loops stay inside its batch, and
\* none of the rows it may still re-queue has failed for good.
PassInv ==
    /\ todo \subseteq batch /\ rejected \subseteq batch
    /\ pass \in {"idle", "query", "mark", "post", "wait", "replied"} => todo = {}
    /\ pass # "replied" => rejected = {}
    /\ ~running => pass = "idle" /\ emits = {} /\ signOut = "idle"
    /\ pass \in {"mark", "post", "wait", "replied", "retry"} =>
            \A s \in batch : outbox[s] # "failed_permanent"
    /\ InflightIsHeldByPass

\* Why the cap is overshot by no more than the race allows: a suspended
\* emit() has its place in the queue from the moment of its check.
QueueInv == Cardinality(Rows \cup emits) <= QueueCap + Emitters - 1

\* The inductive invariant of the safety proofs: it holds in every reachable
\* state, and with TypeOK it is preserved by every step.
SyncInv == CustodyInv /\ PassInv /\ QueueInv

\* Why no queued row crosses: what the device can still send belongs to the
\* present session, what a request carries to its sender, and from the wipe to
\* the end of the session there is nothing else.
OwnedOrCrossing(S, u) == \A s \in S : owner[s] \in {NoUser, u} \/ s \in crossing

OwnersInv ==
    /\ OwnedOrCrossing(Rows \cup emits, session)
    /\ pass \in {"mark", "post"} => OwnedOrCrossing(batch, session)
    /\ pass \in {"wait", "replied"} => OwnedOrCrossing(batch, sender)
    /\ \A r \in late : OwnedOrCrossing(r.batch, r.user)
    /\ signOut = "revoke" => Rows \cup emits \cup HeldUnmarked \subseteq crossing
    /\ signOut = "mint" => session = NoUser
    /\ \A s \in Signals : stored[s] # NoUser => s <= captured
    /\ OnlyHeldSignalsCross

\* What a quiet sign-out buys: no pass and no emit runs beside it, so nothing
\* is left in memory.
QuietInv ==
    /\ signOut # "idle" => pass = "idle" /\ emits = {} /\ ~timer
    /\ crossing = {}

-----------------------------------------------------------------------------
(* Liveness *)

Unsettled(s) == outbox[s] \in {"pending", "inflight"}

\* Every queued signal is delivered, refused or wiped in the end, unless the
\* app is closed, a 401 or a sign-out stops the engine, or the cleanup threw.
EventuallySettled ==
    \A s \in Signals :
        Unsettled(s) ~> (~Unsettled(s) \/ ~running \/ authHalted \/ ~timer \/ pass = "wedged")

\* "NEVER leave rows stuck 'inflight' -- finally handles recovery", taken at
\* its word: while the app lives, no row stays inflight.
InflightNeverStuck ==
    \A s \in Signals : outbox[s] = "inflight" ~> (outbox[s] # "inflight" \/ ~running)

-----------------------------------------------------------------------------
(* The pipeline implements the custody it promises *)

Custody == INSTANCE SignalCustody WITH
    known <- accepted,
    held <- Rows,
    stored <- {s \in Signals : stored[s] # NoUser}

ImplementsCustody == Custody!Spec
=============================================================================
