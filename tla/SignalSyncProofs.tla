-------------------------- MODULE SignalSyncProofs --------------------------
(***************************************************************************)
(* What TLAPS proves of SignalSync, for every number of signals, users,    *)
(* faults and crashes, every batch limit and every queue cap.              *)
(***************************************************************************)
EXTENDS SignalSync, FiniteSetTheorems, TLAPS

\* A pass only ever reads rows that are eligible.
LEMMA OldestIsSubset == ASSUME NEW S PROVE Oldest(S) \subseteq S
BY DEF Oldest

(***************************************************************************)
(* Type correctness: every step of the emitters, the engine, the sign-out  *)
(* and the server keeps every variable in its range.                       *)
(***************************************************************************)
THEOREM TypeInvariant == Spec => []TypeOK
<1>1. Init => TypeOK
  <2> SUFFICES ASSUME Init PROVE TypeOK
    OBVIOUS
  <2>1. /\ minted \in 0 .. MaxUsers /\ captured \in 0 .. MaxSignals
        /\ faults \in 0 .. MaxFaults /\ dbFaults \in 0 .. MaxDbFaults /\ crashes \in 0 .. MaxCrashes
    BY ConstantsAssumption DEF ConstantsAssumption, Init
  <2>2. /\ outbox \in [Signals -> RowState]
        /\ stored \in [Signals -> Users \cup {NoUser}] /\ owner \in [Signals -> Users \cup {NoUser}]
    BY DEF Init, RowState
  <2> QED
    BY <2>1, <2>2 DEF Init, TypeOK, PassStep, SignOutStep, ReplyKind
<1>2. TypeOK /\ [Next]_vars => TypeOK'
  <2> SUFFICES ASSUME TypeOK, [Next]_vars PROVE TypeOK'
    OBVIOUS
  <2> USE ConstantsAssumption DEF ConstantsAssumption, TypeOK, RowState, PassStep, SignOutStep, ReplyKind
  <2>1. CASE EmitCheck
    BY <2>1 DEF EmitCheck, Signals, budgetVars
  <2>2. ASSUME NEW s \in Signals, EmitEnqueue(s) PROVE TypeOK'
    BY <2>2 DEF EmitEnqueue, SyncOnce, budgetVars
  <2>3. CASE Triggers
    <3>1. CASE TimerTick \/ Resume
      BY <3>1 DEF TimerTick, Resume, budgetVars, historyVars
    <3>2. CASE ConnectivityRegained
      BY <3>2 DEF ConnectivityRegained, SyncOnce, budgetVars, historyVars
    <3>3. CASE RefreshSyncStatus
      <4>1. pass' \in PassStep /\ authHalted' \in BOOLEAN
        BY <3>3 DEF RefreshSyncStatus
      <4>2. UNCHANGED <<running, outbox, backoff, session, emits, batch, todo, sender, reply, rejected,
                        timer, signOut, late, stored, minted, budgetVars, historyVars>>
        BY <3>3 DEF RefreshSyncStatus
      <4> QED
        BY <4>1, <4>2 DEF budgetVars, historyVars
    <3> QED
      BY <2>3, <3>1, <3>2, <3>3 DEF Triggers
  <2>4. ASSUME NEW s \in Signals, BackoffExpires(s) PROVE TypeOK'
    BY <2>4 DEF BackoffExpires, memoryVars, budgetVars, historyVars
  <2>5. CASE ReadBatch
    <3>1. batch' \subseteq Signals
      BY <2>5, OldestIsSubset DEF ReadBatch, Eligible
    <3> QED
      BY <2>5, <3>1 DEF ReadBatch, budgetVars, historyVars
  <2>6. CASE MarkInflight
    BY <2>6 DEF MarkInflight, MarkedInflight, Written, PresentIn, budgetVars, historyVars
  <2>7. CASE SendPost
    BY <2>7 DEF SendPost, budgetVars, historyVars
  <2>8. CASE Server
    BY <2>8 DEF Server, AnswerOk, AnswerUnauthorized, AnswerServerError, AnswerPermanent, Answer, StoredBy, Fault, historyVars
  <2>9. CASE Timeout
    BY <2>9 DEF Timeout, Fault, Request, historyVars
  <2>10. ASSUME NEW r \in late, ServeLate(r) PROVE TypeOK'
    BY <2>10 DEF ServeLate, StoredBy, Request, memoryVars, budgetVars, historyVars
  <2>11. CASE DeleteSynced
    BY <2>11 DEF DeleteSynced, Written, PresentIn, SyncedIds, AnswerConsumed, budgetVars, historyVars
  <2>12. CASE HaltOnUnauthorized \/ BeginRetry \/ MarkFailedAll
    BY <2>12 DEF HaltOnUnauthorized, BeginRetry, MarkFailedAll, Written, PresentIn, AnswerConsumed, budgetVars, historyVars
  <2>13. ASSUME NEW s \in Signals, MarkFailedOne(s) \/ MarkRetryOne(s) PROVE TypeOK'
    BY <2>13 DEF MarkFailedOne, MarkRetryOne, Written, PresentIn, budgetVars, historyVars
  <2>14. CASE Cleanup
    BY <2>14 DEF Cleanup, RecoverInflight, budgetVars, historyVars
  <2>15. CASE PassError \/ CleanupError
    BY <2>15 DEF PassError, CleanupError, DbFault, AnswerConsumed, budgetVars, historyVars
  <2>16. CASE SignOutBegin \/ SignOutRevoke
    BY <2>16 DEF SignOutBegin, SignOutRevoke, budgetVars, historyVars
  <2>17. CASE SignOutWipe
    BY <2>17 DEF SignOutWipe, WipedOutbox, Rows, HeldUnmarked, budgetVars
  <2>18. CASE SignOutFail
    BY <2>18 DEF SignOutFail, Fault, DbFault, historyVars
  <2>19. CASE SignOutMint
    <3>1. minted' \in 0 .. MaxUsers /\ session' \in Users
      BY <2>19 DEF Users, SignOutMint, MintSession
    <3> QED
      BY <2>19, <3>1 DEF SignOutMint, budgetVars, historyVars
  <2>20. CASE SignOutRestart
    BY <2>20 DEF SignOutRestart, RecoverInflight, SyncOnce, budgetVars, historyVars
  <2>21. CASE Crash
    <3>1. late' \subseteq Request
      BY <2>21 DEF Crash, Request
    <3>2. crashes' \in 0 .. MaxCrashes
      BY <2>21 DEF Crash
    <3> QED
      BY <2>21, <3>1, <3>2 DEF Crash, historyVars
  <2>22. CASE Launch
    BY <2>22 DEF Users, Launch, MintSession, RecoverInflight, budgetVars, historyVars
  <2>23. CASE UNCHANGED vars
    BY <2>23 DEF vars, memoryVars, budgetVars, historyVars
  <2>24. ASSUME NEW s \in Signals, EmitError(s) PROVE TypeOK'
    BY <2>24 DEF EmitError, DbFault, historyVars
  <2> QED
    BY <2>1, <2>2, <2>3, <2>4, <2>5, <2>6, <2>7, <2>8, <2>9, <2>10, <2>11, <2>12, <2>13, <2>14, <2>15,
       <2>16, <2>17, <2>18, <2>19, <2>20, <2>21, <2>22, <2>23, <2>24
    DEF Next, Emit, Pass, HandleAnswer, SignOut
<1> QED
  BY <1>1, <1>2, PTL DEF Spec

(***************************************************************************)
(* The inductive invariant, first the half about custody.                  *)
(***************************************************************************)
LEMMA CustodyInit == Init => CustodyInv
BY DEF Init, CustodyInv, NoSilentLoss, Rows

\* Every step keeps custody: only an answered delete and a sign-out remove rows.
LEMMA CustodyStep ==
    ASSUME TypeOK, CustodyInv, PassInv, [Next]_vars
    PROVE  CustodyInv'
<1> USE DEF CustodyInv, NoSilentLoss, Rows
<1>1. CASE EmitCheck
  <2>1. captured \in Nat /\ 1 .. captured \subseteq 1 .. captured + 1
    BY DEF TypeOK
  <2> QED
    BY <1>1, <2>1 DEF EmitCheck, TypeOK, budgetVars
<1>2. ASSUME NEW s \in Signals, EmitEnqueue(s) PROVE CustodyInv'
  BY <1>2 DEF EmitEnqueue, SyncOnce, CanStart, TypeOK, budgetVars
<1>3. CASE Triggers
  BY <1>3 DEF Triggers, TimerTick, Resume, ConnectivityRegained, RefreshSyncStatus, SyncOnce, CanStart, budgetVars, historyVars
<1>4. ASSUME NEW s \in Signals, BackoffExpires(s) PROVE CustodyInv'
  BY <1>4 DEF BackoffExpires, memoryVars, budgetVars, historyVars
<1>5. CASE ReadBatch
  <2>1. batch' \subseteq Rows
    BY <1>5, OldestIsSubset DEF ReadBatch, Eligible
  <2> QED
    BY <1>5, <2>1 DEF ReadBatch, budgetVars, historyVars
<1>6. CASE MarkInflight
  BY <1>6 DEF MarkInflight, MarkedInflight, Written, PresentIn, TypeOK, budgetVars, historyVars
<1>7. CASE SendPost
  BY <1>7 DEF SendPost, budgetVars, historyVars
<1>8. CASE Server
  <2>1. ASSUME NEW rej \in SUBSET batch, Answer("ok", rej, batch \ rej), sender # NoUser PROVE CustodyInv'
    BY <2>1 DEF Answer, StoredBy, TypeOK, historyVars
  <2>2. ASSUME NEW kind, NEW S, kind # "ok", Answer(kind, {}, S) PROVE CustodyInv'
    <3>1. \A s \in Signals : stored[s] # NoUser => stored'[s] # NoUser
      BY <2>2 DEF Answer, StoredBy
    <3> QED
      BY <2>2, <3>1 DEF Answer, TypeOK, historyVars
  <2> QED
    BY <1>8, <2>1, <2>2 DEF Server, AnswerOk, AnswerUnauthorized, AnswerServerError, AnswerPermanent
<1>9. CASE Timeout
  BY <1>9 DEF Timeout, historyVars
<1>10. ASSUME NEW r \in late, ServeLate(r) PROVE CustodyInv'
  <2>1. \A s \in Signals : stored[s] # NoUser => stored'[s] # NoUser
    BY <1>10 DEF ServeLate, StoredBy, TypeOK, Request
  <2> QED
    BY <1>10, <2>1 DEF ServeLate, TypeOK, memoryVars, budgetVars, historyVars
<1>11. CASE DeleteSynced
  BY <1>11 DEF DeleteSynced, Answered, Written, PresentIn, SyncedIds, AnswerConsumed, TypeOK, budgetVars, historyVars
<1>12. CASE HaltOnUnauthorized \/ BeginRetry
  BY <1>12 DEF HaltOnUnauthorized, BeginRetry, AnswerConsumed, budgetVars, historyVars
<1>13. CASE MarkFailedAll
  BY <1>13 DEF MarkFailedAll, Written, PresentIn, AnswerConsumed, TypeOK, budgetVars, historyVars
<1>14. ASSUME NEW s \in Signals, MarkFailedOne(s) \/ MarkRetryOne(s) PROVE CustodyInv'
  BY <1>14 DEF MarkFailedOne, MarkRetryOne, Written, PresentIn, TypeOK, budgetVars, historyVars
<1>15. CASE Cleanup
  BY <1>15 DEF Cleanup, RecoverInflight, TypeOK, budgetVars, historyVars
<1>16. CASE PassError \/ CleanupError
  BY <1>16 DEF PassError, CleanupError, AnswerConsumed, historyVars
<1>17. CASE SignOutBegin \/ SignOutRevoke \/ SignOutFail \/ SignOutMint
  BY <1>17 DEF SignOutBegin, SignOutRevoke, SignOutFail, SignOutMint, budgetVars, historyVars
<1>18. CASE SignOutWipe
  BY <1>18 DEF SignOutWipe, WipedOutbox, TypeOK, budgetVars
<1>19. CASE SignOutRestart
  BY <1>19 DEF SignOutRestart, RecoverInflight, SyncOnce, CanStart, TypeOK, budgetVars, historyVars
<1>20. CASE Crash
  BY <1>20 DEF Crash, historyVars
<1>21. CASE Launch
  BY <1>21 DEF Launch, RecoverInflight, TypeOK, budgetVars, historyVars
<1>22. CASE UNCHANGED vars
  BY <1>22 DEF vars, memoryVars, budgetVars, historyVars
<1>23. ASSUME NEW s \in Signals, EmitError(s) PROVE CustodyInv'
  BY <1>23 DEF EmitError, historyVars
<1> QED
  BY <1>1, <1>2, <1>3, <1>4, <1>5, <1>6, <1>7, <1>8, <1>9, <1>10, <1>11, <1>12, <1>13, <1>14, <1>15,
     <1>16, <1>17, <1>18, <1>19, <1>20, <1>21, <1>22, <1>23
  DEF Next, Emit, Pass, HandleAnswer, SignOut

(***************************************************************************)
(* The other half: where the pass is and what its rows look like.          *)
(***************************************************************************)
LEMMA PassInit == Init => PassInv
BY DEF Init, PassInv, InflightIsHeldByPass

\* Every step keeps the rows where the pass, or the next launch, will look for them.
LEMMA PassPreserved ==
    ASSUME TypeOK, CustodyInv, PassInv, [Next]_vars
    PROVE  PassInv'
<1> USE DEF PassInv, InflightIsHeldByPass
<1>1. CASE EmitCheck
  BY <1>1 DEF EmitCheck, budgetVars
<1>2. ASSUME NEW s \in Signals, EmitEnqueue(s) PROVE PassInv'
  <2>1. s \notin batch
    BY <1>2 DEF EmitEnqueue, CustodyInv
  <2> QED
    BY <1>2, <2>1 DEF EmitEnqueue, SyncOnce, CanStart, TypeOK, budgetVars
<1>3. CASE Triggers
  BY <1>3 DEF Triggers, TimerTick, Resume, ConnectivityRegained, RefreshSyncStatus, SyncOnce, CanStart, budgetVars, historyVars
<1>4. ASSUME NEW s \in Signals, BackoffExpires(s) PROVE PassInv'
  BY <1>4 DEF BackoffExpires, memoryVars, budgetVars, historyVars
<1>5. CASE ReadBatch
  <2>1. \A s \in batch' : outbox[s] = "pending"
    BY <1>5, OldestIsSubset DEF ReadBatch, Eligible
  <2> QED
    BY <1>5, <2>1 DEF ReadBatch, budgetVars, historyVars
<1>6. CASE MarkInflight
  BY <1>6 DEF MarkInflight, MarkedInflight, Written, PresentIn, TypeOK, budgetVars, historyVars
<1>7. CASE SendPost
  BY <1>7 DEF SendPost, budgetVars, historyVars
<1>8. CASE Server
  <2>1. ASSUME NEW kind, NEW rej \in SUBSET batch, NEW S, Answer(kind, rej, S) PROVE PassInv'
    BY <2>1 DEF Answer, historyVars
  <2> QED
    BY <1>8, <2>1 DEF Server, AnswerOk, AnswerUnauthorized, AnswerServerError, AnswerPermanent
<1>9. CASE Timeout
  BY <1>9 DEF Timeout, historyVars
<1>10. ASSUME NEW r \in late, ServeLate(r) PROVE PassInv'
  BY <1>10 DEF ServeLate, memoryVars, budgetVars, historyVars
<1>11. CASE DeleteSynced
  BY <1>11 DEF DeleteSynced, Answered, Written, PresentIn, SyncedIds, AnswerConsumed, TypeOK, budgetVars, historyVars
<1>12. CASE HaltOnUnauthorized \/ BeginRetry
  BY <1>12 DEF HaltOnUnauthorized, BeginRetry, Answered, AnswerConsumed, budgetVars, historyVars
<1>13. CASE MarkFailedAll
  BY <1>13 DEF MarkFailedAll, Answered, Written, PresentIn, AnswerConsumed, TypeOK, budgetVars, historyVars
<1>14. ASSUME NEW s \in Signals, MarkFailedOne(s) \/ MarkRetryOne(s) PROVE PassInv'
  BY <1>14 DEF MarkFailedOne, MarkRetryOne, Written, PresentIn, TypeOK, budgetVars, historyVars
<1>15. CASE Cleanup
  BY <1>15 DEF Cleanup, RecoverInflight, TypeOK, budgetVars, historyVars
<1>16. CASE PassError \/ CleanupError
  BY <1>16 DEF PassError, CleanupError, AnswerConsumed, historyVars
<1>17. CASE SignOutBegin \/ SignOutRevoke \/ SignOutFail \/ SignOutMint
  BY <1>17 DEF SignOutBegin, SignOutRevoke, SignOutFail, SignOutMint, budgetVars, historyVars
<1>18. CASE SignOutWipe
  BY <1>18 DEF SignOutWipe, WipedOutbox, TypeOK, budgetVars
<1>19. CASE SignOutRestart
  BY <1>19 DEF SignOutRestart, RecoverInflight, SyncOnce, CanStart, TypeOK, budgetVars, historyVars
<1>20. CASE Crash
  BY <1>20 DEF Crash, historyVars
<1>21. CASE Launch
  BY <1>21 DEF Launch, RecoverInflight, TypeOK, budgetVars, historyVars
<1>22. CASE UNCHANGED vars
  BY <1>22 DEF vars, memoryVars, budgetVars, historyVars
<1>23. ASSUME NEW s \in Signals, EmitError(s) PROVE PassInv'
  BY <1>23 DEF EmitError, historyVars
<1> QED
  BY <1>1, <1>2, <1>3, <1>4, <1>5, <1>6, <1>7, <1>8, <1>9, <1>10, <1>11, <1>12, <1>13, <1>14, <1>15,
     <1>16, <1>17, <1>18, <1>19, <1>20, <1>21, <1>22, <1>23
  DEF Next, Emit, Pass, HandleAnswer, Triggers, SignOut

(***************************************************************************)
(* The bound on the queue.                                                 *)
(***************************************************************************)
LEMMA SignalsFinite ==
    ASSUME NEW S \in SUBSET Signals
    PROVE  IsFiniteSet(S) /\ Cardinality(S) \in Nat
<1>1. MaxSignals \in Int
  BY ConstantsAssumption DEF ConstantsAssumption
<1>2. IsFiniteSet(Signals)
  BY <1>1, FS_Interval DEF Signals
<1> QED
  BY <1>2, FS_Subset, FS_CardinalityType

\* An empty outbox is within the cap.
LEMMA QueueInit == Init => QueueInv
<1> SUFFICES ASSUME Init PROVE QueueInv
  OBVIOUS
<1>1. Rows \cup emits = {}
  BY DEF Init, Rows
<1> QED
  BY <1>1, FS_EmptySet, ConstantsAssumption DEF ConstantsAssumption, QueueInv

\* Only EmitCheck adds a signal to the rows and the suspended emits together.
LEMMA QueueGrowth ==
    ASSUME TypeOK, [Next]_vars, ~EmitCheck
    PROVE  (Rows \cup emits)' \subseteq Rows \cup emits
<1> USE DEF Rows
<1>1. ASSUME NEW s \in Signals, EmitEnqueue(s) PROVE (Rows \cup emits)' \subseteq Rows \cup emits
  BY <1>1 DEF EmitEnqueue, TypeOK
<1>2. CASE UNCHANGED <<outbox, emits>>
  BY <1>2
<1>3. ASSUME UNCHANGED emits, NEW S, NEW state, outbox' = Written(S, state)
      PROVE (Rows \cup emits)' \subseteq Rows \cup emits
  BY <1>3 DEF Written, PresentIn, TypeOK
<1>4. CASE (UNCHANGED emits \/ emits' = {}) /\ (UNCHANGED outbox \/ outbox' = RecoverInflight \/ outbox' = WipedOutbox)
  BY <1>4 DEF RecoverInflight, WipedOutbox, TypeOK
<1>5. CASE Triggers
  BY <1>2, <1>5 DEF Triggers, TimerTick, Resume, ConnectivityRegained, RefreshSyncStatus
<1>6. ASSUME NEW s \in Signals, BackoffExpires(s) PROVE (Rows \cup emits)' \subseteq Rows \cup emits
  BY <1>2, <1>6 DEF BackoffExpires, memoryVars
<1>7. CASE Pass
  <2>1. ASSUME NEW s \in Signals, MarkFailedOne(s) \/ MarkRetryOne(s) PROVE (Rows \cup emits)' \subseteq Rows \cup emits
    BY <1>3, <2>1 DEF MarkFailedOne, MarkRetryOne
  <2>2. CASE MarkInflight \/ DeleteSynced \/ MarkFailedAll
    BY <1>3, <2>2 DEF MarkInflight, MarkedInflight, DeleteSynced, MarkFailedAll
  <2>3. CASE ReadBatch \/ SendPost \/ HaltOnUnauthorized \/ BeginRetry
    BY <1>2, <2>3 DEF ReadBatch, SendPost, HaltOnUnauthorized, BeginRetry
  <2>4. CASE Cleanup
    BY <1>4, <2>4 DEF Cleanup
  <2> QED
    BY <1>7, <2>1, <2>2, <2>3, <2>4 DEF Pass, HandleAnswer
<1>8. CASE PassError \/ CleanupError \/ Server \/ Timeout
  BY <1>2, <1>8 DEF PassError, CleanupError, Server, AnswerOk, AnswerUnauthorized, AnswerServerError, AnswerPermanent, Answer, Timeout
<1>9. ASSUME NEW r \in late, ServeLate(r) PROVE (Rows \cup emits)' \subseteq Rows \cup emits
  BY <1>2, <1>9 DEF ServeLate, memoryVars
<1>10. CASE SignOutBegin \/ SignOut \/ SignOutFail
  BY <1>4, <1>10 DEF SignOutBegin, SignOut, SignOutWipe, SignOutRevoke, SignOutMint, SignOutRestart, SignOutFail
<1>11. CASE Crash \/ Launch
  BY <1>4, <1>11 DEF Crash, Launch
<1>12. CASE UNCHANGED vars
  BY <1>2, <1>12 DEF vars, memoryVars
<1>13. ASSUME NEW s \in Signals, EmitError(s) PROVE (Rows \cup emits)' \subseteq Rows \cup emits
  BY <1>13 DEF EmitError
<1> QED
  BY <1>1, <1>5, <1>6, <1>7, <1>8, <1>9, <1>10, <1>11, <1>12, <1>13 DEF Next, Emit

\* Only the cap check of emit() reserves a place, and it finds the queue below the cap.
LEMMA QueueStep ==
    ASSUME TypeOK, QueueInv, [Next]_vars
    PROVE  QueueInv'
<1> DEFINE Q == Rows \cup emits
<1>1. Rows \in SUBSET Signals /\ emits \in SUBSET Signals /\ Q \in SUBSET Signals
  BY DEF TypeOK, Rows
<1>2. QueueCap \in Nat /\ Emitters \in Nat
  BY ConstantsAssumption DEF ConstantsAssumption
<1>3. CASE EmitCheck
  <2>1. Q' = Q \cup {captured + 1}
    BY <1>3 DEF EmitCheck, Rows
  <2>2. Cardinality(Q') <= Cardinality(Q) + 1 /\ Cardinality(Q') \in Nat
    <3>1. IsFiniteSet(Q) /\ Cardinality(Q) \in Nat
      BY <1>1, SignalsFinite
    <3>2. Cardinality(Q \cup {captured + 1}) = IF captured + 1 \in Q THEN Cardinality(Q) ELSE Cardinality(Q) + 1
      BY <3>1, FS_AddElement
    <3> HIDE DEF Q
    <3> QED
      BY <2>1, <3>1, <3>2
  <2>3. Cardinality(Q) <= Cardinality(Rows) + Cardinality(emits)
    <3>1. /\ IsFiniteSet(Rows) /\ Cardinality(Rows) \in Nat
          /\ IsFiniteSet(emits) /\ Cardinality(emits) \in Nat
          /\ Cardinality(Rows \cap emits) \in Nat
      BY <1>1, SignalsFinite
    <3>2. Cardinality(Q) = Cardinality(Rows) + Cardinality(emits) - Cardinality(Rows \cap emits)
      BY <3>1, FS_Union
    <3> QED
      BY <3>1, <3>2
  <2>4. Cardinality(Rows) < QueueCap /\ Cardinality(emits) < Emitters
    BY <1>3 DEF EmitCheck, BelowCap
  <2>5. Cardinality(Q) \in Nat /\ Cardinality(Rows) \in Nat /\ Cardinality(emits) \in Nat
    BY <1>1, SignalsFinite
  <2> QED
    BY <1>2, <2>2, <2>3, <2>4, <2>5 DEF QueueInv
<1>4. CASE ~EmitCheck
  <2>1. Q' \in SUBSET Q
    BY <1>4, QueueGrowth
  <2>2. Cardinality(Q') <= Cardinality(Q) /\ Cardinality(Q') \in Nat /\ Cardinality(Q) \in Nat
    BY <1>1, <2>1, SignalsFinite, FS_Subset, FS_CardinalityType
  <2> QED
    BY <1>2, <2>2 DEF QueueInv
<1> QED
  BY <1>3, <1>4

\* The inductive invariant of the pipeline (SyncEngine, SignalService, SignOutController)
\* holds in every reachable state.
THEOREM SyncInvariant == Spec => []SyncInv
<1>1. Init => SyncInv
  BY CustodyInit, PassInit, QueueInit DEF SyncInv
<1>2. TypeOK /\ SyncInv /\ [Next]_vars => SyncInv'
  BY CustodyStep, PassPreserved, QueueStep DEF SyncInv
<1> QED
  BY <1>1, <1>2, TypeInvariant, PTL DEF Spec

(***************************************************************************)
(* Durability, for any number of signals, identities, faults and crashes.  *)
(***************************************************************************)
THEOREM Durability == Spec => []NoSilentLoss
<1>1. SyncInv => NoSilentLoss
  BY DEF SyncInv, CustodyInv
<1> QED
  BY <1>1, SyncInvariant, PTL

(***************************************************************************)
(* A live process never has an inflight row that no pass will put back.    *)
(***************************************************************************)
THEOREM InflightHeld == Spec => []InflightIsHeldByPass
<1>1. SyncInv => InflightIsHeldByPass
  BY DEF SyncInv, PassInv
<1> QED
  BY <1>1, SyncInvariant, PTL

(***************************************************************************)
(* However many emit() calls race on the cap check, the outbox holds at    *)
(* most one row beyond the cap for each but the last of them.              *)
(***************************************************************************)
THEOREM QueueBound == Spec => []QueueWithinCapPlusRace
<1>1. TypeOK /\ QueueInv => QueueWithinCapPlusRace
  <2> SUFFICES ASSUME TypeOK, QueueInv PROVE QueueWithinCapPlusRace
    OBVIOUS
  <2>1. Rows \cup emits \in SUBSET Signals /\ Rows \in SUBSET (Rows \cup emits)
    BY DEF TypeOK, Rows
  <2>2. Cardinality(Rows) <= Cardinality(Rows \cup emits) /\ Cardinality(Rows) \in Nat
        /\ Cardinality(Rows \cup emits) \in Nat
    BY <2>1, SignalsFinite, FS_Subset, FS_CardinalityType
  <2> QED
    BY <2>2, ConstantsAssumption DEF ConstantsAssumption, QueueInv, QueueWithinCapPlusRace
<1> QED
  BY <1>1, TypeInvariant, SyncInvariant, PTL DEF SyncInv

(***************************************************************************)
(* ON CONFLICT DO NOTHING: a stored signal keeps the user it was first     *)
(* stored under.                                                           *)
(***************************************************************************)
THEOREM FirstStoreWins == Spec => StoredNeverReassigned
<1> DEFINE Kept == \A s \in Signals : stored[s] # NoUser => stored'[s] = stored[s]
<1>1. ASSUME NEW S, NEW u, stored' = StoredBy(S, u) PROVE Kept
  BY <1>1 DEF StoredBy
<1>2. ASSUME [Next]_vars PROVE Kept \/ UNCHANGED stored
  <2>1. CASE Server
    BY <1>1, <2>1 DEF Server, AnswerOk, AnswerUnauthorized, AnswerServerError, AnswerPermanent, Answer
  <2>2. ASSUME NEW r \in late, ServeLate(r) PROVE Kept
    BY <1>1, <2>2 DEF ServeLate
  <2>3. CASE Emit \/ Triggers
    BY <2>3 DEF Emit, EmitCheck, EmitEnqueue, EmitError, Triggers, TimerTick, Resume, ConnectivityRegained, RefreshSyncStatus
  <2>4. CASE (\E s \in Signals : BackoffExpires(s)) \/ PassError \/ CleanupError \/ Timeout
    BY <2>4 DEF BackoffExpires, PassError, CleanupError, Timeout
  <2>5. CASE Pass
    BY <2>5 DEF Pass, ReadBatch, MarkInflight, SendPost, HandleAnswer, DeleteSynced, HaltOnUnauthorized,
                BeginRetry, MarkFailedAll, MarkFailedOne, MarkRetryOne, Cleanup
  <2>6. CASE SignOutBegin \/ SignOut \/ SignOutFail
    BY <2>6 DEF SignOutBegin, SignOut, SignOutWipe, SignOutRevoke, SignOutMint, SignOutRestart, SignOutFail
  <2>7. CASE Crash \/ Launch \/ UNCHANGED vars
    BY <2>7 DEF Crash, Launch, vars
  <2> QED
    BY <1>2, <2>1, <2>2, <2>3, <2>4, <2>5, <2>6, <2>7 DEF Next
<1>3. [Next]_vars => [Kept]_stored
  BY <1>2
<1> QED
  BY <1>3, PTL DEF Spec, StoredNeverReassigned

(***************************************************************************)
(* A permanently failed row is never queued or sent again.                 *)
(***************************************************************************)
THEOREM FailedIsFinal == Spec => FailedStaysFailed
<1> DEFINE Final == \A s \in Signals : outbox[s] = "failed_permanent" => outbox'[s] \in {"failed_permanent", "absent"}
<1>1. ASSUME TypeOK, SyncInv, [Next]_vars PROVE Final
  <2> USE DEF SyncInv
  <2>1. ASSUME NEW S, NEW state, outbox' = Written(S, state),
               \/ state \in {"failed_permanent", "absent"}
               \/ \A s \in S : outbox[s] # "failed_permanent"
        PROVE Final
    BY <2>1 DEF Written, PresentIn
  <2>2. CASE UNCHANGED outbox \/ outbox' = RecoverInflight \/ outbox' = WipedOutbox
    BY <2>2 DEF RecoverInflight, WipedOutbox
  <2>3. ASSUME NEW s \in Signals, EmitEnqueue(s) PROVE Final
    BY <1>1, <2>3 DEF EmitEnqueue, CustodyInv, Rows, TypeOK
  <2>4. CASE Pass
    <3>1. CASE MarkInflight
      BY <1>1, <2>1, <3>1 DEF MarkInflight, MarkedInflight, PassInv
    <3>2. ASSUME NEW s \in Signals, MarkRetryOne(s) PROVE Final
      <4>1. outbox[s] # "failed_permanent"
        BY <1>1, <3>2 DEF MarkRetryOne, PassInv
      <4> QED
        BY <2>1, <3>2, <4>1 DEF MarkRetryOne
    <3>3. CASE DeleteSynced \/ MarkFailedAll
      BY <2>1, <3>3 DEF DeleteSynced, MarkFailedAll
    <3>4. ASSUME NEW s \in Signals, MarkFailedOne(s) PROVE Final
      BY <2>1, <3>4 DEF MarkFailedOne
    <3>5. CASE ReadBatch \/ SendPost \/ HaltOnUnauthorized \/ BeginRetry \/ Cleanup
      BY <2>2, <3>5 DEF ReadBatch, SendPost, HaltOnUnauthorized, BeginRetry, Cleanup
    <3> QED
      BY <2>4, <3>1, <3>2, <3>3, <3>4, <3>5 DEF Pass, HandleAnswer
  <2>5. CASE EmitCheck \/ Triggers \/ \E s \in Signals : BackoffExpires(s) \/ EmitError(s)
    BY <2>2, <2>5 DEF EmitCheck, EmitError, Triggers, TimerTick, Resume, ConnectivityRegained, RefreshSyncStatus, BackoffExpires
  <2>6. CASE PassError \/ CleanupError \/ Server \/ Timeout \/ \E r \in late : ServeLate(r)
    BY <2>2, <2>6 DEF PassError, CleanupError, Server, AnswerOk, AnswerUnauthorized, AnswerServerError,
                      AnswerPermanent, Answer, Timeout, ServeLate
  <2>7. CASE SignOutBegin \/ SignOut \/ SignOutFail \/ Crash \/ Launch \/ UNCHANGED vars
    BY <2>2, <2>7 DEF SignOutBegin, SignOut, SignOutWipe, SignOutRevoke, SignOutMint, SignOutRestart,
                      SignOutFail, Crash, Launch, vars
  <2> QED
    BY <1>1, <2>3, <2>4, <2>5, <2>6, <2>7 DEF Next, Emit
<1>2. TypeOK /\ SyncInv /\ [Next]_vars => [Final]_outbox
  BY <1>1
<1> QED
  BY <1>2, TypeInvariant, SyncInvariant, PTL DEF Spec, FailedStaysFailed

(***************************************************************************)
(* The pipeline implements SignalCustody: each step is a custody step or   *)
(* changes nothing custody can see.                                        *)
(***************************************************************************)
LEMMA CustodyInitRefined == Init => Custody!Init
BY DEF Init, Custody!Init, Rows

\* ON CONFLICT DO NOTHING on rows that were accepted is the custody's Store.
LEMMA StoringRefined ==
    ASSUME TypeOK, NEW S \in SUBSET accepted, NEW u \in Users, stored' = StoredBy(S, u),
           UNCHANGED <<outbox, accepted, wiped>>
    PROVE  Custody!Store(S)
BY DEF TypeOK, StoredBy, Custody!Store, Rows, Users, NoUser

\* A step that only moves rows between states, or frees stored ones.
LEMMA RowsRefined ==
    ASSUME TypeOK, UNCHANGED <<stored, accepted, wiped>>,
           NEW D \in SUBSET Signals, \A s \in D : stored[s] # NoUser, Rows' = Rows \ D
    PROVE  Custody!Release(D)
BY DEF Custody!Release

\* Every step of the pipeline is a step of the custody, or none.
LEMMA CustodyStepRefined ==
    ASSUME TypeOK, SyncInv, [Next]_vars
    PROVE  [Custody!Next]_(Custody!vars)
<1> DEFINE Invisible == UNCHANGED <<Rows, stored, accepted, wiped>>
<1>1. Invisible => UNCHANGED Custody!vars
  BY DEF Custody!vars
<1>2. ASSUME NEW S \in SUBSET accepted, NEW u \in Users, stored' = StoredBy(S, u), UNCHANGED <<outbox, accepted, wiped>>
      PROVE Custody!Next
  BY <1>2, StoringRefined DEF Custody!Next, TypeOK
<1>3. ASSUME NEW S, NEW state, state # "absent", outbox' = Written(S, state) PROVE UNCHANGED Rows
  BY <1>3 DEF Written, PresentIn, Rows
<1>4. outbox' = RecoverInflight => UNCHANGED Rows
  BY DEF RecoverInflight, Rows
<1>5. UNCHANGED outbox => UNCHANGED Rows
  BY DEF Rows
<1>6. CASE EmitCheck \/ Triggers
  BY <1>1, <1>5, <1>6 DEF EmitCheck, Triggers, TimerTick, Resume, ConnectivityRegained, RefreshSyncStatus, historyVars
<1>7. ASSUME NEW s \in Signals, EmitEnqueue(s) PROVE Custody!Next
  <2>1. s \notin accepted
    BY <1>7 DEF EmitEnqueue, SyncInv, CustodyInv
  <2>2. Rows' = Rows \cup {s}
    BY <1>7 DEF EmitEnqueue, Rows, TypeOK
  <2>3. Custody!Accept(s)
    BY <1>7, <2>1, <2>2 DEF EmitEnqueue, Custody!Accept
  <2> QED
    BY <2>3 DEF Custody!Next
<1>8. ASSUME NEW s \in Signals, BackoffExpires(s) PROVE Invisible
  BY <1>5, <1>8 DEF BackoffExpires, historyVars
<1>9. CASE Pass
  <2>1. CASE DeleteSynced
    <3>1. SyncedIds \in SUBSET Signals /\ \A s \in SyncedIds : stored[s] # NoUser
      BY <2>1 DEF DeleteSynced, Answered, SyncedIds, SyncInv, CustodyInv, TypeOK
    <3>2. Rows' = Rows \ SyncedIds
      BY <2>1 DEF DeleteSynced, Written, PresentIn, Rows, TypeOK
    <3>3. Custody!Release(SyncedIds)
      BY <2>1, <3>1, <3>2, RowsRefined DEF DeleteSynced, historyVars
    <3> QED
      BY <3>1, <3>3 DEF Custody!Next
  <2>2. CASE MarkInflight \/ MarkFailedAll \/ \E s \in Signals : MarkFailedOne(s) \/ MarkRetryOne(s)
    BY <1>1, <1>3, <2>2 DEF MarkInflight, MarkedInflight, MarkFailedAll, MarkFailedOne, MarkRetryOne, historyVars
  <2>3. CASE ReadBatch \/ SendPost \/ HaltOnUnauthorized \/ BeginRetry
    BY <1>1, <1>5, <2>3 DEF ReadBatch, SendPost, HaltOnUnauthorized, BeginRetry, historyVars
  <2>4. CASE Cleanup
    BY <1>1, <1>4, <2>4 DEF Cleanup, historyVars
  <2> QED
    BY <1>9, <2>1, <2>2, <2>3, <2>4 DEF Pass, HandleAnswer
<1>10. CASE PassError \/ CleanupError \/ Timeout
  BY <1>1, <1>5, <1>10 DEF PassError, CleanupError, Timeout, historyVars
<1>11. CASE Server
  <2>1. ASSUME NEW kind, NEW rej, NEW S \in SUBSET batch, sender # NoUser, Answer(kind, rej, S) PROVE Custody!Next
    <3>1. S \in SUBSET accepted /\ sender \in Users
      BY <2>1 DEF SyncInv, CustodyInv, TypeOK
    <3> QED
      BY <1>2, <2>1, <3>1 DEF Answer, historyVars
  <2>2. ASSUME Answer("unauthorized", {}, {}) PROVE Invisible
    <3>1. stored' = stored
      BY <2>2 DEF Answer, StoredBy, TypeOK
    <3> QED
      BY <1>5, <2>2, <3>1 DEF Answer, historyVars
  <2>3. CASE AnswerOk
    BY <2>1, <2>3 DEF AnswerOk
  <2>4. CASE AnswerUnauthorized
    BY <1>1, <2>2, <2>4 DEF AnswerUnauthorized
  <2>5. CASE AnswerServerError \/ AnswerPermanent
    BY <2>1, <2>5 DEF AnswerServerError, AnswerPermanent
  <2> QED
    BY <1>11, <2>3, <2>4, <2>5 DEF Server
<1>12. ASSUME NEW r \in late, ServeLate(r) PROVE Custody!Next
  <2>1. \A S \in SUBSET r.batch : S \in SUBSET accepted
    BY DEF SyncInv, CustodyInv
  <2>2. r.user \in Users
    BY DEF TypeOK, Request
  <2> QED
    BY <1>2, <1>12, <2>1, <2>2 DEF ServeLate, historyVars
<1>13. CASE SignOutWipe
  <2>1. Rows' = {}
    BY <1>13 DEF SignOutWipe, WipedOutbox, Rows
  <2> QED
    BY <1>13, <2>1 DEF SignOutWipe, Custody!Next, Custody!Wipe
<1>14. CASE SignOutBegin \/ SignOutRevoke \/ SignOutMint \/ SignOutFail \/ Crash
  BY <1>1, <1>5, <1>14 DEF SignOutBegin, SignOutRevoke, SignOutMint, SignOutFail, Crash, historyVars
<1>15. CASE SignOutRestart \/ Launch
  BY <1>1, <1>4, <1>15 DEF SignOutRestart, Launch, historyVars
<1>16. CASE UNCHANGED vars
  BY <1>1, <1>5, <1>16 DEF vars, historyVars
<1>17. ASSUME NEW s \in Signals, EmitError(s) PROVE Invisible
  BY <1>5, <1>17 DEF EmitError, historyVars
<1> QED
  BY <1>1, <1>6, <1>7, <1>8, <1>9, <1>10, <1>11, <1>12, <1>13, <1>14, <1>15, <1>16, <1>17 DEF Next, Emit, SignOut

\* The pipeline keeps the custody of signals that SignalCustody promises.
THEOREM Refinement == Spec => ImplementsCustody
<1>1. TypeOK /\ SyncInv /\ [Next]_vars => [Custody!Next]_(Custody!vars)
  BY CustodyStepRefined
<1> QED
  BY <1>1, CustodyInitRefined, TypeInvariant, SyncInvariant, PTL DEF Spec, ImplementsCustody, Custody!Spec

(***************************************************************************)
(* Whose signals the device, a request and the server hold.                *)
(***************************************************************************)
LEMMA OwnersInit == Init => OwnersInv
BY DEF Init, OwnersInv, OwnedOrCrossing, OnlyHeldSignalsCross, HeldUnmarked, Rows

LEMMA OwnersStep ==
    ASSUME TypeOK, CustodyInv, PassInv, OwnersInv, [Next]_vars
    PROVE  OwnersInv'
<1> USE DEF OwnersInv, OwnedOrCrossing, OnlyHeldSignalsCross, HeldUnmarked, Rows
<1>1. CASE EmitCheck
  <2>1. captured \in Nat /\ captured + 1 \in Signals /\ session \in Users \cup {NoUser}
    BY <1>1, ConstantsAssumption DEF EmitCheck, TypeOK, ConstantsAssumption, Signals
  <2>2. \A s \in Signals : s <= captured => owner'[s] = owner[s]
    BY <1>1, <2>1 DEF EmitCheck, TypeOK
  <2>3. owner'[captured + 1] = session
    BY <1>1, <2>1 DEF EmitCheck, TypeOK
  <2>4. \A s \in accepted \cup emits : s \in Signals /\ s <= captured
    BY <2>1 DEF CustodyInv, TypeOK
  <2>5. \A s \in Signals : stored[s] # NoUser => s <= captured /\ s <= captured'
    BY <1>1, <2>1 DEF EmitCheck, Signals
  <2>6. UNCHANGED <<session, outbox, pass, batch, sender, late, stored, signOut>> /\ crossing \subseteq crossing'
    BY <1>1 DEF EmitCheck
  <2>7. \A s \in Rows \cup emits \cup batch : owner'[s] = owner[s]
    BY <2>2, <2>4 DEF CustodyInv
  <2>8. \A r \in late : \A s \in r.batch : owner'[s] = owner[s]
    BY <2>2, <2>4 DEF CustodyInv
  <2>9. OwnedOrCrossing(Rows \cup emits, session)'
    BY <1>1, <2>3, <2>6, <2>7 DEF EmitCheck
  <2>10. (signOut = "revoke" => Rows \cup emits \cup HeldUnmarked \subseteq crossing)'
    BY <1>1 DEF EmitCheck
  <2>11. OnlyHeldSignalsCross'
    BY <2>2, <2>5, <2>6
  <2> QED
    BY <2>5, <2>6, <2>7, <2>8, <2>9, <2>10, <2>11
<1>2. ASSUME NEW s \in Signals, EmitEnqueue(s) PROVE OwnersInv'
  BY <1>2 DEF EmitEnqueue, SyncOnce, CanStart, TypeOK, budgetVars
<1>3. CASE Triggers
  BY <1>3 DEF Triggers, TimerTick, Resume, ConnectivityRegained, RefreshSyncStatus, SyncOnce, CanStart, budgetVars, historyVars
<1>4. ASSUME NEW s \in Signals, BackoffExpires(s) PROVE OwnersInv'
  BY <1>4 DEF BackoffExpires, memoryVars, budgetVars, historyVars
<1>5. CASE ReadBatch
  <2>1. batch' \subseteq Rows
    BY <1>5, OldestIsSubset DEF ReadBatch, Eligible
  <2> QED
    BY <1>5, <2>1 DEF ReadBatch, budgetVars, historyVars
<1>6. CASE MarkInflight
  BY <1>6 DEF MarkInflight, MarkedInflight, Written, PresentIn, TypeOK, budgetVars, historyVars
<1>7. CASE SendPost
  BY <1>7 DEF SendPost, budgetVars, historyVars
<1>8. CASE Server
  <2>1. ASSUME NEW kind, NEW rej, NEW S \in SUBSET batch, Answer(kind, rej, S), sender # NoUser \/ S = {}
        PROVE  OwnersInv'
    <3>1. /\ \A s \in S : owner[s] \in {NoUser, sender} \/ s \in crossing
          /\ \A s \in batch : s <= captured
      BY <2>1 DEF Answer, CustodyInv, TypeOK
    <3>2. \A s \in Signals : stored'[s] = IF s \in S /\ stored[s] = NoUser THEN sender ELSE stored[s]
      BY <2>1 DEF Answer, StoredBy
    <3> QED
      BY <2>1, <3>1, <3>2 DEF Answer, historyVars
  <2>2. \E kind, rej : \E S \in SUBSET batch : Answer(kind, rej, S) /\ (sender # NoUser \/ S = {})
    <3>1. {} \in SUBSET batch /\ \A rej \in SUBSET batch : batch \ rej \in SUBSET batch
      OBVIOUS
    <3>2. CASE AnswerOk \/ AnswerServerError
      BY <3>1, <3>2 DEF AnswerOk, AnswerServerError
    <3>3. CASE AnswerUnauthorized \/ AnswerPermanent
      BY <3>1, <3>3 DEF AnswerUnauthorized, AnswerPermanent
    <3> QED
      BY <1>8, <3>2, <3>3 DEF Server
  <2> QED
    BY <2>1, <2>2
<1>9. CASE Timeout
  BY <1>9 DEF Timeout, historyVars
<1>10. ASSUME NEW r \in late, ServeLate(r) PROVE OwnersInv'
  <2>1. PICK S \in SUBSET r.batch : stored' = StoredBy(S, r.user)
    BY <1>10 DEF ServeLate
  <2>2. \A s \in Signals : stored'[s] = IF s \in S /\ stored[s] = NoUser THEN r.user ELSE stored[s]
    BY <2>1 DEF StoredBy
  <2>3. \A s \in S : s <= captured /\ (owner[s] \in {NoUser, r.user} \/ s \in crossing)
    BY <1>10, <2>1 DEF CustodyInv, TypeOK
  <2> QED
    BY <1>10, <2>2, <2>3 DEF ServeLate, memoryVars, budgetVars, historyVars
<1>11. CASE DeleteSynced
  BY <1>11 DEF DeleteSynced, Answered, Written, PresentIn, SyncedIds, AnswerConsumed, TypeOK, budgetVars, historyVars
<1>12. CASE HaltOnUnauthorized
  BY <1>12 DEF HaltOnUnauthorized, Answered, AnswerConsumed, budgetVars, historyVars
<1>13. CASE BeginRetry
  BY <1>13 DEF BeginRetry, AnswerConsumed, budgetVars, historyVars
<1>14. CASE MarkFailedAll
  BY <1>14 DEF MarkFailedAll, Answered, Written, PresentIn, AnswerConsumed, TypeOK, budgetVars, historyVars
<1>15. ASSUME NEW s \in Signals, MarkFailedOne(s) \/ MarkRetryOne(s) PROVE OwnersInv'
  BY <1>15 DEF MarkFailedOne, MarkRetryOne, Written, PresentIn, TypeOK, budgetVars, historyVars
<1>16. CASE Cleanup
  BY <1>16 DEF Cleanup, RecoverInflight, TypeOK, budgetVars, historyVars
<1>17. CASE PassError \/ CleanupError
  BY <1>17 DEF PassError, CleanupError, AnswerConsumed, historyVars
<1>18. CASE SignOutBegin \/ SignOutFail
  BY <1>18 DEF SignOutBegin, SignOutFail, budgetVars, historyVars
<1>19. CASE SignOutWipe
  BY <1>19 DEF SignOutWipe, WipedOutbox, budgetVars
<1>20. CASE SignOutRevoke
  BY <1>20 DEF SignOutRevoke, budgetVars, historyVars
<1>21. CASE SignOutMint
  BY <1>21 DEF SignOutMint, budgetVars, historyVars
<1>22. CASE SignOutRestart
  BY <1>22 DEF SignOutRestart, RecoverInflight, SyncOnce, CanStart, TypeOK, budgetVars, historyVars
<1>23. CASE Crash
  BY <1>23 DEF Crash, historyVars
<1>24. CASE Launch
  BY <1>24 DEF Launch, RecoverInflight, PassInv, TypeOK, budgetVars, historyVars
<1>25. CASE UNCHANGED vars
  BY <1>25 DEF vars, memoryVars, budgetVars, historyVars
<1>26. ASSUME NEW s \in Signals, EmitError(s) PROVE OwnersInv'
  BY <1>26 DEF EmitError, historyVars
<1> QED
  BY <1>1, <1>2, <1>3, <1>4, <1>5, <1>6, <1>7, <1>8, <1>9, <1>10, <1>11, <1>12, <1>13, <1>14, <1>15,
     <1>16, <1>17, <1>18, <1>19, <1>20, <1>21, <1>22, <1>23, <1>24, <1>25, <1>26
  DEF Next, Emit, Pass, HandleAnswer, SignOut

(***************************************************************************)
(* However sign-outs, passes, emits, late requests and crashes interleave, *)
(* no queued row ever crosses to another user: only what an emit or an     *)
(* unmarked pass held in memory at a wipe, or what was captured after it.  *)
(***************************************************************************)
THEOREM Attribution == Spec => []OnlyHeldSignalsCross
<1>1. TypeOK /\ SyncInv /\ OwnersInv /\ [Next]_vars => OwnersInv'
  BY OwnersStep DEF SyncInv
<1>2. OwnersInv => OnlyHeldSignalsCross
  BY DEF OwnersInv
<1> QED
  BY <1>1, <1>2, OwnersInit, TypeInvariant, SyncInvariant, PTL DEF Spec

(***************************************************************************)
(* A sign-out with the device to itself: nothing runs beside it.           *)
(***************************************************************************)
LEMMA QuietInit == Init => QuietInv
BY DEF Init, QuietInv

LEMMA QuietStep ==
    ASSUME QuietSignOut, TypeOK, PassInv, QuietInv, [Next]_vars
    PROVE  QuietInv'
<1> USE DEF QuietInv, Rows
<1>1. CASE EmitCheck
  BY <1>1 DEF EmitCheck, budgetVars
<1>2. ASSUME NEW s \in Signals, EmitEnqueue(s) PROVE QuietInv'
  BY <1>2 DEF EmitEnqueue, SyncOnce, CanStart, budgetVars
<1>3. CASE Triggers
  BY <1>3 DEF Triggers, TimerTick, Resume, ConnectivityRegained, RefreshSyncStatus, SyncOnce, CanStart, budgetVars, historyVars
<1>4. ASSUME NEW s \in Signals, BackoffExpires(s) PROVE QuietInv'
  BY <1>4 DEF BackoffExpires, memoryVars, budgetVars, historyVars
<1>5. CASE ReadBatch
  BY <1>5 DEF ReadBatch, budgetVars, historyVars
<1>6. CASE MarkInflight \/ SendPost
  BY <1>6 DEF MarkInflight, SendPost, budgetVars, historyVars
<1>7. CASE Server
  <2>1. ASSUME NEW kind, NEW rej, NEW S, Answer(kind, rej, S) PROVE QuietInv'
    BY <2>1 DEF Answer, historyVars
  <2> QED
    BY <1>7, <2>1 DEF Server, AnswerOk, AnswerUnauthorized, AnswerServerError, AnswerPermanent
<1>8. CASE Timeout
  BY <1>8 DEF Timeout, historyVars
<1>9. ASSUME NEW r \in late, ServeLate(r) PROVE QuietInv'
  BY <1>9 DEF ServeLate, memoryVars, budgetVars, historyVars
<1>10. CASE DeleteSynced \/ BeginRetry \/ MarkFailedAll
  BY <1>10 DEF DeleteSynced, BeginRetry, MarkFailedAll, Answered, AnswerConsumed, budgetVars, historyVars
<1>11. CASE HaltOnUnauthorized
  BY <1>11 DEF HaltOnUnauthorized, Answered, PassInv, budgetVars, historyVars
<1>12. ASSUME NEW s \in Signals, MarkFailedOne(s) \/ MarkRetryOne(s) PROVE QuietInv'
  BY <1>12 DEF MarkFailedOne, MarkRetryOne, budgetVars, historyVars
<1>13. CASE Cleanup \/ PassError \/ CleanupError
  BY <1>13 DEF Cleanup, PassError, CleanupError, budgetVars, historyVars
<1>14. CASE SignOutBegin
  BY <1>14 DEF SignOutBegin, budgetVars, historyVars
<1>15. CASE SignOutRevoke \/ SignOutFail \/ SignOutMint
  BY <1>15 DEF SignOutRevoke, SignOutFail, SignOutMint, PassInv, budgetVars, historyVars
<1>16. CASE SignOutWipe
  BY <1>16 DEF SignOutWipe, HeldUnmarked, budgetVars
<1>17. CASE SignOutRestart
  BY <1>17 DEF SignOutRestart, PassInv, budgetVars, historyVars
<1>18. CASE Crash
  BY <1>18 DEF Crash, historyVars
<1>19. CASE Launch
  BY <1>19 DEF Launch, PassInv, budgetVars, historyVars
<1>20. CASE UNCHANGED vars
  BY <1>20 DEF vars, memoryVars, budgetVars, historyVars
<1>21. ASSUME NEW s \in Signals, EmitError(s) PROVE QuietInv'
  BY <1>21 DEF EmitError, historyVars
<1> QED
  BY <1>1, <1>2, <1>3, <1>4, <1>5, <1>6, <1>7, <1>8, <1>9, <1>10, <1>11, <1>12, <1>13, <1>14, <1>15,
     <1>16, <1>17, <1>18, <1>19, <1>20, <1>21
  DEF Next, Emit, Pass, HandleAnswer, SignOut

\* A device that stands still for its sign-outs leaves nothing in memory to
\* cross, so every signal is stored under the user it was captured under.
LEMMA QuietAttribution == QuietSignOut => (Spec => []AttributionHolds)
<1> SUFFICES ASSUME QuietSignOut PROVE Spec => []AttributionHolds
  OBVIOUS
<1>1. TypeOK /\ SyncInv /\ QuietInv /\ [Next]_vars => QuietInv'
  BY QuietStep DEF SyncInv
<1>2. QuietInv /\ OnlyHeldSignalsCross => AttributionHolds
  BY DEF QuietInv, OnlyHeldSignalsCross, AttributionHolds
<1> QED
  BY <1>1, <1>2, QuietInit, TypeInvariant, SyncInvariant, Attribution, PTL DEF Spec

=============================================================================
