-------------------------- MODULE AnswerPathProofs --------------------------
(***************************************************************************)
(* Proofs about AnswerPath, for every number of travellers, workers and    *)
(* models, and all caps and costs.                                         *)
(***************************************************************************)
EXTENDS AnswerPath, FiniteSetTheorems, TLAPS

Ledgers == [Identities \cup {Process} -> Int]
Requests == [Workers -> Calls \cup {NoCall}]

\* The completions of requests q that a bucket will be charged for.
OpenIn(q, b) == {w \in Workers : q[w] # NoCall /\ (b = Process \/ q[w].user = b)}

\* Bucket b of ledger s, with what q can still cost it, stays below the overshoot.
BucketBounded(s, q, b, cap) ==
    s[b] + Cardinality(OpenIn(q, b)) * MaxCost < cap + Cardinality(Workers) * MaxCost

Bounded(s, q) ==
    /\ BucketBounded(s, q, Process, ProcessCap)
    /\ \A u \in Users : BucketBounded(s, q, u, IdentityCap)
    /\ s[Anonymous] < IdentityCap

SpendInv ==
    /\ at \in [Users -> Places] /\ version \in [Users -> Nat]
    /\ spent \in Ledgers /\ request \in Requests
    /\ Bounded(spent, request)

-----------------------------------------------------------------------------
(* Arithmetic and counting *)

LEMMA TimesMonotone ==
    ASSUME NEW a \in Nat, NEW b \in Nat, NEW c \in Nat, a <= b
    PROVE  a * c <= b * c /\ a * c \in Nat /\ b * c \in Nat
  OBVIOUS

LEMMA TimesLess ==
    ASSUME NEW a \in Nat, NEW b \in Nat, NEW c \in Nat, a < b
    PROVE  a * c + c <= b * c /\ a * c \in Nat /\ b * c \in Nat
  <1>1. (a + 1) * c <= b * c /\ b * c \in Nat
    BY TimesMonotone, a + 1 \in Nat, a + 1 <= b
  <1>2. (a + 1) * c = a * c + c
    OBVIOUS
  <1> QED BY <1>1, <1>2

LEMMA Buckets == Anonymous # Process /\ Process \notin Users /\ Anonymous \notin Users
  BY SpendAssumption DEF Identities

\* Fewer calls are open than there are workers, and fewer in a smaller set of requests.
LEMMA OpenIsFinite ==
    ASSUME NEW q, NEW b
    PROVE  /\ IsFiniteSet(OpenIn(q, b))
           /\ Cardinality(OpenIn(q, b)) \in Nat /\ Cardinality(Workers) \in Nat
           /\ Cardinality(OpenIn(q, b)) <= Cardinality(Workers)
  <1>1. OpenIn(q, b) \subseteq Workers
    BY DEF OpenIn
  <1> QED BY <1>1, SpendAssumption, FS_Subset, FS_CardinalityType

\* A bucket that is below its cap is bounded, whatever is open.
LEMMA BelowCap ==
    ASSUME NEW s, NEW q, NEW b, NEW cap \in Nat, s[b] \in Int, s[b] < cap
    PROVE  BucketBounded(s, q, b, cap)
  <1>1. Cardinality(OpenIn(q, b)) * MaxCost <= Cardinality(Workers) * MaxCost
        /\ Cardinality(OpenIn(q, b)) * MaxCost \in Nat /\ Cardinality(Workers) * MaxCost \in Nat
    BY OpenIsFinite, TimesMonotone, SpendAssumption
  <1> QED BY <1>1 DEF BucketBounded

\* A bucket stays bounded if no more is spent and no more calls are open.
LEMMA FewerOpen ==
    ASSUME NEW s, NEW t, NEW q, NEW p, NEW b, NEW cap \in Nat, s[b] \in Int, t[b] \in Int,
           BucketBounded(s, q, b, cap), t[b] <= s[b], OpenIn(p, b) \subseteq OpenIn(q, b)
    PROVE  BucketBounded(t, p, b, cap)
  <1>1. Cardinality(OpenIn(p, b)) <= Cardinality(OpenIn(q, b))
    BY OpenIsFinite, FS_Subset
  <1>2. Cardinality(OpenIn(p, b)) * MaxCost <= Cardinality(OpenIn(q, b)) * MaxCost
        /\ Cardinality(OpenIn(p, b)) * MaxCost \in Nat /\ Cardinality(OpenIn(q, b)) * MaxCost \in Nat
    BY <1>1, OpenIsFinite, TimesMonotone, SpendAssumption
  <1>3. Cardinality(Workers) * MaxCost \in Nat
    BY OpenIsFinite, TimesMonotone, SpendAssumption
  <1> QED BY <1>2, <1>3 DEF BucketBounded

\* A call that ends makes room for what it costs.
LEMMA OneLessOpen ==
    ASSUME NEW s, NEW t, NEW q, NEW p, NEW b, NEW cap \in Nat, NEW usd \in 0 .. MaxCost, s[b] \in Int,
           BucketBounded(s, q, b, cap), t[b] = s[b] + usd,
           NEW w \in OpenIn(q, b), OpenIn(p, b) = OpenIn(q, b) \ {w}
    PROVE  BucketBounded(t, p, b, cap)
  <1>1. Cardinality(OpenIn(p, b)) < Cardinality(OpenIn(q, b))
    <2>1. Cardinality(OpenIn(q, b) \ {w}) = Cardinality(OpenIn(q, b)) - 1
      BY OpenIsFinite, FS_RemoveElement
    <2> QED BY <2>1, OpenIsFinite
  <1>2. Cardinality(OpenIn(p, b)) * MaxCost + MaxCost <= Cardinality(OpenIn(q, b)) * MaxCost
        /\ Cardinality(OpenIn(p, b)) * MaxCost \in Nat /\ Cardinality(OpenIn(q, b)) * MaxCost \in Nat
    BY <1>1, OpenIsFinite, TimesLess, SpendAssumption
  <1>3. Cardinality(Workers) * MaxCost \in Nat /\ MaxCost \in Nat
    BY OpenIsFinite, TimesMonotone, SpendAssumption
  <1> QED BY <1>2, <1>3 DEF BucketBounded

-----------------------------------------------------------------------------
(* What the operators of the ledger keep *)

LEMMA ClosingKeeps ==
    ASSUME NEW s \in Ledgers, NEW q \in Requests, NEW w \in Workers, Bounded(s, q)
    PROVE  Bounded(s, [q EXCEPT ![w] = NoCall]) /\ [q EXCEPT ![w] = NoCall] \in Requests
  <1> DEFINE p == [q EXCEPT ![w] = NoCall]
  <1>1. p \in Requests
    BY DEF Requests
  <1>2. \A b : OpenIn(p, b) \subseteq OpenIn(q, b)
    BY <1>1 DEF OpenIn, Requests
  <1>3. \A b \in Identities \cup {Process} : s[b] \in Int
    BY DEF Ledgers
  <1> HIDE DEF p
  <1>4. BucketBounded(s, p, Process, ProcessCap)
    <2>1. s[Process] \in Int /\ s[Process] <= s[Process] /\ OpenIn(p, Process) \subseteq OpenIn(q, Process)
          /\ BucketBounded(s, q, Process, ProcessCap)
      BY <1>2, <1>3 DEF Bounded
    <2> QED BY <2>1, FewerOpen, SpendAssumption
  <1>5. ASSUME NEW u \in Users PROVE BucketBounded(s, p, u, IdentityCap)
    <2>1. s[u] \in Int /\ BucketBounded(s, q, u, IdentityCap)
      BY <1>3 DEF Bounded, Identities
    <2>2. s[u] <= s[u] /\ OpenIn(p, u) \subseteq OpenIn(q, u)
      BY <2>1, <1>2
    <2> QED BY <2>1, <2>2, FewerOpen, SpendAssumption
  <1> QED BY <1>1, <1>4, <1>5 DEF Bounded, p

LEMMA OpeningKeeps ==
    ASSUME NEW s \in Ledgers, NEW q \in Requests, NEW w \in Workers, NEW r \in Calls,
           Bounded(s, q), Fits(s, r.user, Reserve)
    PROVE  Bounded(s, [q EXCEPT ![w] = r]) /\ [q EXCEPT ![w] = r] \in Requests
  <1> DEFINE p == [q EXCEPT ![w] = r]
  <1>1. p \in Requests
    BY DEF Requests
  <1>2. r.user \in Users
    BY DEF Calls
  <1>3. \A b \in Identities \cup {Process} : s[b] \in Int
    BY DEF Ledgers
  <1>4. s[Process] < ProcessCap /\ s[r.user] < IdentityCap
    BY <1>2, <1>3, SpendAssumption DEF Fits, Identities
  <1>5. BucketBounded(s, p, Process, ProcessCap)
    BY <1>3, <1>4, BelowCap, SpendAssumption
  <1>6. ASSUME NEW u \in Users PROVE BucketBounded(s, p, u, IdentityCap)
    <2>1. s[u] \in Int /\ BucketBounded(s, q, u, IdentityCap)
      BY <1>3 DEF Bounded, Identities
    <2>2. CASE u = r.user
      BY <2>1, <2>2, <1>4, BelowCap, SpendAssumption
    <2>3. CASE u # r.user
      <3>1. OpenIn(p, u) \subseteq OpenIn(q, u)
        BY <2>3, <1>1, Buckets DEF OpenIn, Requests
      <3>2. s[u] <= s[u]
        BY <2>1
      <3> HIDE DEF p
      <3> QED BY <3>1, <3>2, <2>1, FewerOpen, SpendAssumption
    <2> QED BY <2>2, <2>3
  <1> QED BY <1>1, <1>5, <1>6 DEF Bounded

LEMMA EmbeddingKeeps ==
    ASSUME NEW s \in Ledgers, NEW q \in Requests, NEW space,
           Bounded(s, q), Fits(s, Anonymous, EmbedCost)
    PROVE  Bounded(Embedded(s, space), q) /\ Embedded(s, space) \in Ledgers
  <1> DEFINE t == Charge(s, Anonymous, EmbedCost)
  <1>1. CASE space # "real"
    BY <1>1 DEF Embedded
  <1>2. CASE space = "real"
    <2>1. Embedded(s, space) = t
      BY <1>2 DEF Embedded
    <2>2. \A b \in Identities \cup {Process} : s[b] \in Int
      BY DEF Ledgers
    <2>3. t \in Ledgers
      BY <2>2, SpendAssumption DEF Charge, Ledgers, Identities
    <2>4. t[Process] = s[Process] + EmbedCost /\ t[Anonymous] = s[Anonymous] + EmbedCost
      BY <2>2, Buckets DEF Charge, Ledgers, Identities
    <2>5. \A u \in Users : t[u] = s[u]
      BY <2>2, Buckets DEF Charge, Ledgers, Identities
    <2>6. BucketBounded(t, q, Process, ProcessCap) /\ t[Anonymous] < IdentityCap
      BY <2>2, <2>4, BelowCap, SpendAssumption DEF Fits, Identities
    <2>7. \A u \in Users : BucketBounded(t, q, u, IdentityCap)
      BY <2>5 DEF Bounded, BucketBounded
    <2> QED BY <2>1, <2>3, <2>6, <2>7 DEF Bounded
  <1> QED BY <1>1, <1>2

LEMMA ChargingKeeps ==
    ASSUME NEW s \in Ledgers, NEW q \in Requests, NEW w \in Workers, q[w] # NoCall,
           NEW usd \in 0 .. MaxCost, Bounded(s, q)
    PROVE  /\ Charge(s, q[w].user, usd) \in Ledgers
           /\ Bounded(Charge(s, q[w].user, usd), [q EXCEPT ![w] = NoCall])
  <1> DEFINE r == q[w]
             t == Charge(s, r.user, usd)
             p == [q EXCEPT ![w] = NoCall]
  <1>1. p \in Requests /\ r \in Calls /\ r.user \in Users
    BY DEF Requests, Calls
  <1>2. \A b \in Identities \cup {Process} : s[b] \in Int
    BY DEF Ledgers
  <1>3. t \in Ledgers /\ usd \in Int
    BY <1>1, <1>2, SpendAssumption DEF Charge, Ledgers, Identities
  <1>4. t[Process] = s[Process] + usd /\ t[r.user] = s[r.user] + usd
    BY <1>1, <1>2, Buckets DEF Charge, Ledgers, Identities
  <1>5. \A b \in Identities : b # r.user => t[b] = s[b]
    BY <1>1, <1>2, SpendAssumption DEF Charge, Ledgers, Identities
  <1>6. BucketBounded(t, p, Process, ProcessCap)
    <2>1. w \in OpenIn(q, Process) /\ OpenIn(p, Process) = OpenIn(q, Process) \ {w}
      BY <1>1 DEF OpenIn, Requests
    <2> QED BY <2>1, <1>2, <1>4, OneLessOpen, SpendAssumption DEF Bounded
  <1>7. ASSUME NEW u \in Users PROVE BucketBounded(t, p, u, IdentityCap)
    <2>1. s[u] \in Int /\ t[u] \in Int /\ BucketBounded(s, q, u, IdentityCap)
      BY <1>2, <1>3 DEF Bounded, Identities, Ledgers
    <2>2. CASE u = r.user
      <3>1. w \in OpenIn(q, u) /\ OpenIn(p, u) = OpenIn(q, u) \ {w}
        BY <2>2, <1>1, Buckets DEF OpenIn, Requests
      <3> QED BY <3>1, <2>1, <2>2, <1>4, OneLessOpen, SpendAssumption
    <2>3. CASE u # r.user
      <3>1. OpenIn(p, u) \subseteq OpenIn(q, u) /\ t[u] = s[u]
        BY <2>3, <1>1, <1>5 DEF OpenIn, Requests, Identities
      <3>2. t[u] <= s[u]
        BY <2>1, <3>1
      <3> HIDE DEF p, t
      <3> QED BY <3>1, <3>2, <2>1, FewerOpen, SpendAssumption
    <2> QED BY <2>2, <2>3
  <1>8. t[Anonymous] < IdentityCap
    BY <1>1, <1>5, Buckets DEF Bounded, Identities
  <1> QED BY <1>3, <1>6, <1>7, <1>8 DEF Bounded

-----------------------------------------------------------------------------
(* What ends a request, and what goes on with it *)

LEMMA CommitKeepsTypes ==
    ASSUME at \in [Users -> Places], version \in [Users -> Nat],
           NEW u \in Users, NEW loaded, NEW tier, Commit(u, loaded, tier)
    PROVE  at' \in [Users -> Places] /\ version' \in [Users -> Nat]
  <1>1. CASE UNCHANGED <<at, version>>
    BY <1>1
  <1>2. CASE /\ version' = [version EXCEPT ![u] = @ + 1]
             /\ \E p \in IF tier = "heavy" THEN Places ELSE {at[u]} : at' = [at EXCEPT ![u] = p]
    <2>1. version' \in [Users -> Nat]
      BY <1>2
    <2>2. PICK p \in IF tier = "heavy" THEN Places ELSE {at[u]} : at' = [at EXCEPT ![u] = p]
      BY <1>2
    <2>3. p \in Places
      BY <2>2
    <2> QED BY <2>1, <2>2, <2>3
  <1> QED BY <1>1, <1>2 DEF Commit

LEMMA FinishKeeps ==
    ASSUME SpendInv, NEW w \in Workers, NEW r \in Calls, NEW by, NEW s \in Ledgers,
           Bounded(s, [request EXCEPT ![w] = NoCall]), Finish(w, r, by, s)
    PROVE  SpendInv'
  <1> DEFINE p == [request EXCEPT ![w] = NoCall]
  <1>1. request' = p /\ p \in Requests /\ r.user \in Users
    BY DEF Finish, Free, SpendInv, Requests, Calls
  <1>2. CASE Commit(r.user, r.loaded, r.tier) /\ spent' = s
    BY <1>1, <1>2, CommitKeepsTypes DEF SpendInv
  <1>3. CASE spent' = s /\ UNCHANGED <<at, version, cache>>
    BY <1>1, <1>3 DEF SpendInv
  <1>4. CASE /\ Fits(s, Anonymous, EmbedCost)
             /\ Store(r, by, s)
             /\ Commit(r.user, r.loaded, r.tier)
    <2>1. PICK space : spent' = Embedded(s, space)
      BY <1>4 DEF Store
    <2>2. Bounded(spent', p) /\ spent' \in Ledgers
      BY <1>1, <1>4, <2>1, EmbeddingKeeps
    <2> QED BY <1>1, <1>4, <2>2, CommitKeepsTypes DEF SpendInv
  <1> QED BY <1>2, <1>3, <1>4 DEF Finish

LEMMA AttemptKeeps ==
    ASSUME SpendInv, NEW w \in Workers, NEW r \in Calls, NEW s \in Ledgers,
           Bounded(s, request), Attempt(w, r, s)
    PROVE  SpendInv'
  <1>1. CASE /\ Fits(s, r.user, Reserve)
             /\ request' = [request EXCEPT ![w] = r]
             /\ spent' = s
             /\ UNCHANGED <<at, version, cache>>
    BY <1>1, OpeningKeeps DEF SpendInv
  <1>2. CASE Finish(w, r, "canned", s)
    BY <1>2, FinishKeeps, ClosingKeeps DEF SpendInv
  <1> QED BY <1>1, <1>2 DEF Attempt

LEMMA CallIsCall ==
    ASSUME SpendInv, NEW tier \in Tiers, NEW u \in Users, NEW q \in Messages, NEW p \in Places
    PROVE  Call(tier, u, q, p) \in Calls
  BY DEF Call, Calls, SpendInv

\* What the process has spent is less as time passes.
LEMMA ForgettingKeeps ==
    ASSUME SpendInv, NEW id \in Identities, Forget(id)
    PROVE  SpendInv'
  <1>1. PICK usd \in 1 .. spent[id] : spent' = [spent EXCEPT ![Process] = @ - usd, ![id] = @ - usd]
    BY DEF Forget
  <1>2. \A b \in Identities \cup {Process} : spent[b] \in Int
    BY DEF SpendInv, Ledgers
  <1>3. spent' \in Ledgers /\ \A b \in Identities \cup {Process} : spent'[b] <= spent[b]
    BY <1>1, <1>2, SpendAssumption DEF SpendInv, Ledgers
  <1>4. request' = request /\ at' = at /\ version' = version
    BY DEF Forget
  <1>5. \A b \in Identities \cup {Process} : spent'[b] \in Int
    BY <1>3 DEF Ledgers
  <1>6. BucketBounded(spent', request, Process, ProcessCap)
    BY <1>2, <1>3, <1>5, FewerOpen, SpendAssumption DEF SpendInv, Bounded
  <1>7. ASSUME NEW u \in Users PROVE BucketBounded(spent', request, u, IdentityCap)
    <2>1. spent[u] \in Int /\ spent'[u] \in Int /\ spent'[u] <= spent[u]
          /\ BucketBounded(spent, request, u, IdentityCap)
      BY <1>2, <1>3, <1>5 DEF SpendInv, Bounded, Identities
    <2> QED BY <2>1, FewerOpen, SpendAssumption
  <1>8. spent'[Anonymous] < IdentityCap
    BY <1>2, <1>3, <1>5, SpendAssumption DEF SpendInv, Bounded, Identities
  <1> QED BY <1>3, <1>4, <1>6, <1>7, <1>8 DEF SpendInv, Bounded

\* A new process has spent nothing.
LEMMA NothingSpent ==
    ASSUME NEW q
    PROVE  NoSpend \in Ledgers /\ Bounded(NoSpend, q)
  <1>1. NoSpend \in Ledgers /\ \A b \in Identities \cup {Process} : NoSpend[b] = 0
    BY DEF NoSpend, Ledgers
  <1>2. BucketBounded(NoSpend, q, Process, ProcessCap)
    BY <1>1, BelowCap, SpendAssumption
  <1>3. \A u \in Users : BucketBounded(NoSpend, q, u, IdentityCap)
    BY <1>1, BelowCap, SpendAssumption DEF Identities
  <1> QED BY <1>1, <1>2, <1>3, SpendAssumption DEF Bounded, Identities

-----------------------------------------------------------------------------
(* The caps *)

\* A new process is below its caps.
THEOREM SpendInit == Init => SpendInv
  <1> SUFFICES ASSUME Init PROVE SpendInv
    OBVIOUS
  <1>1. at \in [Users -> Places] /\ version \in [Users -> Nat] /\ request \in Requests
    BY DEF Init, Requests
  <1>2. spent \in Ledgers /\ Bounded(spent, request)
    BY NothingSpent DEF Init
  <1> QED BY <1>1, <1>2 DEF SpendInv

\* Every step of a request, of time and of other processes keeps the bounds.
THEOREM SpendStep == SpendInv /\ [Next]_vars => SpendInv'
  <1> SUFFICES ASSUME SpendInv, [Next]_vars PROVE SpendInv'
    OBVIOUS
  <1> USE DEF Tiers
  <1>1. spent \in Ledgers /\ request \in Requests /\ Bounded(spent, request)
    BY DEF SpendInv
  <1>2. ASSUME NEW w \in Workers, Capped(w) PROVE SpendInv'
    BY <1>2 DEF Capped, SpendInv
  <1>3. ASSUME NEW w \in Workers, NEW u \in Users, NEW q \in Messages, BeginLight(w, u, q)
        PROVE  SpendInv'
    <2>1. Fits(spent, Anonymous, EmbedCost)
      BY <1>3 DEF BeginLight, Begin
    <2>2. PICK space \in {"real", "synthetic"} :
             LET s == Embedded(spent, space) IN
             \/ /\ Commit(u, version[u], "light")
                /\ spent' = s /\ UNCHANGED <<cache, request>>
             \/ \E p \in Rows \cup {at[u]} : Attempt(w, Call("light", u, q, p), s)
      BY <1>3 DEF BeginLight
    <2>3. Embedded(spent, space) \in Ledgers /\ Bounded(Embedded(spent, space), request)
      BY <1>1, <2>1, EmbeddingKeeps
    <2>4. CASE /\ Commit(u, version[u], "light")
               /\ spent' = Embedded(spent, space) /\ UNCHANGED <<cache, request>>
      BY <2>3, <2>4, CommitKeepsTypes DEF SpendInv
    <2>5. CASE \E p \in Rows \cup {at[u]} : Attempt(w, Call("light", u, q, p), Embedded(spent, space))
      <3>1. PICK p \in Rows \cup {at[u]} : Attempt(w, Call("light", u, q, p), Embedded(spent, space))
        BY <2>5
      <3>2. p \in Places
        BY DEF Places, SpendInv
      <3>3. Call("light", u, q, p) \in Calls
        BY <3>2, CallIsCall
      <3> QED BY <3>1, <3>3, <2>3, AttemptKeeps
    <2> QED BY <2>2, <2>4, <2>5
  <1>4. ASSUME NEW w \in Workers, NEW u \in Users, NEW q \in Messages, BeginHeavy(w, u, q)
        PROVE  SpendInv'
    <2>1. Fits(spent, Anonymous, EmbedCost)
      BY <1>4 DEF BeginHeavy, Begin
    <2>2. PICK space \in {"real", "synthetic"} :
             LET s == Embedded(spent, space) IN
             \/ /\ Commit(u, version[u], "heavy")
                /\ spent' = s /\ UNCHANGED <<cache, request>>
             \/ Attempt(w, Call("heavy", u, q, at[u]), s)
      BY <1>4 DEF BeginHeavy
    <2>3. Embedded(spent, space) \in Ledgers /\ Bounded(Embedded(spent, space), request)
      BY <1>1, <2>1, EmbeddingKeeps
    <2>4. Call("heavy", u, q, at[u]) \in Calls
      BY CallIsCall DEF SpendInv
    <2> QED BY <2>2, <2>3, <2>4, CommitKeepsTypes, AttemptKeeps DEF SpendInv
  <1>5. ASSUME NEW w \in Workers, NEW u \in Users, NEW q \in Messages, BeginUnsearched(w, u, q)
        PROVE  SpendInv'
    <2>1. Call("heavy", u, q, at[u]) \in Calls
      BY CallIsCall DEF SpendInv
    <2>2. \/ Attempt(w, Call("heavy", u, q, at[u]), spent)
          \/ Commit(u, version[u], "heavy") /\ UNCHANGED <<cache, spent, request>>
      BY <1>5 DEF BeginUnsearched
    <2> QED BY <1>1, <2>1, <2>2, CommitKeepsTypes, AttemptKeeps DEF SpendInv
  <1>6. ASSUME NEW w \in Workers, Answered(w) PROVE SpendInv'
    <2>1. request[w] # NoCall /\ request[w] \in Calls
      BY <1>1, <1>6 DEF Answered, Requests
    <2>2. PICK usd \in 0 .. MaxCost :
             Finish(w, request[w], "model", Charge(spent, request[w].user, usd))
      BY <1>6 DEF Answered
    <2>3. /\ Charge(spent, request[w].user, usd) \in Ledgers
          /\ Bounded(Charge(spent, request[w].user, usd), [request EXCEPT ![w] = NoCall])
      BY <1>1, <2>1, ChargingKeeps
    <2> QED BY <2>1, <2>2, <2>3, FinishKeeps
  <1>7. ASSUME NEW w \in Workers, CallFails(w) PROVE SpendInv'
    <2>1. request[w] \in Calls
      BY <1>1, <1>7 DEF CallFails, Requests
    <2>2. [request[w] EXCEPT !.model = @ + 1] \in Calls
      BY <2>1 DEF Calls
    <2>3. Bounded(spent, [request EXCEPT ![w] = NoCall])
      BY <1>1, ClosingKeeps
    <2>4. \/ Attempt(w, [request[w] EXCEPT !.model = @ + 1], spent)
          \/ Finish(w, request[w], "canned", spent)
      BY <1>7 DEF CallFails
    <2> QED BY <1>1, <2>1, <2>2, <2>3, <2>4, AttemptKeeps, FinishKeeps
  <1>8. ASSUME NEW u \in Users, Move(u) PROVE SpendInv'
    BY <1>8 DEF Move, SpendInv
  <1>9. ASSUME NEW u \in Users, CommittedElsewhere(u) PROVE SpendInv'
    BY <1>9 DEF CommittedElsewhere, SpendInv
  <1>10. ASSUME NEW u \in Users, NEW q \in Questions, Ask(u, q) PROVE SpendInv'
    BY <1>10 DEF Ask, SpendInv
  <1>11. ASSUME NEW id \in Identities, Forget(id) PROVE SpendInv'
    BY <1>11, ForgettingKeeps
  <1>12. ASSUME NEW e \in cache, Expire(e) PROVE SpendInv'
    BY <1>12 DEF Expire, SpendInv
  <1>13. CASE Restart
    <2>1. request' \in Requests
      BY <1>13 DEF Restart, Requests
    <2> QED BY <1>13, <2>1, NothingSpent DEF Restart, SpendInv
  <1>14. CASE UNCHANGED vars
    BY <1>14 DEF vars, SpendInv
  <1> QED BY <1>2, <1>3, <1>4, <1>5, <1>6, <1>7, <1>8, <1>9, <1>10, <1>11, <1>12, <1>13, <1>14 DEF Next

(* Calls that are checked before they are made and charged after them      *)
(* overshoot the caps by less than one completion per open request, and    *)
(* embeddings, checked and charged at once, by nothing                     *)
(* (spend_circuit.py, check and record).                                   *)
THEOREM Caps == Spec => []SpendBounded
  <1>1. SpendInv => SpendBounded
    BY DEF SpendInv, Bounded, BucketBounded, SpendBounded, OpenIn, Open
  <1> QED BY <1>1, SpendInit, SpendStep, PTL DEF Spec

-----------------------------------------------------------------------------
(* The semantic cache *)

\* An entry is found by the user and the version its answer was worded for.
CacheInv == \A e \in cache : e.answer.user = e.user /\ e.answer.version = e.version

LEMMA FinishCaches ==
    ASSUME CacheInv, NEW w, NEW r, NEW by, NEW s, Finish(w, r, by, s)
    PROVE  CacheInv'
  <1>1. CASE cache' = cache
    BY <1>1 DEF CacheInv
  <1>2. CASE Store(r, by, s)
    <2> DEFINE answer == [user |-> r.user, place |-> r.place, version |-> r.loaded, by |-> by]
    <2>1. PICK space : cache' = cache \cup {Entry(Scope(r.user, r.loaded), r.question, space, answer)}
      BY <1>2 DEF Store
    <2>2. LET e == Entry(Scope(r.user, r.loaded), r.question, space, answer)
          IN  e.answer.user = e.user /\ e.answer.version = e.version
      BY DEF Entry, Scope
    <2> QED BY <2>1, <2>2 DEF CacheInv
  <1> QED BY <1>1, <1>2 DEF Finish

LEMMA AttemptCaches ==
    ASSUME CacheInv, NEW w, NEW r, NEW s, Attempt(w, r, s)
    PROVE  CacheInv'
  <1>1. CASE UNCHANGED cache
    BY <1>1 DEF CacheInv
  <1> QED BY <1>1, FinishCaches DEF Attempt

(* A cached answer was worded for the traveller it is served to, from the  *)
(* trip version that is stored now (state_machine.py, the scope of an      *)
(* entry).  The stop is not promised: the code does not keep it.           *)
THEOREM CurrentAnswers == Spec => []AnswersAreCurrent
  <1>1. Init => CacheInv
    BY DEF Init, CacheInv
  <1>2. CacheInv /\ [Next]_vars => CacheInv'
    <2> SUFFICES ASSUME CacheInv, [Next]_vars PROVE CacheInv'
      OBVIOUS
    <2>1. ASSUME NEW w \in Workers, NEW u \in Users, NEW q \in Messages,
                 BeginLight(w, u, q) \/ BeginHeavy(w, u, q) \/ BeginUnsearched(w, u, q)
          PROVE  CacheInv'
      <3>1. cache' = cache \/ \E r, s : Attempt(w, r, s)
        BY <2>1 DEF BeginLight, BeginHeavy, BeginUnsearched
      <3> QED BY <3>1, AttemptCaches DEF CacheInv
    <2>2. ASSUME NEW w \in Workers, Answered(w) \/ CallFails(w) PROVE CacheInv'
      <3>1. (\E r, s : Attempt(w, r, s)) \/ \E r, by, s : Finish(w, r, by, s)
        BY <2>2 DEF Answered, CallFails
      <3> QED BY <3>1, AttemptCaches, FinishCaches
    <2>3. CASE \E e \in cache : Expire(e)
      BY <2>3 DEF Expire, CacheInv
    <2>4. CASE UNCHANGED cache
      BY <2>4 DEF CacheInv
    <2>5. CASE Restart
      BY <2>5 DEF Restart, CacheInv
    <2> QED BY <2>1, <2>2, <2>3, <2>4, <2>5
          DEF Next, vars, Capped, Move, CommittedElsewhere, Ask, Forget
  <1>3. CacheInv => AnswersAreCurrent
    BY DEF CacheInv, AnswersAreCurrent, Hits, InScope, Scope
  <1> QED BY <1>1, <1>2, <1>3, PTL DEF Spec

-----------------------------------------------------------------------------
(* The cache of catalog facts *)

\* What is remembered under a row's id is about that row, or about the region.
FactsInv == \A f \in facts : f.key \in Rows => f.about = Source(f.question, f.key)

(* Facts one traveller's question has put into the cache are, at every     *)
(* catalogued stop of every other, about that stop (ask_service.py, the    *)
(* key of a fact).                                                         *)
THEOREM FactsKeepTheirPlace == Spec => []CataloguedFactsOwnPlace
  <1>1. Init => FactsInv
    BY DEF Init, FactsInv
  <1>2. FactsInv /\ [Next]_vars => FactsInv'
    <2> SUFFICES ASSUME FactsInv, [Next]_vars PROVE FactsInv'
      OBVIOUS
    <2>1. ASSUME NEW u \in Users, NEW q \in Questions, Ask(u, q) PROVE FactsInv'
      <3> DEFINE p == at[u]
                 new == Remembered(q, p, Reply(q, p))
      <3>1. facts' = facts \cup new
        BY <2>1 DEF Ask
      <3>2. ASSUME NEW f \in new, f.key \in Rows PROVE f.about = Source(f.question, f.key)
        <4>1. Reply(q, p).path = "catalog" /\ f = [question |-> q, key |-> KeyOf(p), about |-> Reply(q, p).about]
          BY <3>2 DEF Remembered
        <4>2. IntentOf[q] \in Intents
          BY CatalogAssumption
        <4>3. Reply(q, p) = FactReply(q, p)
          BY <4>1, <4>2 DEF Reply, Intents
        <4>4. Reply(q, p).about = Source(q, p)
          BY <4>1, <4>3 DEF FactReply
        <4>5. p \in Rows /\ f.key = p
          BY <4>1, <3>2, CatalogAssumption DEF KeyOf, Places
        <4> QED BY <4>1, <4>4, <4>5
      <3> QED BY <3>1, <3>2 DEF FactsInv, Source, RowOf
    <2>2. CASE UNCHANGED facts
      BY <2>2 DEF FactsInv, Source, RowOf
    <2>3. CASE Restart
      BY <2>3 DEF Restart, FactsInv
    <2> QED BY <2>1, <2>2, <2>3
          DEF Next, vars, Capped, Begin, BeginLight, BeginHeavy, BeginUnsearched, Answered, CallFails,
              Move, CommittedElsewhere, Forget, Expire
  <1>3. FactsInv => CataloguedFactsOwnPlace
    <2> SUFFICES ASSUME FactsInv, NEW u \in Users, NEW q \in Questions, at[u] \in Rows,
                        Reply(q, at[u]).path \in {"cache", "catalog"}
                 PROVE  Reply(q, at[u]).about = Source(q, at[u])
      BY DEF CataloguedFactsOwnPlace
    <2> DEFINE p == at[u]
    <2>1. IntentOf[q] \in Intents
      BY CatalogAssumption
    <2>2. Reply(q, p) = FactReply(q, p)
      BY <2>1 DEF Reply, Intents
    <2>3. CASE Known(q, p) # {}
      <3> DEFINE f == CHOOSE g \in Known(q, p) : TRUE
      <3>1. Reply(q, p).about = f.about /\ f \in Known(q, p)
        <4>1. f \in Known(q, p)
          BY <2>3
        <4> QED BY <4>1, <2>2, <2>3 DEF FactReply
      <3>2. f \in facts /\ f.question = q /\ f.key = p
        BY <3>1 DEF Known, KeyOf
      <3> HIDE DEF f
      <3> QED BY <3>1, <3>2 DEF FactsInv
    <2>4. CASE Known(q, p) = {}
      BY <2>2, <2>4 DEF FactReply
    <2> QED BY <2>3, <2>4
  <1> QED BY <1>1, <1>2, <1>3, PTL DEF Spec

-----------------------------------------------------------------------------
(* Types, and the two sides of the ledger *)

\* One unit of an identity's spend: the identity and the unit's number.
Units(s) == {x \in Identities \X (Nat \ {0}) : x[2] <= s[x[1]]}

\* The bucket of the process holds what the identities have spent, no more.
Balanced(s) ==
    /\ s \in [Identities \cup {Process} -> Nat]
    /\ IsFiniteSet(Units(s)) /\ Cardinality(Units(s)) = s[Process]

TypeInv == TypeOK /\ Balanced(spent)

\* Units an identity gains or loses are units of the ledger.
LEMMA MoreUnits ==
    ASSUME NEW s \in [Identities \cup {Process} -> Nat], NEW t \in [Identities \cup {Process} -> Nat],
           NEW id \in Identities, NEW usd \in Nat,
           t[id] = s[id] + usd, \A b \in Identities \ {id} : t[b] = s[b]
    PROVE  /\ IsFiniteSet(Units(s)) <=> IsFiniteSet(Units(t))
           /\ IsFiniteSet(Units(s)) => Cardinality(Units(t)) = Cardinality(Units(s)) + usd
  <1> DEFINE more == {id} \X (s[id] + 1 .. s[id] + usd)
  <1>1. s[id] \in Nat /\ \A b \in Identities : s[b] \in Nat /\ t[b] \in Nat
    OBVIOUS
  <1>2. IsFiniteSet(more) /\ Cardinality(more) = usd
    <2>1. /\ IsFiniteSet(s[id] + 1 .. s[id] + usd)
          /\ Cardinality(s[id] + 1 .. s[id] + usd) = usd
      <3>1. s[id] + 1 \in Int /\ s[id] + usd \in Int
        BY <1>1
      <3> DEFINE a == s[id] + 1
                 b == s[id] + usd
      <3>2. /\ IsFiniteSet(a .. b)
            /\ Cardinality(a .. b) = IF a > b THEN 0 ELSE b - a + 1
        BY <3>1, FS_Interval
      <3>3. (IF a > b THEN 0 ELSE b - a + 1) = usd
        BY <1>1
      <3> QED BY <3>2, <3>3
    <2>2. IsFiniteSet({id}) /\ Cardinality({id}) = 1
      BY FS_Singleton
    <2>3. IsFiniteSet(more) /\ Cardinality(more) = 1 * usd
      BY <2>1, <2>2, FS_Product
    <2> QED BY <2>3
  <1>3. Units(t) = Units(s) \cup more
    <2>1. ASSUME NEW x \in Units(t) PROVE x \in Units(s) \cup more
      <3>1. x = <<x[1], x[2]>> /\ x[1] \in Identities /\ x[2] \in Nat \ {0} /\ x[2] <= t[x[1]]
        BY DEF Units
      <3>2. CASE x[1] # id
        BY <3>1, <3>2 DEF Units
      <3>3. CASE x[1] = id /\ x[2] <= s[id]
        BY <3>1, <3>3 DEF Units
      <3>4. CASE x[1] = id /\ ~(x[2] <= s[id])
        <4>1. x[2] \in s[id] + 1 .. s[id] + usd
          BY <1>1, <3>1, <3>4
        <4> QED BY <3>1, <3>4, <4>1
      <3> QED BY <3>2, <3>3, <3>4
    <2>2. ASSUME NEW x \in Units(s) PROVE x \in Units(t)
      <3>1. x \in Identities \X (Nat \ {0}) /\ x[1] \in Identities /\ x[2] \in Nat /\ x[2] <= s[x[1]]
        BY DEF Units
      <3>2. s[x[1]] <= t[x[1]]
        BY <1>1, <3>1
      <3>3. x[2] <= t[x[1]]
        BY <1>1, <3>1, <3>2
      <3> QED BY <3>1, <3>3 DEF Units
    <2>3. ASSUME NEW x \in more PROVE x \in Units(t)
      <3>1. x = <<x[1], x[2]>> /\ x[1] = id /\ x[2] \in s[id] + 1 .. s[id] + usd
        OBVIOUS
      <3>2. x[2] \in Nat \ {0} /\ x[2] <= t[id]
        BY <1>1, <3>1
      <3> QED BY <3>1, <3>2 DEF Units
    <2> HIDE DEF more
    <2> QED BY <2>1, <2>2, <2>3
  <1>4. Units(s) \cap more = {}
    <2> SUFFICES ASSUME NEW x \in Units(s), x \in more PROVE FALSE
      OBVIOUS
    <2>1. x[1] = id /\ x[2] \in s[id] + 1 .. s[id] + usd /\ x[2] <= s[x[1]]
      BY DEF Units
    <2> QED BY <1>1, <2>1
  <1> HIDE DEF more
  <1>5. IsFiniteSet(Units(t)) => IsFiniteSet(Units(s))
    <2>1. Units(s) \subseteq Units(t)
      BY <1>3
    <2> QED BY <2>1, FS_Subset
  <1>6. ASSUME IsFiniteSet(Units(s))
        PROVE  IsFiniteSet(Units(t)) /\ Cardinality(Units(t)) = Cardinality(Units(s)) + usd
    <2>1. /\ IsFiniteSet(Units(s) \cup more)
          /\ Cardinality(Units(s) \cup more)
                = Cardinality(Units(s)) + Cardinality(more) - Cardinality(Units(s) \cap more)
      BY <1>2, <1>6, FS_Union
    <2>2. Cardinality(Units(s) \cap more) = 0
      BY <1>4, FS_EmptySet
    <2>3. Cardinality(Units(s)) \in Nat
      BY <1>6, FS_CardinalityType
    <2> QED BY <1>2, <1>3, <2>1, <2>2, <2>3
  <1> QED BY <1>5, <1>6

LEMMA ChargeBalances ==
    ASSUME NEW s, Balanced(s), NEW id \in Identities, NEW usd \in Nat
    PROVE  Balanced(Charge(s, id, usd))
  <1> DEFINE t == Charge(s, id, usd)
  <1>1. s \in [Identities \cup {Process} -> Nat] /\ id # Process
    BY SpendAssumption DEF Balanced
  <1>2. t \in [Identities \cup {Process} -> Nat]
    BY <1>1 DEF Charge
  <1>3. t[Process] = s[Process] + usd /\ t[id] = s[id] + usd
    BY <1>1 DEF Charge
  <1>4. \A b \in Identities \ {id} : t[b] = s[b]
    BY <1>1, SpendAssumption DEF Charge
  <1> HIDE DEF t
  <1>5. IsFiniteSet(Units(t)) /\ Cardinality(Units(t)) = Cardinality(Units(s)) + usd
    BY <1>1, <1>2, <1>3, <1>4, MoreUnits DEF Balanced
  <1>6. Balanced(t)
    BY <1>2, <1>3, <1>5 DEF Balanced
  <1> QED BY <1>6 DEF t

LEMMA EmbeddingBalances ==
    ASSUME NEW s, Balanced(s), NEW space
    PROVE  Balanced(Embedded(s, space))
  BY ChargeBalances, SpendAssumption DEF Embedded, Identities

\* No identity has spent what the process has not.
LEMMA ForgettingBalances ==
    ASSUME Balanced(spent), NEW id \in Identities, Forget(id)
    PROVE  Balanced(spent')
  <1> DEFINE s == spent
             t == spent'
  <1>1. PICK usd \in 1 .. s[id] : t = [s EXCEPT ![Process] = @ - usd, ![id] = @ - usd]
    BY DEF Forget
  <1>2. s \in [Identities \cup {Process} -> Nat] /\ id # Process /\ Process \notin Identities
    BY SpendAssumption DEF Balanced
  <1>3. usd \in Nat /\ t[id] = s[id] - usd /\ t[id] \in Nat /\ t[Process] = s[Process] - usd
    BY <1>1, <1>2
  <1>4. \A b \in Identities \ {id} : t[b] = s[b]
    BY <1>1, <1>2
  <1> DEFINE below == [t EXCEPT ![Process] = 0]
  <1>5. below \in [Identities \cup {Process} -> Nat]
    <2>1. \A b \in Identities : t[b] \in Nat
      BY <1>2, <1>3, <1>4
    <2>2. below = [b \in Identities \cup {Process} |-> IF b = Process THEN 0 ELSE t[b]]
      BY <1>1, <1>2
    <2> QED BY <2>1, <2>2, <1>2
  <1>6. below[id] = t[id] /\ \A b \in Identities : below[b] = t[b]
    BY <1>1, <1>2
  <1>7. Units(below) = Units(t)
    BY <1>6 DEF Units
  <1> HIDE DEF below
  <1>8. s[id] = below[id] + usd /\ \A b \in Identities \ {id} : s[b] = below[b]
    <2>1. s[id] \in Nat
      BY <1>2
    <2> QED BY <2>1, <1>3, <1>4, <1>6
  <1>9. /\ IsFiniteSet(Units(below))
        /\ Cardinality(Units(s)) = Cardinality(Units(below)) + usd
    <2>1. IsFiniteSet(Units(s))
      BY DEF Balanced
    <2>2. /\ IsFiniteSet(Units(below)) <=> IsFiniteSet(Units(s))
          /\ IsFiniteSet(Units(below)) => Cardinality(Units(s)) = Cardinality(Units(below)) + usd
      <3> HIDE DEF s, t
      <3> QED BY <1>2, <1>3, <1>5, <1>8, MoreUnits
    <2> QED BY <2>1, <2>2
  <1>10. Cardinality(Units(t)) = t[Process] /\ t[Process] \in Nat /\ IsFiniteSet(Units(t))
    <2>1. Cardinality(Units(below)) \in Nat
      BY <1>9, FS_CardinalityType
    <2>2. Cardinality(Units(s)) = s[Process] /\ s[Process] \in Nat
      BY <1>2 DEF Balanced
    <2> QED BY <2>1, <2>2, <1>3, <1>7, <1>9
  <1>11. t \in [Identities \cup {Process} -> Nat]
    <2>1. t = [b \in Identities \cup {Process} |-> t[b]]
      BY <1>1, <1>2
    <2>2. \A b \in Identities \cup {Process} : t[b] \in Nat
      BY <1>2, <1>3, <1>4, <1>10
    <2> QED BY <2>1, <2>2
  <1> QED BY <1>10, <1>11 DEF Balanced

LEMMA NothingBalances == Balanced(NoSpend)
  <1>1. NoSpend \in [Identities \cup {Process} -> Nat] /\ \A b \in Identities \cup {Process} : NoSpend[b] = 0
    BY DEF NoSpend
  <1>2. Units(NoSpend) = {}
    BY <1>1 DEF Units
  <1> QED BY <1>1, <1>2, FS_EmptySet DEF Balanced

-----------------------------------------------------------------------------
(* Types: what a request leaves behind *)

\* The scope of a well-typed answer is one.
LEMMA EntryIsEntry ==
    ASSUME TypeOK, NEW r \in Calls, NEW by \in {"model", "canned"}, NEW space \in {"real", "synthetic"}
    PROVE  Entry(Scope(r.user, r.loaded), r.question, space,
                 [user |-> r.user, place |-> r.place, version |-> r.loaded, by |-> by]) \in Entries
  <1> DEFINE answer == [user |-> r.user, place |-> r.place, version |-> r.loaded, by |-> by]
  <1>1. r.user \in Users /\ r.place \in Places /\ r.loaded \in Nat /\ r.question \in Messages
    BY DEF Calls
  <1>2. answer \in Answers
    BY <1>1 DEF Answers
  <1>3. at[r.user] \in Places
    BY <1>1 DEF TypeOK
  <1> HIDE DEF answer
  <1>4. Entry(Scope(r.user, r.loaded), r.question, space, answer) \in Entries
    BY <1>1, <1>2, <1>3 DEF Entry, Scope, Entries
  <1> QED BY <1>4 DEF answer

\* A request that ends leaves the stores well typed and the ledger balanced.
LEMMA FinishTypes ==
    ASSUME TypeInv, NEW w \in Workers, NEW r \in Calls, NEW by \in {"model", "canned"},
           NEW s, Balanced(s), Finish(w, r, by, s)
    PROVE  /\ at' \in [Users -> Places] /\ version' \in [Users -> Nat]
           /\ cache' \subseteq Entries /\ request' \in Requests /\ Balanced(spent')
  <1>1. request' \in Requests /\ r.user \in Users
    BY DEF Finish, Free, TypeInv, TypeOK, Requests, Calls
  <1>2. at \in [Users -> Places] /\ version \in [Users -> Nat] /\ cache \subseteq Entries
    BY DEF TypeInv, TypeOK
  <1>3. CASE Commit(r.user, r.loaded, r.tier) /\ spent' = s /\ cache' = cache
    BY <1>1, <1>2, <1>3, CommitKeepsTypes
  <1>4. CASE spent' = s /\ UNCHANGED <<at, version, cache>>
    BY <1>1, <1>2, <1>4
  <1>5. CASE Store(r, by, s) /\ Commit(r.user, r.loaded, r.tier)
    <2>1. PICK space \in {"real", "synthetic"} :
             /\ spent' = Embedded(s, space)
             /\ cache' = cache \cup {Entry(Scope(r.user, r.loaded), r.question, space,
                    [user |-> r.user, place |-> r.place, version |-> r.loaded, by |-> by])}
      BY <1>5 DEF Store
    <2>2. cache' \subseteq Entries
      BY <1>2, <2>1, EntryIsEntry DEF TypeInv
    <2>3. Balanced(spent')
      BY <2>1, EmbeddingBalances
    <2> QED BY <1>1, <1>2, <1>5, <2>2, <2>3, CommitKeepsTypes
  <1> QED BY <1>3, <1>4, <1>5 DEF Finish

LEMMA AttemptTypes ==
    ASSUME TypeInv, NEW w \in Workers, NEW r \in Calls, NEW s, Balanced(s), Attempt(w, r, s)
    PROVE  /\ at' \in [Users -> Places] /\ version' \in [Users -> Nat]
           /\ cache' \subseteq Entries /\ request' \in Requests /\ Balanced(spent')
  <1>1. CASE /\ request' = [request EXCEPT ![w] = r]
             /\ spent' = s
             /\ UNCHANGED <<at, version, cache>>
    BY <1>1 DEF TypeInv, TypeOK, Requests
  <1>2. CASE Finish(w, r, "canned", s)
    BY <1>2, FinishTypes
  <1> QED BY <1>1, <1>2 DEF Attempt

LEMMA CallIsTyped ==
    ASSUME TypeInv, NEW tier \in Tiers, NEW u \in Users, NEW q \in Messages, NEW p \in Rows \cup {at[u]}
    PROVE  Call(tier, u, q, p) \in Calls
  <1>1. version[u] \in Nat /\ p \in Places
    BY DEF TypeInv, TypeOK, Places
  <1> QED BY <1>1 DEF Call, Calls

\* What a question leaves in the cache of facts is a fact.
LEMMA RememberedIsFact ==
    ASSUME TypeInv, NEW u \in Users, NEW q \in Questions
    PROVE  Remembered(q, at[u], Reply(q, at[u])) \subseteq Facts
  <1> DEFINE p == at[u]
  <1>1. p \in Rows \/ p \in Strays
    BY DEF TypeInv, TypeOK, Places
  <1>2. RowOf(p) \in Rows \cup {NoRow} /\ KeyOf(p) \in Rows \cup {NoRow}
    BY <1>1, CatalogAssumption DEF Places, RowOf, KeyOf
  <1>3. CASE Reply(q, p).path # "catalog"
    BY <1>3 DEF Remembered
  <1>4. CASE Reply(q, p).path = "catalog"
    <2>1. Reply(q, p) = FactReply(q, p)
      BY <1>4, CatalogAssumption DEF Reply, Intents
    <2>2. Reply(q, p).about = Source(q, p) /\ Source(q, p) # NoRow
      BY <1>4, <2>1 DEF FactReply
    <2>3. Source(q, p) \in Rows \cup {Region}
      BY <1>2, <2>2 DEF Source
    <2> QED BY <1>2, <1>4, <2>2, <2>3 DEF Remembered, Facts
  <1> QED BY <1>3, <1>4

THEOREM TypeStep == TypeInv /\ [Next]_vars => TypeInv'
  <1> SUFFICES ASSUME TypeInv, [Next]_vars PROVE TypeInv'
    OBVIOUS
  <1> DEFINE Kept == /\ at' \in [Users -> Places] /\ version' \in [Users -> Nat]
                     /\ cache' \subseteq Entries /\ request' \in Requests /\ Balanced(spent')
  <1>1. /\ at \in [Users -> Places] /\ version \in [Users -> Nat] /\ cache \subseteq Entries
        /\ facts \subseteq Facts /\ request \in Requests /\ Balanced(spent)
        /\ begun \in 0 .. MaxRequests /\ outside \in 0 .. MaxOutside
    BY DEF TypeInv, TypeOK, Requests
  <1>2. ASSUME Kept, facts' \subseteq Facts, begun' \in 0 .. MaxRequests, outside' \in 0 .. MaxOutside
        PROVE  TypeInv'
    BY <1>2 DEF TypeInv, TypeOK, Balanced, Requests
  <1>3. ASSUME begun < MaxRequests, begun' = begun + 1 PROVE begun' \in 0 .. MaxRequests
    BY <1>1, <1>3, BoundsAssumption
  <1>4. ASSUME NEW w \in Workers, Capped(w) PROVE TypeInv'
    BY <1>1, <1>2, <1>3, <1>4 DEF Capped
  <1>5. ASSUME NEW w \in Workers, NEW u \in Users, NEW q \in Messages, BeginLight(w, u, q)
        PROVE  TypeInv'
    <2>1. PICK space \in {"real", "synthetic"} :
             LET s == Embedded(spent, space) IN
             \/ /\ Commit(u, version[u], "light")
                /\ spent' = s /\ UNCHANGED <<cache, request>>
             \/ \E p \in Rows \cup {at[u]} : Attempt(w, Call("light", u, q, p), s)
      BY <1>5 DEF BeginLight
    <2>2. Balanced(Embedded(spent, space))
      BY <1>1, EmbeddingBalances
    <2>3. Kept
      BY <1>1, <2>1, <2>2, CommitKeepsTypes, AttemptTypes, CallIsTyped DEF Tiers
    <2> QED BY <1>1, <1>2, <1>3, <1>5, <2>3 DEF BeginLight, Begin
  <1>6. ASSUME NEW w \in Workers, NEW u \in Users, NEW q \in Messages, BeginHeavy(w, u, q)
        PROVE  TypeInv'
    <2>1. PICK space \in {"real", "synthetic"} :
             LET s == Embedded(spent, space) IN
             \/ /\ Commit(u, version[u], "heavy")
                /\ spent' = s /\ UNCHANGED <<cache, request>>
             \/ Attempt(w, Call("heavy", u, q, at[u]), s)
      BY <1>6 DEF BeginHeavy
    <2>2. Balanced(Embedded(spent, space))
      BY <1>1, EmbeddingBalances
    <2>3. Kept
      BY <1>1, <2>1, <2>2, CommitKeepsTypes, AttemptTypes, CallIsTyped DEF Tiers
    <2> QED BY <1>1, <1>2, <1>3, <1>6, <2>3 DEF BeginHeavy, Begin
  <1>7. ASSUME NEW w \in Workers, NEW u \in Users, NEW q \in Messages, BeginUnsearched(w, u, q)
        PROVE  TypeInv'
    <2>1. \/ Attempt(w, Call("heavy", u, q, at[u]), spent)
          \/ Commit(u, version[u], "heavy") /\ UNCHANGED <<cache, spent, request>>
      BY <1>7 DEF BeginUnsearched
    <2>2. Kept
      BY <1>1, <2>1, CommitKeepsTypes, AttemptTypes, CallIsTyped DEF Tiers
    <2> QED BY <1>1, <1>2, <1>3, <1>7, <2>2 DEF BeginUnsearched
  <1>8. ASSUME NEW w \in Workers, Answered(w) PROVE TypeInv'
    <2>1. request[w] \in Calls /\ request[w].user \in Identities
      BY <1>1, <1>8 DEF Answered, Requests, Calls, Identities
    <2>2. PICK usd \in 0 .. MaxCost :
             Finish(w, request[w], "model", Charge(spent, request[w].user, usd))
      BY <1>8 DEF Answered
    <2>3. Balanced(Charge(spent, request[w].user, usd))
      BY <1>1, <2>1, ChargeBalances, usd \in Nat
    <2>4. Kept
      BY <2>1, <2>2, <2>3, FinishTypes
    <2> QED BY <1>1, <1>2, <1>8, <2>4 DEF Answered
  <1>9. ASSUME NEW w \in Workers, CallFails(w) PROVE TypeInv'
    <2>1. request[w] \in Calls
      BY <1>1, <1>9 DEF CallFails, Requests
    <2>2. [request[w] EXCEPT !.model = @ + 1] \in Calls
      BY <2>1 DEF Calls
    <2>3. \/ Attempt(w, [request[w] EXCEPT !.model = @ + 1], spent)
          \/ Finish(w, request[w], "canned", spent)
      BY <1>9 DEF CallFails
    <2>4. Kept
      BY <1>1, <2>1, <2>2, <2>3, AttemptTypes, FinishTypes
    <2> QED BY <1>1, <1>2, <1>9, <2>4 DEF CallFails
  <1>10. ASSUME NEW u \in Users, Move(u) PROVE TypeInv'
    <2>1. at' \in [Users -> Places]
      BY <1>1, <1>10 DEF Move
    <2> QED BY <1>1, <1>2, <1>10, <2>1 DEF Move
  <1>11. ASSUME NEW u \in Users, CommittedElsewhere(u) PROVE TypeInv'
    <2>1. version' \in [Users -> Nat] /\ outside' \in 0 .. MaxOutside
      BY <1>1, <1>11, BoundsAssumption DEF CommittedElsewhere
    <2> QED BY <1>1, <1>2, <1>11, <2>1 DEF CommittedElsewhere
  <1>12. ASSUME NEW u \in Users, NEW q \in Questions, Ask(u, q) PROVE TypeInv'
    <2>1. facts' \subseteq Facts
      BY <1>1, <1>12, RememberedIsFact DEF Ask
    <2> QED BY <1>1, <1>2, <1>12, <2>1 DEF Ask
  <1>13. ASSUME NEW id \in Identities, Forget(id) PROVE TypeInv'
    <2>1. Balanced(spent')
      BY <1>1, <1>13, ForgettingBalances
    <2> QED BY <1>1, <1>2, <1>13, <2>1 DEF Forget
  <1>14. ASSUME NEW e \in cache, Expire(e) PROVE TypeInv'
    BY <1>1, <1>2, <1>14 DEF Expire
  <1>15. CASE Restart
    <2>1. request' \in Requests /\ Balanced(spent')
      BY <1>15, NothingBalances DEF Restart, Requests
    <2> QED BY <1>1, <1>2, <1>15, <2>1 DEF Restart
  <1>16. CASE UNCHANGED vars
    BY <1>1, <1>2, <1>16 DEF vars
  <1> QED BY <1>4, <1>5, <1>6, <1>7, <1>8, <1>9, <1>10, <1>11, <1>12, <1>13, <1>14, <1>15, <1>16 DEF Next

\* A new process has an empty ledger and empty caches.
THEOREM TypeInit == Init => TypeInv
  <1> SUFFICES ASSUME Init PROVE TypeInv
    OBVIOUS
  <1>1. Balanced(spent)
    BY NothingBalances DEF Init
  <1> QED BY <1>1, BoundsAssumption DEF Init, TypeInv, TypeOK, Balanced

(* No bucket of the ledger falls below zero while the window slides over   *)
(* it (spend_circuit.py, _prune), what the caches hold are scoped answers  *)
(* and facts about a row or the region, and an open request is a call.     *)
THEOREM TypeCorrect == Spec => []TypeOK
  <1>1. TypeInv => TypeOK
    BY DEF TypeInv
  <1> QED BY <1>1, TypeInit, TypeStep, PTL DEF Spec

(* The bucket of the process holds the sum of what its identities have     *)
(* spent, however charges and the sliding window interleave                *)
(* (spend_circuit.py, record writes both buckets, _prune drops from both). *)
THEOREM LedgerBalances == Spec => []Balanced(spent)
  <1>1. TypeInv => Balanced(spent)
    BY DEF TypeInv
  <1> QED BY <1>1, TypeInit, TypeStep, PTL DEF Spec

=============================================================================
