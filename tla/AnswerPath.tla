----------------------------- MODULE AnswerPath -----------------------------
(***************************************************************************)
(* How one server process answers a traveller's message: POST /trip/event  *)
(* for the events a language model words (translate, reroute, ...) and for *)
(* ask_info.  Three stores live in process memory and are lost with it:    *)
(* the semantic cache of light answers, the exact-match cache of catalog   *)
(* facts, and the provider-spend ledger.                                   *)
(*                                                                         *)
(* The process runs one event loop and the only await on this path is the  *)
(* completion call itself, so everything between two completions is one    *)
(* step; while a completion is out, time passes, the trip changes and      *)
(* other requests run.  Provider keys are configured: without one nothing  *)
(* here is called and the words come from a template.                      *)
(*                                                                         *)
(* A question stands for all wordings whose embeddings are within the      *)
(* cache's threshold, a place for the stop a trip is at together with its  *)
(* region and local day.  Spend is in whole units.                         *)
(***************************************************************************)
EXTENDS Integers, FiniteSets

CONSTANTS
    Users,          \* travellers, each with one trip
    Workers,        \* requests the process can have open at once
    Messages,       \* meanings of the free text of a light or heavy event
    Questions,      \* meanings of an ask_info question
    IntentOf,       \* the one intent of a closed set a question is classed as
    Region,         \* what a fact about the region's dishes is about
    Rows,           \* catalog rows of the region; a catalogued stop carries its row's id
    Strays,         \* stops that carry no venue id (bookings, private adds)
    RowNamed,       \* the row that a stop's name finds in the catalog, or NoRow
    NoRow,
    NoCall,         \* an open request slot that is free
    Anonymous,      \* the spend bucket of calls made without a user id
    Process,        \* the spend bucket of the whole process
    ProcessCap, IdentityCap,
    Reserve,        \* what a completion reserves
    MaxCost,        \* the most a completion really costs
    EmbedCost,      \* what an embedding reserves and costs
    ChainLength,    \* models tried in turn, by routing tier
    MaxRequests,    \* bound: light and heavy requests begun
    MaxOutside      \* bound: commits by other processes

Tiers == {"light", "heavy"}
Places == Rows \cup Strays
Identities == Users \cup {Anonymous}

ASSUME SpendAssumption ==
    /\ ProcessCap \in Nat \ {0} /\ IdentityCap \in Nat \ {0}
    /\ Reserve \in Nat /\ MaxCost \in Nat /\ EmbedCost \in Nat
    /\ IsFiniteSet(Workers)
    /\ Process \notin Identities /\ Anonymous \notin Users
    /\ ChainLength \in [Tiers -> Nat \ {0}]

ASSUME BoundsAssumption == MaxRequests \in Nat /\ MaxOutside \in Nat

Intents == {"fact", "dish", "trip", "options", "rule", "change", "other"}

ASSUME CatalogAssumption ==
    /\ NoRow \notin Places \cup {Region} /\ Rows \cap Strays = {}
    /\ IntentOf \in [Questions -> Intents]
    /\ RowNamed \in [Places -> Rows \cup {NoRow}]

VARIABLES
    at,         \* user -> current-or-next stop of the trip
    version,    \* user -> version of the stored trip
    cache,      \* the semantic cache
    facts,      \* the exact-match cache of catalog facts
    spent,      \* bucket -> provider spend inside the 24 h window
    request,    \* worker -> the completion it waits for
    begun, outside

vars == <<at, version, cache, facts, spent, request, begun, outside>>

\* What a prompt says of the traveller, and who worded the answer.
Answers == [user : Users, place : Places, version : Nat, by : {"model", "canned"}]

\* A cached answer under the scope it is found by.
Entries == [user : Users, place : Places, version : Nat, question : Messages,
            space : {"real", "synthetic"}, answer : Answers]

Calls == [tier : Tiers, user : Users, question : Messages, place : Places,
          loaded : Nat, model : Nat]

ASSUME CallAssumption == NoCall \notin Calls

Facts == [question : Questions, key : Rows \cup {NoRow}, about : Rows \cup {Region}]

TypeOK ==
    /\ at \in [Users -> Places]
    /\ version \in [Users -> Nat]
    /\ cache \subseteq Entries
    /\ facts \subseteq Facts
    /\ spent \in [Identities \cup {Process} -> Nat]
    /\ request \in [Workers -> Calls \cup {NoCall}]
    /\ begun \in 0 .. MaxRequests
    /\ outside \in 0 .. MaxOutside

NoSpend == [b \in Identities \cup {Process} |-> 0]

Init ==
    /\ at \in [Users -> Places]
    /\ version = [u \in Users |-> 0]
    /\ cache = {} /\ facts = {}
    /\ spent = NoSpend
    /\ request = [w \in Workers |-> NoCall]
    /\ begun = 0 /\ outside = 0

-----------------------------------------------------------------------------
(***************************************************************************)
(* The spend ledger.  `s` is the ledger a call is checked against.         *)
(***************************************************************************)

\* Mutant: a reservation may reach the cap.
FitsUpToCap(s, id, usd) ==
    /\ s[Process] + usd <= ProcessCap
    /\ s[id] + usd <= IdentityCap

\* A reservation must fit the bucket of the process and that of the identity.
Fits(s, id, usd) ==
    /\ s[Process] + usd < ProcessCap
    /\ s[id] + usd < IdentityCap

\* What a successful call really cost goes into both buckets.
Charge(s, id, usd) == [s EXCEPT ![Process] = @ + usd, ![id] = @ + usd]

\* An embedding is one synchronous call, charged to the shared bucket because
\* no caller passes a user id.  When the provider fails, the synthetic vector
\* stands in and nothing is charged.
Embedded(s, space) == IF space = "real" THEN Charge(s, Anonymous, EmbedCost) ELSE s

\* Mutant: what the process spent is pruned from the identity's bucket.
ForgetProcess(id) ==
    /\ \E usd \in 1 .. spent[Process] :
          spent' = [spent EXCEPT ![Process] = @ - usd, ![id] = @ - usd]
    /\ UNCHANGED <<at, version, cache, facts, request, begun, outside>>

\* The window slides: part of an identity's spend is older than 24 h.
Forget(id) ==
    /\ \E usd \in 1 .. spent[id] :
          spent' = [spent EXCEPT ![Process] = @ - usd, ![id] = @ - usd]
    /\ UNCHANGED <<at, version, cache, facts, request, begun, outside>>

-----------------------------------------------------------------------------
(***************************************************************************)
(* The semantic cache.                                                     *)
(***************************************************************************)

\* Mutant: the version, like the stop, is read again when the answer is stored.
ScopeNow(u, loaded) == [user |-> u, place |-> at[u], version |-> version[u]]

\* The exact-match context of an entry, resolved when it is called for: the
\* stop the trip is at now, and the version of the trip as it was loaded.
Scope(u, loaded) == [user |-> u, place |-> at[u], version |-> loaded]

InScope(e, c) == e.user = c.user /\ e.place = c.place /\ e.version = c.version

\* Real and synthetic vectors are nearly orthogonal and never match.
Hits(c, q, space) ==
    {e \in cache : InScope(e, c) /\ e.question = q /\ e.space = space}

Entry(c, q, space, answer) ==
    [user |-> c.user, place |-> c.place, version |-> c.version,
     question |-> q, space |-> space, answer |-> answer]

\* A day after it was stored, an entry is purged before the cache is read.
Expire(e) ==
    /\ cache' = cache \ {e}
    /\ UNCHANGED <<at, version, facts, spent, request, begun, outside>>

-----------------------------------------------------------------------------
(***************************************************************************)
(* Light and heavy requests.                                               *)
(***************************************************************************)

Free(w) == request' = [request EXCEPT ![w] = NoCall]

\* The trip is committed if it is still at the version that was loaded; a
\* conflict (409) and a failing database leave it as it is.  A heavy event
\* has edited the stops, so the trip may be at another one.
Commit(u, loaded, tier) ==
    \/ /\ version[u] = loaded
       /\ version' = [version EXCEPT ![u] = @ + 1]
       /\ \E p \in IF tier = "heavy" THEN Places ELSE {at[u]} :
             at' = [at EXCEPT ![u] = p]
    \/ UNCHANGED <<at, version>>

\* A light answer that echoes no booking reference is stored under the scope
\* as it is now, with the question embedded again.
Store(r, by, s) ==
    LET answer == [user |-> r.user, place |-> r.place, version |-> r.loaded, by |-> by]
    IN  \E space \in {"real", "synthetic"} :
           /\ spent' = Embedded(s, space)
           /\ cache' = cache \cup {Entry(Scope(r.user, r.loaded), r.question, space, answer)}

\* The answer is stored before the trip is committed: a spend reject there
\* ends the request with 503, and the answer is neither kept nor sent.
Finish(w, r, by, s) ==
    /\ Free(w)
    /\ \/ /\ r.tier = "heavy" \/ by = "model"           \* never cached, or restricted
          /\ Commit(r.user, r.loaded, r.tier)
          /\ spent' = s /\ cache' = cache
       \/ /\ r.tier = "light" /\ ~Fits(s, Anonymous, EmbedCost)
          /\ spent' = s /\ UNCHANGED <<at, version, cache>>
       \/ /\ r.tier = "light" /\ Fits(s, Anonymous, EmbedCost)
          /\ Store(r, by, s)
          /\ Commit(r.user, r.loaded, r.tier)

\* The next model of the chain is called if its reservation fits; a spend
\* reject ends the chain, and the words come from a template.
Attempt(w, r, s) ==
    \/ /\ Fits(s, r.user, Reserve)
       /\ request' = [request EXCEPT ![w] = r]
       /\ spent' = s
       /\ UNCHANGED <<at, version, cache>>
    \/ /\ ~Fits(s, r.user, Reserve)
       /\ Finish(w, r, "canned", s)

Call(tier, u, q, p) ==
    [tier |-> tier, user |-> u, question |-> q, place |-> p,
     loaded |-> version[u], model |-> 1]

\* Every request but a typed one begins with an embedding: of the question to
\* look it up, or of the search for replacement venues.  503 if it is capped.
Capped(w) ==
    /\ request[w] = NoCall /\ begun < MaxRequests
    /\ ~Fits(spent, Anonymous, EmbedCost)
    /\ begun' = begun + 1
    /\ UNCHANGED <<at, version, cache, facts, spent, request, outside>>

Begin(w) ==
    /\ request[w] = NoCall /\ begun < MaxRequests
    /\ Fits(spent, Anonymous, EmbedCost)
    /\ begun' = begun + 1
    /\ UNCHANGED <<facts, outside>>

\* A light message: a cached answer is served, and the event committed like
\* any other; else the model is asked, about the stop the message names or
\* the one the trip is at.
BeginLight(w, u, q) ==
    /\ Begin(w)
    /\ \E space \in {"real", "synthetic"} :
         LET s == Embedded(spent, space)
             hits == Hits(Scope(u, version[u]), q, space)
         IN  \/ /\ hits # {}
                /\ Commit(u, version[u], "light")
                /\ spent' = s /\ UNCHANGED <<cache, request>>
             \/ /\ hits = {}
                /\ \E p \in Rows \cup {at[u]} : Attempt(w, Call("light", u, q, p), s)

\* A heavy event searches venues and edits the stops.  A swap, and an event
\* without a candidate, has a fixed reply and is committed at once.
BeginHeavy(w, u, q) ==
    /\ Begin(w)
    /\ \E space \in {"real", "synthetic"} :
         LET s == Embedded(spent, space)
         IN  \/ /\ Commit(u, version[u], "heavy")
                /\ spent' = s /\ UNCHANGED <<cache, request>>
             \/ Attempt(w, Call("heavy", u, q, at[u]), s)

\* A mood or weather event, and a swap for a venue the traveller has chosen,
\* search nothing, so nothing is embedded; the swap has a fixed reply.
BeginUnsearched(w, u, q) ==
    /\ request[w] = NoCall /\ begun < MaxRequests
    /\ begun' = begun + 1
    /\ \/ Attempt(w, Call("heavy", u, q, at[u]), spent)
       \/ /\ Commit(u, version[u], "heavy")
          /\ UNCHANGED <<cache, spent, request>>
    /\ UNCHANGED <<facts, outside>>

\* The completion arrives and is charged at what it cost.
Answered(w) ==
    /\ request[w] # NoCall
    /\ \E usd \in 0 .. MaxCost :
          Finish(w, request[w], "model", Charge(spent, request[w].user, usd))
    /\ UNCHANGED <<facts, begun, outside>>

\* The completion fails: the next model, or after the last one the template.
CallFails(w) ==
    LET r == request[w]
    IN  /\ r # NoCall
        /\ \/ /\ r.model < ChainLength[r.tier]
              /\ Attempt(w, [r EXCEPT !.model = @ + 1], spent)
           \/ /\ r.model >= ChainLength[r.tier]
              /\ Finish(w, r, "canned", spent)
        /\ UNCHANGED <<facts, begun, outside>>

-----------------------------------------------------------------------------
(***************************************************************************)
(* ask_info: catalog facts and trip state, never a model, never a commit.  *)
(***************************************************************************)

\* The row whose facts a question at this stop is answered from is found by
\* the stop's name, exactly or as a part of the row's name: another row than
\* the stop's own if one of the same name comes first, or its own is renamed.
RowOf(p) == RowNamed[p]

\* What the answer is about: the region's dishes, or the row of the stop.
Source(q, p) == IF IntentOf[q] = "dish" THEN Region ELSE RowOf(p)

\* Mutant: facts are keyed by question and region only.
KeyOfRegion(p) == NoRow

\* The venue id in the key; a stop without one has the empty id.
KeyOf(p) == IF p \in Rows THEN p ELSE NoRow

Known(q, p) == {f \in facts : f.question = q /\ f.key = KeyOf(p)}

Cacheable == {"fact", "dish"}

\* A fact comes from the cache, else from the catalog; a question the catalog
\* says nothing about is refused.
FactReply(q, p) ==
    IF Known(q, p) # {} THEN [path |-> "cache", about |-> (CHOOSE f \in Known(q, p) : TRUE).about]
    ELSE IF Source(q, p) = NoRow THEN [path |-> "refused", about |-> NoRow]
    ELSE [path |-> "catalog", about |-> Source(q, p)]

\* Every other intent is answered from the trip's stops, the region's catalog
\* and rules, with a proposal the traveller has to confirm, or refused; it is
\* never cached.
Reply(q, p) ==
    IF IntentOf[q] \in Cacheable THEN FactReply(q, p)
    ELSE [path |-> IntentOf[q], about |-> NoRow]

\* What a reply leaves in the cache, for every traveller.
Remembered(q, p, reply) ==
    IF reply.path = "catalog"
    THEN {[question |-> q, key |-> KeyOf(p), about |-> reply.about]}
    ELSE {}

Ask(u, q) ==
    /\ facts' = facts \cup Remembered(q, at[u], Reply(q, at[u]))
    /\ UNCHANGED <<at, version, cache, spent, request, begun, outside>>

-----------------------------------------------------------------------------
\* Time passes or the traveller completes a stop's window: the trip is at
\* another stop, at the same version.
Move(u) ==
    /\ \E p \in Places \ {at[u]} : at' = [at EXCEPT ![u] = p]
    /\ UNCHANGED <<version, cache, facts, spent, request, begun, outside>>

\* Another process commits an event of this traveller.
CommittedElsewhere(u) ==
    /\ outside < MaxOutside
    /\ outside' = outside + 1
    /\ version' = [version EXCEPT ![u] = @ + 1]
    /\ UNCHANGED <<at, cache, facts, spent, request, begun>>

\* The process restarts: its memory and its open requests are gone.
Restart ==
    /\ cache' = {} /\ facts' = {} /\ spent' = NoSpend
    /\ request' = [w \in Workers |-> NoCall]
    /\ UNCHANGED <<at, version, begun, outside>>

Next ==
    \/ \E w \in Workers :
          \/ Capped(w) \/ Answered(w) \/ CallFails(w)
          \/ \E u \in Users, q \in Messages :
                BeginLight(w, u, q) \/ BeginHeavy(w, u, q) \/ BeginUnsearched(w, u, q)
    \/ \E u \in Users :
          \/ Move(u) \/ CommittedElsewhere(u)
          \/ \E q \in Questions : Ask(u, q)
    \/ \E id \in Identities : Forget(id)
    \/ \E e \in cache : Expire(e)
    \/ Restart

Spec == Init /\ [][Next]_vars

-----------------------------------------------------------------------------
(***************************************************************************)
(* Properties.                                                             *)
(***************************************************************************)

Open(b) ==
    {w \in Workers : request[w] # NoCall /\ (b = Process \/ request[w].user = b)}

(* A completion is checked before the call and charged after it, so calls  *)
(* that are out together do not see one another.  Even so each bucket,     *)
(* with all that its open calls can still cost, overshoots its cap by less *)
(* than one completion per worker; and embeddings, charged in the step     *)
(* that checks them, never reach the cap of their bucket.                  *)
SpendBounded ==
    /\ spent[Process] + Cardinality(Open(Process)) * MaxCost
           < ProcessCap + Cardinality(Workers) * MaxCost
    /\ \A u \in Users :
          spent[u] + Cardinality(Open(u)) * MaxCost
             < IdentityCap + Cardinality(Workers) * MaxCost
    /\ spent[Anonymous] < IdentityCap

(* Whatever a light message would be answered with from the cache was      *)
(* worded for the same traveller from the version of the trip that is      *)
(* stored now, though other requests commit between the prompt and the     *)
(* moment it is stored.  Of the stop it says nothing: see AnswersFitTheStop. *)
AnswersAreCurrent ==
    \A u \in Users, q \in Messages, space \in {"real", "synthetic"} :
        \A e \in Hits(Scope(u, version[u]), q, space) :
            e.answer.user = u /\ e.answer.version = version[u]

(* "The same question in another region, venue, ... never hits": what the  *)
(* cache serves was worded for the stop the trip is at.                    *)
AnswersFitTheStop ==
    \A u \in Users, q \in Messages, space \in {"real", "synthetic"} :
        \A e \in Hits(Scope(u, version[u]), q, space) : e.answer.place = at[u]

(* A fact that one traveller's question put into the cache is served to    *)
(* all of them; at every catalogued stop it is what the catalog says of    *)
(* that stop, although strays share one key.                               *)
CataloguedFactsOwnPlace ==
    \A u \in Users, q \in Questions :
        at[u] \in Rows /\ Reply(q, at[u]).path \in {"cache", "catalog"} =>
            Reply(q, at[u]).about = Source(q, at[u])

(* The key is "scoped to question + region + venue": a fact is what the    *)
(* catalog says of the stop it is served at, wherever that is.             *)
FactsOwnPlace ==
    \A u \in Users, q \in Questions :
        Reply(q, at[u]).path \in {"cache", "catalog"} =>
            Reply(q, at[u]).about = Source(q, at[u])

(* A model's answer the cache holds serves the traveller who repeats the   *)
(* question at the stop it was asked at.                                   *)
RepeatIsServed ==
    \A e \in cache :
        e.answer.by = "model" /\ e.place = at[e.user] =>
            Hits(Scope(e.user, version[e.user]), e.question, e.space) # {}

-----------------------------------------------------------------------------
=============================================================================
