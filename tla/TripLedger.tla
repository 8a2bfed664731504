----------------------------- MODULE TripLedger -----------------------------
(***************************************************************************)
(* What the trip commands promise, apart from how they are built: a trip   *)
(* is a log of effects that only grows, one command id has at most one     *)
(* effect on at most one trip, and whoever is told "processed" is told of  *)
(* an effect that is in the log, at the version it has there.              *)
(*                                                                         *)
(* TripCommand (concurrent handlers over a shared database) implements it. *)
(***************************************************************************)
EXTENDS Naturals, Sequences

CONSTANTS
    Trips,    \* trip ids
    Intents,  \* the things the traveller means to do
    Keyed,    \* the intents whose requests carry a command_id
    IdOf      \* the command_id of each of those

VARIABLES
    log,      \* the effects on each trip, in the order of its versions
    answers   \* the effects the client has been told of

\* The id has had its effect, on whatever trip.
IdUsed(i) ==
    \E t \in Trips : \E n \in DOMAIN log[t] :
        log[t][n] \in Keyed /\ IdOf[log[t][n]] = IdOf[i]

Init ==
    /\ log = [t \in Trips |-> <<>>]
    /\ answers = {}

\* A command takes effect: the trip's next version.
Apply(i, t) ==
    /\ i \in Keyed => ~IdUsed(i)
    /\ log' = [log EXCEPT ![t] = Append(@, i)]
    /\ UNCHANGED answers

\* The client learns of an effect, possibly again.
Answer(i, t, n) ==
    /\ log[t][n] = i
    /\ answers' = answers \cup {[intent |-> i, trip |-> t, version |-> n]}
    /\ UNCHANGED log

Next ==
    \E t \in Trips :
        \/ \E i \in Intents : Apply(i, t)
        \/ \E n \in DOMAIN log[t] : Answer(log[t][n], t, n)

Spec == Init /\ [][Next]_<<log, answers>>
=============================================================================
