--------------------------- MODULE SignalCustody ---------------------------
(***************************************************************************)
(* What the offline-first signal pipeline promises, apart from how it is   *)
(* built.  A signal whose emit() returned true is in somebody's custody    *)
(* for ever after: the device holds the row, or the server has stored it,  *)
(* or the person signed out and the device was wiped on purpose.  The      *)
(* device lets go of a row only once the server has it.                    *)
(*                                                                         *)
(* SignalSync (the device) and SignalIngest (the server) implement this.   *)
(***************************************************************************)
CONSTANT Signals

VARIABLES
    known,   \* signals the device has accepted
    held,    \* signals the device has a row for
    stored,  \* signals the server has a row for
    wiped    \* signals whose row a sign-out deleted

vars == <<known, held, stored, wiped>>

TypeOK ==
    /\ known \subseteq Signals
    /\ held \subseteq Signals
    /\ stored \subseteq Signals
    /\ wiped \subseteq Signals

Init == known = {} /\ held = {} /\ stored = {} /\ wiped = {}

\* emit() persists a new signal before any network attempt.
Accept(s) ==
    /\ s \notin known
    /\ known' = known \cup {s}
    /\ held' = held \cup {s}
    /\ UNCHANGED <<stored, wiped>>

\* The server stores some signals it was sent; it never un-stores one.
Store(S) ==
    /\ S \subseteq known
    /\ stored' = stored \cup S
    /\ UNCHANGED <<known, held, wiped>>

\* The device drops rows, and only ones the server has.
Release(S) ==
    /\ S \subseteq stored
    /\ held' = held \ S
    /\ UNCHANGED <<known, stored, wiped>>

\* Sign-out deletes every row of the device.
Wipe ==
    /\ held' = {}
    /\ wiped' = wiped \cup held
    /\ UNCHANGED <<known, stored>>

Next ==
    \/ \E s \in Signals : Accept(s)
    \/ \E S \in SUBSET Signals : Store(S) \/ Release(S)
    \/ Wipe

Spec == Init /\ [][Next]_vars

(***************************************************************************)
(* No accepted signal is lost silently: offline_database.dart calls the    *)
(* insert "the durability guarantee".                                      *)
(***************************************************************************)
NoSilentLoss == known \subseteq held \cup stored \cup wiped
=============================================================================
