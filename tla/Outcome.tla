------------------------------ MODULE Outcome ------------------------------
(***************************************************************************)
(* What the window promises about an operation that has to reach the       *)
(* network: it is delivered, or the user is told that it was not.  Only    *)
(* the end of the process may leave it at neither.  Outbox implements it.  *)
(***************************************************************************)
CONSTANT Op       \* sends, edits, unsends and tapbacks

VARIABLE outcome

OutcomeInit == outcome = [o \in Op |-> "unused"]

Begin(o) ==
    /\ outcome[o] = "unused"
    /\ outcome' = [outcome EXCEPT ![o] = "open"]

(* An operation can be refused on the spot. *)
Report(o) ==
    /\ outcome[o] \in {"unused", "open"}
    /\ outcome' = [outcome EXCEPT ![o] = "reported"]

(* Failures that wait together are reported together. *)
ReportAll(S) ==
    /\ S # {}
    /\ \A o \in S : outcome[o] = "open"
    /\ outcome' = [o \in Op |-> IF o \in S THEN "reported" ELSE outcome[o]]

Deliver(o) ==
    /\ outcome[o] = "open"
    /\ outcome' = [outcome EXCEPT ![o] = "delivered"]

(* The process ends. *)
Lose ==
    outcome' = [o \in Op |-> IF outcome[o] = "open" THEN "lost" ELSE outcome[o]]

OutcomeNext ==
    \/ \E o \in Op : Begin(o) \/ Report(o) \/ Deliver(o)
    \/ \E S \in SUBSET Op : ReportAll(S)
    \/ Lose

(* What may happen to an operation, and that it does not stay open for ever. *)
OutcomeSafety == OutcomeInit /\ [][OutcomeNext]_outcome

OutcomeSpec ==
    /\ OutcomeSafety
    /\ \A o \in Op : (outcome[o] = "open") ~> (outcome[o] # "open")
=============================================================================
