------------------------------ MODULE DraftShelf ----------------------------
(***************************************************************************)
(* What the drafts of one browser tab are to the sender: a shelf of        *)
(* agreements, each filled in step after step and never with a step left   *)
(* out, whose steps may be filled in again, and which stays until the      *)
(* sender throws it away; and the sender's organization.                   *)
(***************************************************************************)
EXTENDS Naturals

CONSTANTS
    Draft,
    LastStep,       \* a draft has steps 1 .. LastStep
    Value,          \* the values of a step
    Organization,
    NoOrganization

Step == 1 .. LastStep

VARIABLES
    shelf,          \* the values of each draft's steps, those filled in
    organization

vars == <<shelf, organization>>

Empty == [s \in {} |-> s]

Init ==
    /\ shelf = [d \in Draft |-> Empty]
    /\ organization = NoOrganization

\* A step is filled in, once those before it are; the first begins the draft.
Fill(d, s, v) ==
    /\ \A r \in Step : r < s => r \in DOMAIN shelf[d]
    /\ shelf' = [shelf EXCEPT ![d] =
           [r \in DOMAIN shelf[d] \cup {s} |-> IF r = s THEN v ELSE shelf[d][r]]]
    /\ UNCHANGED organization

ThrowAway(d) ==
    /\ shelf' = [shelf EXCEPT ![d] = Empty]
    /\ UNCHANGED organization

SetOrganization(o) ==
    /\ organization' = o
    /\ UNCHANGED shelf

Next ==
    \/ \E d \in Draft :
          \/ \E s \in Step, v \in Value : Fill(d, s, v)
          \/ ThrowAway(d)
    \/ \E o \in Organization : SetOrganization(o)

Spec == Init /\ [][Next]_vars

-----------------------------------------------------------------------------

(* A draft is filled in from its first step on: it may end early, but no step   *)
(* is missing before one that is there, so where to resume it is one step.      *)
NoStepIsLeftOut ==
    \A d \in Draft :
        /\ DOMAIN shelf[d] \subseteq Step
        /\ \A s \in DOMAIN shelf[d], r \in Step : r < s => r \in DOMAIN shelf[d]

=============================================================================
