---------------------------- MODULE MCWebSession ----------------------------
(* WebSession on small instances.  What users do is bounded, and nothing else: *)
(* timers, answers, storage events and ends of sessions go on without limit,   *)
(* under the fairness of FairSpec.                                             *)
EXTENDS WebSession

CONSTANT MaxUserSteps   \* bound on sign-ins, sign-outs, page loads and API calls

VARIABLE userSteps      \* those so far

BoundedInit == Init /\ userSteps = 0

BoundedNext ==
    /\ Next
    /\ userSteps' = IF UserStep THEN userSteps + 1 ELSE userSteps
    /\ userSteps' <= MaxUserSteps

BoundedSpec ==
    /\ BoundedInit
    /\ [][BoundedNext]_<<vars, userSteps>>
    /\ Fairness

=============================================================================
