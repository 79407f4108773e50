---------------------------- MODULE EmailPromise ----------------------------
(***************************************************************************)
(* What an email delivery promises to the person who asks for it, whatever *)
(* the services do to keep it (specs/005, user story 3): a key stands for  *)
(* at most one email, and a request is told of success only when an email  *)
(* with its own recipient and configuration was accepted for its own key.  *)
(* A request that is told of failure may have been mailed all the same.    *)
(***************************************************************************)

CONSTANTS
    Request,    \* email requests, each answered once
    Ask         \* what a request asks for: its key and its content

VARIABLES
    ask,        \* what each request asks for
    mailed,     \* the requests for which the provider accepted an email
    told        \* what each request was told: "nothing", "success" or "failure"

vars == <<ask, mailed, told>>

Init ==
    /\ ask \in [Request -> Ask]
    /\ mailed = {}
    /\ told = [r \in Request |-> "nothing"]

Mail(r) ==
    /\ \A s \in mailed : ask[s].key # ask[r].key
    /\ mailed' = mailed \cup {r}
    /\ UNCHANGED <<ask, told>>

TellSuccess(r) ==
    /\ told[r] = "nothing"
    /\ \E s \in mailed : ask[s] = ask[r]
    /\ told' = [told EXCEPT ![r] = "success"]
    /\ UNCHANGED <<ask, mailed>>

\* A restart of the API breaks off several requests at once.
TellFailure(R) ==
    /\ \A r \in R : told[r] = "nothing"
    /\ told' = [r \in Request |-> IF r \in R THEN "failure" ELSE told[r]]
    /\ UNCHANGED <<ask, mailed>>

Next ==
    \/ \E r \in Request : Mail(r) \/ TellSuccess(r)
    \/ \E R \in SUBSET Request : TellFailure(R)

Spec == Init /\ [][Next]_vars

-----------------------------------------------------------------------------
(* What follows from the promise *)

(* However often a delivery is asked for with one key, one email is accepted (the  *)
(* Idempotency-Key of Send, whatever begin and finish let through).                *)
OneEmailPerKey ==
    \A r, s \in mailed : ask[r].key = ask[s].key => r = s

(* Who was told of success has been mailed, to the address and with the document   *)
(* that this very request asked for, be it a duplicate or a retry.                 *)
SuccessIsTrue ==
    \A r \in Request :
        told[r] = "success" => \E s \in mailed : ask[s] = ask[r]

(* An answer is given once, and nothing accepted is taken back.                    *)
AnswersStand ==
    [][/\ mailed \subseteq mailed'
       /\ \A r \in Request : told[r] # "nothing" => told'[r] = told[r]]_vars

=============================================================================
