--------------------------- MODULE DeliveryDialog ---------------------------
(***************************************************************************)
(* TemplateDeliveryDialog of the web application: the disclaimer, the      *)
(* acknowledgment, and the two calls that deliver a draft.  The draft and  *)
(* the organization come from outside and may change in any render, also   *)
(* while a call is out.                                                    *)
(*                                                                         *)
(* inFlightRef is set and read at once; pending is what the last render    *)
(* saw of the mutations, and only pending disables the controls.  An       *)
(* address that is not well formed makes no call and changes only a        *)
(* message.                                                                *)
(***************************************************************************)
EXTENDS DeliveryCalls

CONSTANT
    Mine    \* the address of the signed-in user, which the field starts with

ASSUME MineAssumption == Mine \in Email

VARIABLES
    config,      \* what the draft's fingerprint is taken of
    open,
    step,
    bottom,      \* hasReachedBottom
    ticked,      \* acknowledged
    email,
    error,       \* the alert
    accepted,    \* emailAccepted
    inFlight,    \* inFlightRef
    pending,     \* as last rendered
    emailKey     \* emailKeyRef: a key and what it was made for

attemptState == <<step, bottom, ticked, email, error, accepted>>
refs == <<inFlight, pending, emailKey>>
vars == <<calls, history, config, open, attemptState, refs>>

NoEmailKey == [key |-> NoKey]

TypeOK ==
    /\ CallsTypeOK
    /\ config \in Config
    /\ open \in BOOLEAN
    /\ step \in {"disclaimer", "delivery"}
    /\ bottom \in BOOLEAN
    /\ ticked \in BOOLEAN
    /\ email \in Email
    /\ error \in {"none", "attention", "download", "email"}
    /\ accepted \in BOOLEAN
    /\ inFlight \in BOOLEAN
    /\ pending \in BOOLEAN
    /\ emailKey \in [key : Nat, config : Config, email : Email] \cup {NoEmailKey}

Init ==
    /\ CallsInit
    /\ config \in Config
    /\ open = FALSE
    /\ step = "disclaimer"
    /\ bottom = FALSE
    /\ ticked = FALSE
    /\ email = Mine
    /\ error = "none"
    /\ accepted = FALSE
    /\ inFlight = FALSE
    /\ pending = FALSE
    /\ emailKey = NoEmailKey

-----------------------------------------------------------------------------
(* Opening, closing and changes from outside *)

\* What resetAttempt and a changed fingerprint have in common.
ResetView ==
    /\ step' = "disclaimer"
    /\ bottom' = FALSE
    /\ ticked' = FALSE
    /\ email' = Mine
    /\ error' = "none"
    /\ accepted' = FALSE

\* resetAttempt; reset() of a mutation makes it idle.
ResetAttempt ==
    /\ ResetView
    /\ emailKey' = NoEmailKey
    /\ inFlight' = FALSE
    /\ pending' = FALSE

Open ==
    /\ ~ open
    /\ attempt < MaxAttempts
    /\ open' = TRUE
    /\ attempt' = attempt + 1
    /\ ResetAttempt
    /\ UNCHANGED <<calls, agreed, config>>

\* Cancel, Escape, the cross or a click outside.
Close ==
    /\ open
    /\ step = "delivery" => ~ pending
    /\ ~ inFlight
    /\ open' = FALSE
    /\ ResetAttempt
    /\ UNCHANGED <<calls, history, config>>

\* Mutant: a new configuration leaves the acknowledgment as it is.
ReconfigureQuietly(c) ==
    /\ c # config
    /\ config' = c
    /\ UNCHANGED <<calls, history, open, attemptState, refs>>

\* A render with another fingerprint; the key and the call that is out stay.
Reconfigure(c) ==
    /\ c # config
    /\ config' = c
    /\ ResetView
    /\ UNCHANGED <<calls, history, open, refs>>

\* The mutations' state reaches the controls.
Render ==
    /\ pending # (out # {})
    /\ pending' = (out # {})
    /\ UNCHANGED <<calls, history, config, open, attemptState, inFlight, emailKey>>

-----------------------------------------------------------------------------
(* The two steps *)

ReachBottom ==
    /\ open /\ step = "disclaimer"
    /\ bottom' = TRUE
    /\ UNCHANGED <<calls, history, config, open, step, ticked, email, error, accepted, refs>>

Tick(b) ==
    /\ open /\ step = "disclaimer" /\ bottom
    /\ ticked' = b
    /\ agreed' = IF b THEN [attempt |-> attempt, config |-> config] ELSE NoAgreement
    /\ UNCHANGED <<calls, attempt, config, open, step, bottom, email, error, accepted, refs>>

Continue ==
    /\ open /\ step = "disclaimer" /\ ticked
    /\ step' = "delivery"
    /\ UNCHANGED <<calls, history, config, open, bottom, ticked, email, error, accepted, refs>>

Back ==
    /\ open /\ step = "delivery" /\ ~ pending
    /\ step' = "disclaimer"
    /\ error' = "none"
    /\ accepted' = FALSE
    /\ UNCHANGED <<calls, history, config, open, bottom, ticked, email, refs>>

EditEmail(e) ==
    /\ open /\ step = "delivery" /\ ~ pending
    /\ e # email
    /\ email' = e
    /\ accepted' = FALSE
    /\ UNCHANGED <<calls, history, config, open, step, bottom, ticked, error, refs>>

-----------------------------------------------------------------------------
(* The two calls *)

\* Mutant: a click looks at what was rendered.
MayCallAsRendered == open /\ step = "delivery" /\ ticked /\ ~ pending

\* The button is not disabled, and the first line of either handler lets it pass.
MayCall == open /\ step = "delivery" /\ ticked /\ ~ pending /\ ~ inFlight

\* configurationForRequest throws.
RefuseIncomplete ==
    /\ MayCall
    /\ config \notin Complete
    /\ error' = "attention"
    /\ UNCHANGED <<calls, history, config, open, step, bottom, ticked, email, accepted, refs>>

DownloadDocument ==
    /\ MayCall
    /\ config \in Complete
    /\ Post("download", NoKey, config, Mine)
    /\ inFlight' = TRUE
    /\ error' = "none"
    /\ UNCHANGED <<keys, history, config, open, step, bottom, ticked, email,
                   accepted, pending, emailKey>>

\* Mutant: a key is made once and kept.
KeyFits == emailKey # NoEmailKey

\* Mutant: a press makes a key.
KeyNeverFits == FALSE

KeyMatches ==
    /\ emailKey # NoEmailKey
    /\ emailKey.config = config
    /\ emailKey.email = email

EmailDocument ==
    LET key == IF KeyMatches THEN emailKey.key ELSE keys + 1 IN
    /\ MayCall
    /\ config \in Complete
    /\ Post("email", key, config, email)
    /\ keys' = IF KeyMatches THEN keys ELSE key
    /\ emailKey' = [key |-> key, config |-> config, email |-> email]
    /\ inFlight' = TRUE
    /\ error' = "none"
    /\ accepted' = FALSE
    /\ UNCHANGED <<history, config, open, step, bottom, ticked, email, pending>>

\* Mutant: the early return for another draft leaves inFlightRef set.
DownloadedKeepingFlight(i) ==
    /\ i \in out
    /\ sent[i].kind = "download"
    /\ Settle(i)
    /\ IF sent[i].config = config
       THEN /\ open' = FALSE
            /\ ResetAttempt
       ELSE UNCHANGED <<open, attemptState, refs>>
    /\ UNCHANGED <<history, config>>

\* The document is saved and the dialog closed, unless it is another draft's by now.
Downloaded(i) ==
    /\ i \in out
    /\ sent[i].kind = "download"
    /\ Settle(i)
    /\ IF sent[i].config = config
       THEN /\ open' = FALSE
            /\ ResetAttempt
       ELSE /\ inFlight' = FALSE
            /\ UNCHANGED <<open, attemptState, pending, emailKey>>
    /\ UNCHANGED <<history, config>>

\* Mutant: success is shown whatever is shown beside it.
EmailedAnyhow(i) ==
    /\ i \in out
    /\ sent[i].kind = "email"
    /\ MailedFor(i)
    /\ Settle(i)
    /\ accepted' = TRUE
    /\ inFlight' = FALSE
    /\ UNCHANGED <<history, config, open, step, bottom, ticked, email, error, pending, emailKey>>

Emailed(i) ==
    /\ i \in out
    /\ sent[i].kind = "email"
    /\ MailedFor(i)
    /\ Settle(i)
    /\ accepted' = IF sent[i].config = config THEN TRUE ELSE accepted
    /\ inFlight' = FALSE
    /\ UNCHANGED <<history, config, open, step, bottom, ticked, email, error, pending, emailKey>>

\* Any other answer, or none; the alert shows under whatever draft is there now.
CallFails(i) ==
    /\ i \in out
    /\ Settle(i)
    /\ error' = sent[i].kind
    /\ inFlight' = FALSE
    /\ UNCHANGED <<history, config, open, step, bottom, ticked, email, accepted,
                   pending, emailKey>>

-----------------------------------------------------------------------------

Visit ==
    \/ Open
    \/ Close
    \/ ReachBottom
    \/ \E b \in BOOLEAN : Tick(b)
    \/ Continue
    \/ Back
    \/ \E e \in Email : EditEmail(e)

Deliver ==
    \/ RefuseIncomplete
    \/ DownloadDocument
    \/ EmailDocument

Answer(i) ==
    \/ Downloaded(i)
    \/ Emailed(i)
    \/ CallFails(i)

Next ==
    \/ Visit
    \/ Deliver
    \/ \E c \in Config : Reconfigure(c)
    \/ Render
    \/ \E i \in out : Answer(i)
    \/ \E i \in 1..Len(sent) :
          Mail(i) /\ UNCHANGED <<history, config, open, attemptState, refs>>

Spec == Init /\ [][Next]_vars

-----------------------------------------------------------------------------
(* Properties *)

(* Pressing Email again after a failure, a lost answer or a success goes with the  *)
(* key it went with before, as long as the attempt has sent nothing else by email: *)
(* the reader who tries again is not mailed twice.                                 *)
SameContent(a, b) ==
    /\ a.kind = "email" /\ b.kind = "email"
    /\ a.attempt = b.attempt /\ a.config = b.config /\ a.email = b.email

ResendsAreOneEmail ==
    \A i, j \in mailed : i < j /\ SameContent(sent[i], sent[j])
        => \E k \in i..j : sent[k].kind = "email" /\ ~ SameContent(sent[i], sent[k])

(* The dialog says that the email was accepted only if one was, in this attempt    *)
(* and with the configuration it now shows: an answer that comes after the draft   *)
(* changed must not vouch for the new one (emailDocument after its await).         *)
AcceptedIsTrue ==
    accepted =>
        \E i \in mailed : sent[i].config = config /\ sent[i].attempt = attempt

(* The dialog is shut exactly while a call is out, through every reset, change of  *)
(* the draft and late answer: closing is refused while inFlightRef is set, so a    *)
(* path out of a handler that forgets to clear it would shut the reader in, and a  *)
(* reset that clears it would let a second call leave beside the first             *)
(* (downloadDocument, emailDocument, resetAttempt, changeOpen).                    *)
ShutExactlyByACall == inFlight <=> out # {}

=============================================================================
