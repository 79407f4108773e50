----------------------------- MODULE SowDialog ------------------------------
(***************************************************************************)
(* TemplateDeliveryDialog of the marketing site: the public configurator   *)
(* of a statement of work, with email delivery enabled.  Unlike the dialog *)
(* of the web application it owns what it configures, asks for it in a     *)
(* step of its own, and keeps one idempotency key that every change of     *)
(* content throws away.                                                    *)
(*                                                                         *)
(* React renders between two events of the user, so that pendingRef and    *)
(* the pending that disables the controls are one variable.  The page      *)
(* behind the open modal is inert: its triggers take no click.             *)
(***************************************************************************)
EXTENDS DeliveryCalls

CONSTANT
    Blank    \* a field that holds no well-formed address

ASSUME BlankAssumption == Blank \notin Email

VARIABLES
    config,     \* the company, its type and the answers
    open,
    step,
    bottom,     \* hasReachedBottom
    ticked,     \* acknowledged
    email,
    pending,    \* the call that is out
    notice,
    emailKey,   \* idempotencyKeyRef
    touched     \* how many calls had been made when the gate was last reset or edited

gate == <<bottom, ticked, email, pending, notice, emailKey>>
vars == <<calls, history, touched, config, open, step, gate>>

TypeOK ==
    /\ CallsTypeOK
    /\ config \in Config
    /\ open \in BOOLEAN
    /\ step \in {"configure", "disclaimer", "delivery"}
    /\ bottom \in BOOLEAN
    /\ ticked \in BOOLEAN
    /\ email \in Email \cup {Blank}
    /\ pending \in {"none", "download", "email"}
    /\ notice \in {"none", "unlocked", "working", "ready", "sent", "error"}
    /\ emailKey \in Nat
    /\ touched \in 0..Len(sent)

Init ==
    /\ CallsInit
    /\ config \in Config
    /\ open = FALSE
    /\ step = "configure"
    /\ bottom = FALSE
    /\ ticked = FALSE
    /\ email = Blank
    /\ pending = "none"
    /\ notice = "none"
    /\ emailKey = NoKey
    /\ touched = 0

-----------------------------------------------------------------------------
(* Opening, closing and configuring *)

ResetGate ==
    /\ bottom' = FALSE
    /\ ticked' = FALSE
    /\ email' = Blank
    /\ pending' = "none"
    /\ notice' = "none"
    /\ emailKey' = NoKey
    /\ touched' = Len(sent)

\* openFromTrigger; the configuration of an earlier attempt is still there.
Open ==
    /\ ~ open
    /\ attempt < MaxAttempts
    /\ open' = TRUE
    /\ attempt' = attempt + 1
    /\ step' = "configure"
    /\ ResetGate
    /\ UNCHANGED <<calls, agreed, config>>

\* Mutant: closing does not look whether a call is out.
CloseAnyway ==
    /\ open
    /\ open' = FALSE
    /\ step' = "configure"
    /\ ResetGate
    /\ UNCHANGED <<calls, history, config>>

\* The buttons are disabled and closeDialog returns early while a call is out.
Close ==
    /\ open
    /\ pending = "none"
    /\ open' = FALSE
    /\ step' = "configure"
    /\ ResetGate
    /\ UNCHANGED <<calls, history, config>>

\* updateAnswer, the company's name or its type.
Configure(c) ==
    /\ open /\ step = "configure"
    /\ c # config
    /\ config' = c
    /\ ResetGate
    /\ UNCHANGED <<calls, history, open, step>>

\* The browser holds a form back that is not complete.
ReviewDisclaimer ==
    /\ open /\ step = "configure"
    /\ config \in Complete
    /\ step' = "disclaimer"
    /\ ResetGate
    /\ UNCHANGED <<calls, history, config, open>>

-----------------------------------------------------------------------------
(* The disclaimer *)

ReachBottom ==
    /\ open /\ step = "disclaimer" /\ ~ bottom
    /\ bottom' = TRUE
    /\ notice' = "unlocked"
    /\ UNCHANGED <<calls, history, touched, config, open, step, ticked, email, pending, emailKey>>

Tick(b) ==
    /\ open /\ step = "disclaimer" /\ bottom
    /\ ticked' = b
    /\ agreed' = IF b THEN [attempt |-> attempt, config |-> config] ELSE NoAgreement
    /\ UNCHANGED <<calls, attempt, touched, config, open, step, bottom, email, pending, notice, emailKey>>

Continue ==
    /\ open /\ step = "disclaimer" /\ ticked
    /\ step' = "delivery"
    /\ notice' = "none"
    /\ UNCHANGED <<calls, history, touched, config, open, bottom, ticked, email, pending, emailKey>>

\* "Back" of the disclaimer and "Change answers" of the delivery.
BackToAnswers ==
    /\ open
    /\ \/ step = "disclaimer"
       \/ step = "delivery" /\ pending = "none"
    /\ step' = "configure"
    /\ ResetGate
    /\ UNCHANGED <<calls, history, config, open>>

-----------------------------------------------------------------------------
(* The delivery *)

EditEmail(e) ==
    /\ open /\ step = "delivery" /\ pending = "none"
    /\ e # email
    /\ email' = e
    /\ emailKey' = NoKey
    /\ touched' = Len(sent)
    /\ notice' = IF notice = "error" THEN "none" ELSE notice
    /\ UNCHANGED <<calls, history, config, open, step, bottom, ticked, pending>>

MayCall == open /\ step = "delivery" /\ ticked /\ pending = "none"

RefuseAddress ==
    /\ MayCall
    /\ email = Blank
    /\ notice' = "error"
    /\ UNCHANGED <<calls, history, touched, config, open, step, bottom, ticked, email, pending, emailKey>>

DownloadDocument ==
    /\ MayCall
    /\ \E e \in Email : Post("download", NoKey, config, e)
    /\ pending' = "download"
    /\ notice' = "working"
    /\ UNCHANGED <<keys, history, touched, config, open, step, bottom, ticked, email, emailKey>>

\* Mutant: createIdempotencyKey at every press.
EmailDocumentAfresh ==
    /\ MayCall
    /\ email # Blank
    /\ keys' = keys + 1
    /\ emailKey' = keys'
    /\ Post("email", emailKey', config, email)
    /\ pending' = "email"
    /\ notice' = "working"
    /\ UNCHANGED <<history, touched, config, open, step, bottom, ticked, email>>

EmailDocument ==
    /\ MayCall
    /\ email # Blank
    /\ keys' = IF emailKey = NoKey THEN keys + 1 ELSE keys
    /\ emailKey' = IF emailKey = NoKey THEN keys' ELSE emailKey
    /\ Post("email", emailKey', config, email)
    /\ pending' = "email"
    /\ notice' = "working"
    /\ UNCHANGED <<history, touched, config, open, step, bottom, ticked, email>>

\* Mutant: any answer is a success.
SucceedsUnread(i) ==
    /\ Settle(i)
    /\ pending' = "none"
    /\ notice' = IF sent[i].kind = "email" THEN "sent" ELSE "ready"
    /\ UNCHANGED <<history, touched, config, open, step, bottom, ticked, email, emailKey>>

Succeeds(i) ==
    /\ sent[i].kind = "email" => MailedFor(i)
    /\ Settle(i)
    /\ pending' = "none"
    /\ notice' = IF sent[i].kind = "email" THEN "sent" ELSE "ready"
    /\ UNCHANGED <<history, touched, config, open, step, bottom, ticked, email, emailKey>>

\* Any other answer, or none.
Fails(i) ==
    /\ Settle(i)
    /\ pending' = "none"
    /\ notice' = "error"
    /\ UNCHANGED <<history, touched, config, open, step, bottom, ticked, email, emailKey>>

-----------------------------------------------------------------------------

Visit ==
    \/ Open
    \/ Close
    \/ \E c \in Config : Configure(c)
    \/ ReviewDisclaimer
    \/ ReachBottom
    \/ \E b \in BOOLEAN : Tick(b)
    \/ Continue
    \/ BackToAnswers
    \/ \E e \in Email \cup {Blank} : EditEmail(e)

Deliver ==
    \/ RefuseAddress
    \/ DownloadDocument
    \/ EmailDocument

Next ==
    \/ Visit
    \/ Deliver
    \/ \E i \in out : Succeeds(i) \/ Fails(i)
    \/ \E i \in 1..Len(sent) : Mail(i) /\ UNCHANGED <<history, touched, config, open, step, gate>>

Spec == Init /\ [][Next]_vars

-----------------------------------------------------------------------------
(* Properties *)

(* An answer finds the dialog as the call left it: open, in the same attempt, with *)
(* the configuration and the address that were sent.  The handlers do not look     *)
(* after their await and rely on every control that would change these being out   *)
(* of reach while a call is out (downloadDocument, emailDocument).                 *)
CallsAreForWhatIsShown ==
    \A i \in out :
        /\ open /\ step = "delivery"
        /\ sent[i].attempt = attempt
        /\ sent[i].config = config
        /\ sent[i].kind = pending
        /\ sent[i].kind = "email" => sent[i].email = email

(* The controls are out of reach exactly while a call is out: no reset of the gate *)
(* hides a call that is, and no answer leaves the dialog waiting for none          *)
(* (pendingRef, resetGate, closeDialog).                                           *)
WaitsExactlyForACall == pending # "none" <=> out # {}

(* The reader who presses Email again after a failure, a lost answer or a success  *)
(* is not mailed twice, as long as nothing was edited, gone back to or reopened in *)
(* between: the key stays until then (idempotencyKeyRef, resetGate).               *)
OneEmailPerChange == Cardinality({i \in mailed : i > touched}) <= 1

(* "Sent. Check your inbox." is shown only if an email was accepted in this        *)
(* attempt with the answers it shows; the notice outlives edits of the address,    *)
(* so that it cannot promise more (emailDocument, the field's onChange).           *)
SentIsTrue ==
    notice = "sent" =>
        \E i \in mailed : sent[i].config = config /\ sent[i].attempt = attempt

=============================================================================
