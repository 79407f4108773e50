-------------------------- MODULE SowDialogProofs ---------------------------
(***************************************************************************)
(* Proofs about SowDialog, for any configurations, addresses and bounds.   *)
(* The dialog never looks after an await: what it relies on is that no     *)
(* call is out while its controls are in reach (Flight).  Its one key is   *)
(* thrown away with every change, so that whatever was sent with it is     *)
(* what the dialog shows (KeysFit) and every email since the last change   *)
(* went with it (TouchedFits); the API mails a key once (KeysMailOnce).    *)
(***************************************************************************)
EXTENDS SowDialog, FiniteSetTheorems, TLAPS

Flight ==
    /\ WaitsExactlyForACall
    /\ \A i, j \in out : i = j

\* What the box stands for while it is ticked.
TickFits == ticked => agreed = [attempt |-> attempt, config |-> config]

Emails == {i \in 1..Len(sent) : sent[i].kind = "email"}

KeysFit ==
    /\ \A i \in Emails : sent[i].key \in 1..keys
    /\ emailKey \in 0..keys
    /\ \A i, j \in Emails : sent[i].key = sent[j].key =>
          /\ SameAsk(sent[i], sent[j])
          /\ sent[i].attempt = sent[j].attempt
    /\ \A i \in Emails : sent[i].key = emailKey =>
          sent[i].config = config /\ sent[i].email = email /\ sent[i].attempt = attempt

TouchedFits == \A i \in Emails : i > touched => sent[i].key = emailKey

KeysMailOnce ==
    /\ mailed \subseteq Emails
    /\ \A i, j \in mailed : sent[i].key = sent[j].key => i = j

IInv ==
    /\ TypeOK
    /\ Flight
    /\ CallsAreForWhatIsShown
    /\ TickFits
    /\ KeysFit
    /\ TouchedFits
    /\ KeysMailOnce
    /\ SentIsTrue

-----------------------------------------------------------------------------
(* Calls that leave *)

LEMMA InitTypes == Init => TypeOK
<1>1. CallsInit => CallsTypeOK
    <2>1. <<>> \in Seq(Call)
        OBVIOUS
    <2>. QED
        BY <2>1 DEF CallsInit, CallsTypeOK
<1>2. CallsInit => 0 \in 0..Len(sent)
    BY DEF CallsInit
<1>3. Init => CallsTypeOK /\ touched \in 0..Len(sent) /\ emailKey \in Nat
    BY <1>1, <1>2 DEF Init, NoKey
<1>. QED
    BY <1>3 DEF Init, TypeOK

(* A call that leaves is the last of the calls; the others stay as they were. *)
LEMMA PostAppends ==
    ASSUME CallsTypeOK, NEW kind, NEW k, NEW c, NEW e, Post(kind, k, c, e)
    PROVE  LET n == Len(sent) + 1 IN
           /\ Len(sent) \in Nat
           /\ Len(sent') = n
           /\ 1..Len(sent') = 1..Len(sent) \cup {n}
           /\ \A i \in 1..Len(sent) : sent'[i] = sent[i]
           /\ sent'[n] = [kind |-> kind, key |-> k, config |-> c,
                          email |-> e, attempt |-> attempt]
           /\ out' = out \cup {n} /\ mailed' = mailed
<1> DEFINE new == [kind |-> kind, key |-> k, config |-> c, email |-> e, attempt |-> attempt]
<1>1. Len(sent) \in Nat /\ sent' = Append(sent, new)
    BY DEF CallsTypeOK, Post
<1>2. /\ Len(sent') = Len(sent) + 1
      /\ \A i \in 1..Len(sent) : sent'[i] = sent[i]
      /\ sent'[Len(sent) + 1] = new
    <2> HIDE DEF new
    <2>. QED
        BY <1>1 DEF CallsTypeOK
<1>3. 1..(Len(sent) + 1) = 1..Len(sent) \cup {Len(sent) + 1}
    BY <1>1
<1>. QED
    BY <1>1, <1>2, <1>3 DEF Post

LEMMA PostTypes ==
    ASSUME CallsTypeOK,
           NEW kind \in {"download", "email"}, NEW k \in Nat,
           NEW c \in Config, NEW e \in Email,
           Post(kind, k, c, e), keys' \in Nat, UNCHANGED history
    PROVE  CallsTypeOK'
<1> DEFINE new == [kind |-> kind, key |-> k, config |-> c, email |-> e, attempt |-> attempt]
<1>1. new \in Call
    BY DEF CallsTypeOK, Call
<1>2. sent' \in Seq(Call)
    BY <1>1 DEF CallsTypeOK, Post
<1>3. out' \subseteq 1..Len(sent') /\ mailed' \subseteq 1..Len(sent')
    <2>1. out \subseteq 1..Len(sent) /\ mailed \subseteq 1..Len(sent)
        BY DEF CallsTypeOK
    <2>. QED
        BY <2>1, PostAppends
<1>. QED
    BY <1>2, <1>3 DEF CallsTypeOK, history

-----------------------------------------------------------------------------
(* Type correctness *)

LEMMA TypeStep ==
    ASSUME TypeOK, [Next]_vars
    PROVE  TypeOK'
<1> USE DEF calls, history, gate
<1>. CallsTypeOK /\ Len(sent) \in Nat
    BY DEF TypeOK, CallsTypeOK
<1>1. ASSUME ResetGate, UNCHANGED sent
      PROVE  /\ bottom' \in BOOLEAN /\ ticked' \in BOOLEAN
             /\ email' \in Email \cup {Blank}
             /\ pending' \in {"none", "download", "email"}
             /\ notice' \in {"none", "unlocked", "working", "ready", "sent", "error"}
             /\ emailKey' \in Nat
             /\ touched' \in 0..Len(sent')
    <2>1. touched' \in 0..Len(sent')
        <3>1. Len(sent') = Len(sent) /\ touched' = Len(sent)
            BY <1>1 DEF ResetGate
        <3>. QED
            BY <3>1
    <2>. QED
        BY <1>1, <2>1 DEF ResetGate, NoKey
<1>2. CASE Open
    BY <1>1, <1>2 DEF TypeOK, CallsTypeOK, Open
<1>3. CASE Close \/ ReviewDisclaimer \/ BackToAnswers \/ \E c \in Config : Configure(c)
    BY <1>1, <1>3
       DEF TypeOK, CallsTypeOK, Close, ReviewDisclaimer, BackToAnswers, Configure
<1>4. CASE ReachBottom \/ Continue \/ RefuseAddress
    BY <1>4 DEF TypeOK, CallsTypeOK, ReachBottom, Continue, RefuseAddress
<1>5. ASSUME NEW b \in BOOLEAN, Tick(b)
      PROVE  TypeOK'
    BY <1>5 DEF TypeOK, CallsTypeOK, Tick, Agreement
<1>6. ASSUME NEW e \in Email \cup {Blank}, EditEmail(e)
      PROVE  TypeOK'
    BY <1>6 DEF TypeOK, CallsTypeOK, EditEmail, NoKey
<1>7. CASE DownloadDocument
    <2>1. PICK e \in Email : Post("download", NoKey, config, e)
        BY <1>7 DEF DownloadDocument
    <2>2. CallsTypeOK'
        BY <1>7, <2>1, PostTypes DEF DownloadDocument, TypeOK, CallsTypeOK, NoKey
    <2>3. touched \in 0..Len(sent')
        <3>1. Len(sent') = Len(sent) + 1
            BY <2>1, PostAppends
        <3>. QED
            BY <3>1 DEF TypeOK
    <2>. QED
        BY <1>7, <2>2, <2>3 DEF TypeOK, DownloadDocument
<1>8. CASE EmailDocument
    <2>1. keys' \in Nat /\ emailKey' \in Nat /\ email \in Email
        BY <1>8 DEF TypeOK, CallsTypeOK, EmailDocument
    <2>2. Post("email", emailKey', config, email)
        BY <1>8 DEF EmailDocument
    <2>3. CallsTypeOK'
        BY <1>8, <2>1, <2>2, PostTypes DEF EmailDocument, TypeOK
    <2>4. touched \in 0..Len(sent')
        <3>1. Len(sent') = Len(sent) + 1
            BY <2>2, PostAppends
        <3>. QED
            BY <3>1 DEF TypeOK
    <2>. QED
        BY <1>8, <2>1, <2>3, <2>4 DEF TypeOK, EmailDocument
<1>9. ASSUME NEW i \in out, Succeeds(i) \/ Fails(i)
      PROVE  TypeOK'
    BY <1>9 DEF TypeOK, CallsTypeOK, Succeeds, Fails, Settle
<1>10. ASSUME NEW i \in 1..Len(sent), Mail(i),
              UNCHANGED <<history, touched, config, open, step, gate>>
       PROVE  TypeOK'
    BY <1>10 DEF TypeOK, CallsTypeOK, Mail
<1>11. CASE UNCHANGED vars
    BY <1>11 DEF TypeOK, CallsTypeOK, vars
<1>. QED
    BY <1>2, <1>3, <1>4, <1>5, <1>6, <1>7, <1>8, <1>9, <1>10, <1>11
       DEF Next, Visit, Deliver

-----------------------------------------------------------------------------
(* The call that is out *)

Shown == Flight /\ CallsAreForWhatIsShown

(* Nothing the user does but call is possible while a call is out. *)
LEMMA VisitsWait ==
    ASSUME Shown, Visit
    PROVE  out = {} /\ pending' = "none" /\ UNCHANGED calls
BY DEF Shown, Flight, WaitsExactlyForACall, CallsAreForWhatIsShown, ResetGate, Visit, Open, Close, Configure,
       ReviewDisclaimer, ReachBottom, Tick, Continue, BackToAnswers, EditEmail, calls

LEMMA ShownStep ==
    ASSUME TypeOK, Shown, [Next]_vars
    PROVE  Shown'
<1> USE DEF calls, history, gate, WaitsExactlyForACall
<1>. CallsTypeOK
    BY DEF TypeOK
<1>1. ASSUME out' = {}, pending' = "none"
      PROVE  Shown'
    BY <1>1 DEF Shown, Flight, CallsAreForWhatIsShown
<1>2. CASE Visit
    BY <1>1, <1>2, VisitsWait
<1>3. ASSUME NEW kind \in {"download", "email"}, NEW k, NEW e,
             MayCall, Post(kind, k, config, e), kind = "email" => e = email,
             pending' = kind, UNCHANGED <<history, config, open, step, email>>
      PROVE  Shown'
    <2>1. /\ out' = {Len(sent) + 1}
          /\ sent'[Len(sent) + 1] = [kind |-> kind, key |-> k, config |-> config,
                                     email |-> e, attempt |-> attempt]
        <3>1. out = {}
            BY <1>3 DEF Shown, Flight, MayCall
        <3>. QED
            BY <1>3, <3>1, PostAppends
    <2>2. open' /\ step' = "delivery"
        BY <1>3 DEF MayCall
    <2>. QED
        BY <1>3, <2>1, <2>2 DEF Shown, Flight, CallsAreForWhatIsShown
<1>4. CASE DownloadDocument
    BY <1>3, <1>4 DEF DownloadDocument
<1>5. CASE EmailDocument
    BY <1>3, <1>5 DEF EmailDocument
<1>6. CASE RefuseAddress
    BY <1>6 DEF RefuseAddress, Shown, Flight, CallsAreForWhatIsShown
<1>7. ASSUME NEW i \in out, Succeeds(i) \/ Fails(i)
      PROVE  Shown'
    <2>1. out' = {} /\ pending' = "none"
        BY <1>7 DEF Shown, Flight, Succeeds, Fails, Settle
    <2>. QED
        BY <1>1, <2>1
<1>8. ASSUME NEW i \in 1..Len(sent), Mail(i),
             UNCHANGED <<history, touched, config, open, step, gate>>
      PROVE  Shown'
    BY <1>8 DEF Mail, Shown, Flight, CallsAreForWhatIsShown
<1>9. CASE UNCHANGED vars
    BY <1>9 DEF vars, Shown, Flight, CallsAreForWhatIsShown
<1>. QED
    BY <1>2, <1>4, <1>5, <1>6, <1>7, <1>8, <1>9 DEF Next, Deliver

LEMMA TickStep ==
    ASSUME TickFits, [Next]_vars
    PROVE  TickFits'
<1> USE DEF calls, history, gate, TickFits
<1>1. ASSUME ResetGate
      PROVE  TickFits'
    BY <1>1 DEF ResetGate
<1>2. ASSUME UNCHANGED <<ticked, history, config>>
      PROVE  TickFits'
    BY <1>2
<1>3. CASE Open \/ Close \/ ReviewDisclaimer \/ BackToAnswers \/ \E c \in Config : Configure(c)
    BY <1>1, <1>3 DEF Open, Close, ReviewDisclaimer, BackToAnswers, Configure
<1>4. ASSUME NEW b \in BOOLEAN, Tick(b)
      PROVE  TickFits'
    BY <1>4 DEF Tick
<1>5. CASE ReachBottom \/ Continue \/ \E e \in Email \cup {Blank} : EditEmail(e)
    BY <1>2, <1>5 DEF ReachBottom, Continue, EditEmail
<1>6. CASE Deliver
    BY <1>2, <1>6 DEF Deliver, RefuseAddress, DownloadDocument, EmailDocument
<1>7. ASSUME NEW i \in out, Succeeds(i) \/ Fails(i)
      PROVE  TickFits'
    BY <1>2, <1>7 DEF Succeeds, Fails
<1>8. CASE UNCHANGED vars \/ UNCHANGED <<history, touched, config, open, step, gate>>
    BY <1>2, <1>8 DEF vars
<1>. QED
    BY <1>3, <1>4, <1>5, <1>6, <1>7, <1>8 DEF Next, Visit

-----------------------------------------------------------------------------
(* Keys *)

Keys == KeysFit /\ TouchedFits

(* As long as no call leaves, the key is kept with what it stands for, or it goes *)
(* and the calls so far are put behind.                                           *)
LEMMA KeysKept ==
    ASSUME TypeOK, Keys, UNCHANGED <<sent, keys>>,
           \/ UNCHANGED <<emailKey, config, email, attempt, touched>>
           \/ emailKey' = NoKey /\ touched' = Len(sent)
    PROVE  Keys'
<1>1. Emails' = Emails /\ keys \in Nat /\ Len(sent) \in Nat
    BY DEF Emails, TypeOK, CallsTypeOK
<1>2. CASE UNCHANGED <<emailKey, config, email, attempt, touched>>
    BY <1>1, <1>2 DEF Keys, KeysFit, TouchedFits, SameAsk
<1>3. CASE emailKey' = NoKey /\ touched' = Len(sent)
    <2>1. \A i \in Emails : sent[i].key # NoKey /\ ~ (i > Len(sent))
        BY <1>1 DEF Keys, KeysFit, Emails, NoKey
    <2>2. KeysFit'
        BY <1>1, <1>3, <2>1 DEF Keys, KeysFit, SameAsk, NoKey
    <2>3. TouchedFits'
        BY <1>1, <1>3, <2>1 DEF TouchedFits
    <2>. QED
        BY <2>2, <2>3 DEF Keys
<1>. QED
    BY <1>2, <1>3

LEMMA KeysStep ==
    ASSUME TypeOK, Keys, [Next]_vars
    PROVE  Keys'
<1> USE DEF calls, history, gate
<1>. CallsTypeOK /\ keys \in Nat /\ Len(sent) \in Nat
    BY DEF TypeOK, CallsTypeOK
<1>1. CASE Open \/ Close \/ ReviewDisclaimer \/ BackToAnswers \/ \E c \in Config : Configure(c)
    BY <1>1, KeysKept
       DEF Open, Close, ReviewDisclaimer, BackToAnswers, Configure, ResetGate
<1>2. CASE ReachBottom \/ Continue \/ RefuseAddress \/ \E b \in BOOLEAN : Tick(b)
    BY <1>2, KeysKept DEF ReachBottom, Continue, RefuseAddress, Tick
<1>3. ASSUME NEW e \in Email \cup {Blank}, EditEmail(e)
      PROVE  Keys'
    BY <1>3, KeysKept DEF EditEmail
<1>4. CASE DownloadDocument
    <2>1. PICK e \in Email : Post("download", NoKey, config, e)
        BY <1>4 DEF DownloadDocument
    <2>2. Emails' = Emails /\ \A i \in Emails : sent'[i] = sent[i]
        <3>1. /\ 1..Len(sent') = 1..Len(sent) \cup {Len(sent) + 1}
              /\ \A i \in 1..Len(sent) : sent'[i] = sent[i]
              /\ sent'[Len(sent) + 1] =
                    [kind |-> "download", key |-> NoKey, config |-> config,
                     email |-> e, attempt |-> attempt]
            BY <2>1, PostAppends
        <3>. QED
            BY <3>1 DEF Emails
    <2>. QED
        BY <1>4, <2>2 DEF DownloadDocument, Keys, KeysFit, TouchedFits, SameAsk
<1>5. CASE EmailDocument
    <2> DEFINE n == Len(sent) + 1
               k == emailKey'
    <2>1. Post("email", k, config, email)
        BY <1>5 DEF EmailDocument
    <2>2. /\ Emails' = Emails \cup {n}
          /\ n \notin Emails
          /\ \A i \in Emails : sent'[i] = sent[i]
          /\ sent'[n] = [kind |-> "email", key |-> k, config |-> config,
                         email |-> email, attempt |-> attempt]
        BY <2>1, PostAppends DEF Emails
    <2>3. keys' \in Nat /\ keys <= keys' /\ k \in 1..keys'
        BY <1>5 DEF EmailDocument, Keys, KeysFit, NoKey
    <2>4. \A i \in Emails :
              /\ sent[i].key = k =>
                    /\ sent[i].config = config /\ sent[i].email = email
                    /\ sent[i].attempt = attempt
              /\ i > touched => sent[i].key = k
        <3>1. CASE emailKey = NoKey
            <4>1. k = keys + 1
                BY <1>5, <3>1 DEF EmailDocument
            <4>. QED
                BY <3>1, <4>1 DEF Keys, KeysFit, TouchedFits, NoKey
        <3>2. CASE emailKey # NoKey
            BY <1>5, <3>2 DEF EmailDocument, Keys, KeysFit, TouchedFits
        <3>. QED
            BY <3>1, <3>2
    <2>5. \A i \in Emails' : sent'[i].key \in 1..keys'
        BY <2>2, <2>3 DEF Keys, KeysFit
    <2>6. ASSUME NEW i \in Emails', NEW j \in Emails', sent'[i].key = sent'[j].key
          PROVE  SameAsk(sent'[i], sent'[j]) /\ sent'[i].attempt = sent'[j].attempt
        <3>1. CASE i = n /\ j = n
            BY <3>1 DEF SameAsk
        <3>2. CASE i \in Emails /\ j = n
            <4>1. sent'[i] = sent[i] /\ sent[i].key = k
                BY <2>2, <2>6, <3>2
            <4>. QED
                BY <2>2, <2>4, <3>2, <4>1 DEF SameAsk
        <3>3. CASE i = n /\ j \in Emails
            <4>1. sent'[j] = sent[j] /\ sent[j].key = k
                BY <2>2, <2>6, <3>3
            <4>. QED
                BY <2>2, <2>4, <3>3, <4>1 DEF SameAsk
        <3>4. CASE i \in Emails /\ j \in Emails
            BY <2>2, <2>6, <3>4 DEF Keys, KeysFit
        <3>. QED
            BY <2>2, <3>1, <3>2, <3>3, <3>4
    <2>7. \A i \in Emails' : sent'[i].key = emailKey' =>
              /\ sent'[i].config = config' /\ sent'[i].email = email'
              /\ sent'[i].attempt = attempt'
        BY <1>5, <2>2, <2>4 DEF EmailDocument
    <2>8. TouchedFits'
        BY <1>5, <2>2, <2>4 DEF EmailDocument, TouchedFits
    <2>. QED
        BY <2>3, <2>5, <2>6, <2>7, <2>8 DEF Keys, KeysFit, SameAsk
<1>6. ASSUME NEW i \in out, Succeeds(i) \/ Fails(i)
      PROVE  Keys'
    BY <1>6, KeysKept DEF Succeeds, Fails, Settle
<1>7. ASSUME NEW i \in 1..Len(sent), Mail(i),
             UNCHANGED <<history, touched, config, open, step, gate>>
      PROVE  Keys'
    BY <1>7, KeysKept DEF Mail
<1>8. CASE UNCHANGED vars
    BY <1>8, KeysKept DEF vars
<1>. QED
    BY <1>1, <1>2, <1>3, <1>4, <1>5, <1>6, <1>7, <1>8 DEF Next, Visit, Deliver

LEMMA MailStep ==
    ASSUME TypeOK, Shown, KeysMailOnce, [Next]_vars
    PROVE  KeysMailOnce'
<1> USE DEF calls, history, gate
<1>. CallsTypeOK
    BY DEF TypeOK
<1>1. ASSUME UNCHANGED <<sent, mailed>>
      PROVE  KeysMailOnce'
    BY <1>1 DEF KeysMailOnce, Emails
<1>2. CASE Visit
    BY <1>1, <1>2, VisitsWait
<1>3. CASE RefuseAddress \/ UNCHANGED vars
    BY <1>1, <1>3 DEF RefuseAddress, vars
<1>4. ASSUME NEW kind, NEW k, NEW e, Post(kind, k, config, e)
      PROVE  KeysMailOnce'
    BY <1>4, PostAppends DEF KeysMailOnce, Emails
<1>5. CASE DownloadDocument \/ EmailDocument
    BY <1>4, <1>5 DEF DownloadDocument, EmailDocument
<1>6. ASSUME NEW i \in out, Succeeds(i) \/ Fails(i)
      PROVE  KeysMailOnce'
    BY <1>1, <1>6 DEF Succeeds, Fails, Settle
<1>7. ASSUME NEW i \in 1..Len(sent), Mail(i)
      PROVE  KeysMailOnce'
    BY <1>7 DEF KeysMailOnce, Emails, Mail
<1>. QED
    BY <1>2, <1>3, <1>5, <1>6, <1>7 DEF Next, Deliver

-----------------------------------------------------------------------------
(* "Sent." *)

(* A success that is shown stays true while the view, and what was sent, stay. *)
LEMMA SentKept ==
    ASSUME SentIsTrue,
           notice' # "sent" \/ UNCHANGED <<notice, config, attempt>>,
           mailed \subseteq mailed', \A i \in mailed : sent'[i] = sent[i]
    PROVE  SentIsTrue'
BY DEF SentIsTrue

LEMMA SentStep ==
    ASSUME IInv, [Next]_vars
    PROVE  SentIsTrue'
<1> USE DEF calls, history, gate
<1>. SentIsTrue /\ CallsTypeOK
    BY DEF IInv, TypeOK
<1>1. CASE Visit
    BY <1>1, SentKept
       DEF Visit, Open, Close, Configure, ReviewDisclaimer, ReachBottom, Tick, Continue,
           BackToAnswers, EditEmail, ResetGate
<1>2. CASE RefuseAddress \/ UNCHANGED vars
    BY <1>2, SentKept DEF RefuseAddress, vars
<1>3. ASSUME NEW kind, NEW k, NEW e, Post(kind, k, config, e), notice' = "working"
      PROVE  SentIsTrue'
    BY <1>3 DEF SentIsTrue
<1>4. CASE DownloadDocument \/ EmailDocument
    BY <1>3, <1>4 DEF DownloadDocument, EmailDocument
<1>5. ASSUME NEW i \in out, Succeeds(i)
      PROVE  SentIsTrue'
    <2>1. CASE sent[i].kind = "email"
        <3>1. PICK j \in mailed : SameAsk(sent[i], sent[j])
            BY <1>5, <2>1 DEF Succeeds, MailedFor
        <3>2. i \in Emails /\ j \in Emails
            BY <2>1, <3>1 DEF Emails, CallsTypeOK, IInv, KeysMailOnce
        <3>3. sent[j].attempt = sent[i].attempt /\ sent[j].config = sent[i].config
            BY <3>1, <3>2 DEF IInv, KeysFit, SameAsk
        <3>4. sent[i].attempt = attempt /\ sent[i].config = config
            BY DEF IInv, CallsAreForWhatIsShown
        <3>. QED
            BY <1>5, <3>1, <3>3, <3>4 DEF SentIsTrue, Succeeds, Settle
    <2>2. CASE sent[i].kind # "email"
        BY <1>5, <2>2 DEF SentIsTrue, Succeeds
    <2>. QED
        BY <2>1, <2>2
<1>6. ASSUME NEW i \in out, Fails(i)
      PROVE  SentIsTrue'
    BY <1>6 DEF Fails, SentIsTrue
<1>7. ASSUME NEW i \in 1..Len(sent), Mail(i),
             UNCHANGED <<history, touched, config, open, step, gate>>
      PROVE  SentIsTrue'
    BY <1>7, SentKept DEF Mail
<1>. QED
    BY <1>1, <1>2, <1>4, <1>5, <1>6, <1>7 DEF Next, Deliver

LEMMA InitIInv == Init => IInv
BY InitTypes
   DEF IInv, Init, CallsInit, Flight, WaitsExactlyForACall, CallsAreForWhatIsShown, TickFits, KeysFit, Emails,
       TouchedFits, KeysMailOnce, SentIsTrue, NoKey

LEMMA IInvStep ==
    ASSUME IInv, [Next]_vars
    PROVE  IInv'
<1>1. TypeOK' /\ Flight' /\ CallsAreForWhatIsShown' /\ TickFits'
    BY TypeStep, ShownStep, TickStep DEF IInv, Shown
<1>2. KeysFit' /\ TouchedFits' /\ KeysMailOnce' /\ SentIsTrue'
    BY KeysStep, MailStep, SentStep DEF IInv, Keys, Shown
<1>. QED
    BY <1>1, <1>2 DEF IInv

(* The invariant the properties follow from holds in every reachable state. *)
THEOREM InductiveInvariant == Spec => []IInv
<1>1. Init => IInv
    BY InitIInv
<1>2. IInv /\ [Next]_vars => IInv'
    BY IInvStep
<1>. QED
    BY <1>1, <1>2, PTL DEF Spec

-----------------------------------------------------------------------------
(* The properties *)

(* The dialog, its calls and its gate keep their types. *)
THEOREM TypeCorrect == Spec => []TypeOK
<1>1. IInv => TypeOK
    BY DEF IInv
<1>. QED
    BY <1>1, InductiveInvariant, PTL

(* The controls wait exactly while a call is out; that it gets an answer or is    *)
(* given up, by the browser, is all that is needed for the dialog to be released. *)
THEOREM WaitHolds == Spec => []WaitsExactlyForACall
<1>1. IInv => WaitsExactlyForACall
    BY DEF IInv, Flight
<1>. QED
    BY <1>1, InductiveInvariant, PTL

(* Every answer finds on the screen what was sent. *)
THEOREM AnswersFindTheirCall == Spec => []CallsAreForWhatIsShown
<1>1. IInv => CallsAreForWhatIsShown
    BY DEF IInv
<1>. QED
    BY <1>1, InductiveInvariant, PTL

(* "Sent." is shown only for an email accepted in this attempt with these answers. *)
THEOREM SentHolds == Spec => []SentIsTrue
<1>1. IInv => SentIsTrue
    BY DEF IInv
<1>. QED
    BY <1>1, InductiveInvariant, PTL

(* A key never goes with two contents. *)
THEOREM KeysHold == Spec => []OneKeyOneContent
<1>1. IInv => OneKeyOneContent
    BY DEF IInv, KeysFit, Emails, OneKeyOneContent
<1>. QED
    BY <1>1, InductiveInvariant, PTL

(* However often Email is pressed, one email is accepted until something changes. *)
THEOREM OneEmailHolds == Spec => []OneEmailPerChange
<1>1. IInv => OneEmailPerChange
    <2> DEFINE S == {i \in mailed : i > touched}
    <2>1. SUFFICES ASSUME IInv PROVE Cardinality(S) <= 1
        BY DEF OneEmailPerChange
    <2>2. \A i, j \in S : i = j
        BY <2>1 DEF IInv, KeysMailOnce, TouchedFits
    <2>3. CASE S = {}
        BY <2>3, FS_EmptySet
    <2>4. CASE S # {}
        <3>1. PICK i \in S : TRUE
            BY <2>4
        <3>2. S = {i}
            BY <2>2, <3>1
        <3>. QED
            BY <3>2, FS_Singleton
    <2>. QED
        BY <2>3, <2>4
<1>. QED
    BY <1>1, InductiveInvariant, PTL

(* Nothing is asked for that was not acknowledged in the same attempt. *)
THEOREM AcknowledgmentHolds == Spec => SendsOnlyWhatWasAcknowledged
<1> DEFINE Acknowledged ==
        Len(sent') > Len(sent) =>
            LET c == sent'[Len(sent')] IN
                agreed = [attempt |-> c.attempt, config |-> c.config]
<1>1. IInv /\ [Next]_vars => [Acknowledged]_<<sent, agreed>>
    <2> SUFFICES ASSUME IInv, [Next]_vars, Len(sent') > Len(sent)
                 PROVE  Acknowledged
        OBVIOUS
    <2>. CallsTypeOK /\ Len(sent) \in Nat
        BY DEF IInv, TypeOK, CallsTypeOK
    <2>1. sent' # sent
        OBVIOUS
    <2>2. CASE DownloadDocument \/ EmailDocument
        <3>1. PICK kind, k, e : Post(kind, k, config, e) /\ ticked
            BY <2>2 DEF DownloadDocument, EmailDocument, MayCall
        <3>2. /\ Len(sent') = Len(sent) + 1
              /\ sent'[Len(sent')].attempt = attempt
              /\ sent'[Len(sent')].config = config
            <4>1. /\ Len(sent') = Len(sent) + 1
                  /\ sent'[Len(sent) + 1] =
                        [kind |-> kind, key |-> k, config |-> config,
                         email |-> e, attempt |-> attempt]
                BY <3>1, PostAppends
            <4>. QED
                BY <4>1
        <3>. QED
            BY <3>1, <3>2 DEF IInv, TickFits
    <2>3. CASE ~ (DownloadDocument \/ EmailDocument)
        BY <2>1, <2>3
           DEF Next, Visit, Deliver, Open, Close, Configure, ReviewDisclaimer, ReachBottom,
               Tick, Continue, BackToAnswers, EditEmail, RefuseAddress, Succeeds, Fails,
               Settle, Mail, vars, calls
    <2>. QED
        BY <2>2, <2>3
<1>. QED
    BY <1>1, InductiveInvariant, PTL DEF Spec, SendsOnlyWhatWasAcknowledged

=============================================================================
