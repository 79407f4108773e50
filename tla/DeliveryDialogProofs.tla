------------------------ MODULE DeliveryDialogProofs ------------------------
(***************************************************************************)
(* Proofs about DeliveryDialog, for any configurations, addresses and      *)
(* bounds.  One call at a time needs that inFlightRef is set while a call  *)
(* is out and that the dialog stays open so long (Flight).  That a key     *)
(* has one content, and that success is true, needs that emailKeyRef       *)
(* remembers what every call with its key asked for, and in which attempt  *)
(* (KeysFit): a call that was mailed for another with the same key was     *)
(* mailed for the same ask, in the same attempt.                           *)
(***************************************************************************)
EXTENDS DeliveryDialog, FiniteSetTheorems, TLAPS

Flight ==
    /\ ShutExactlyByACall
    /\ inFlight => open
    /\ \A i, j \in out : i = j
    /\ \A i \in out : sent[i].attempt = attempt

\* What the box stands for while it is ticked.
TickFits == ticked => agreed = [attempt |-> attempt, config |-> config]

Emails == {i \in 1..Len(sent) : sent[i].kind = "email"}

KeysFit ==
    /\ \A i \in Emails : sent[i].key \in 1..keys
    /\ emailKey # NoEmailKey => emailKey.key \in 1..keys
    /\ \A i, j \in Emails : sent[i].key = sent[j].key =>
          /\ SameAsk(sent[i], sent[j])
          /\ sent[i].attempt = sent[j].attempt
    /\ emailKey # NoEmailKey => \A i \in Emails : sent[i].key = emailKey.key =>
          /\ SameAsk(sent[i], emailKey)
          /\ sent[i].attempt = attempt

MailsFit == mailed \subseteq Emails

IInv ==
    /\ TypeOK
    /\ Flight
    /\ TickFits
    /\ KeysFit
    /\ MailsFit
    /\ AcceptedIsTrue

-----------------------------------------------------------------------------
(* Type correctness *)

LEMMA InitTypes == Init => TypeOK
<1>1. CallsInit => CallsTypeOK
    <2>1. <<>> \in Seq(Call)
        OBVIOUS
    <2>. QED
        BY <2>1 DEF CallsInit, CallsTypeOK
<1>. QED
    BY <1>1, MineAssumption DEF Init, TypeOK

(* What a call that leaves adds to the calls. *)
LEMMA PostFacts ==
    ASSUME CallsTypeOK, NEW kind, NEW k, NEW c, NEW e, Post(kind, k, c, e)
    PROVE  /\ Len(sent) \in Nat
           /\ Len(sent') = Len(sent) + 1
           /\ \A i \in 1..Len(sent) : sent'[i] = sent[i]
           /\ sent'[Len(sent) + 1] = [kind |-> kind, key |-> k, config |-> c,
                                      email |-> e, attempt |-> attempt]
           /\ out' = out \cup {Len(sent) + 1}
           /\ mailed' = mailed
           /\ out \subseteq 1..Len(sent) /\ mailed \subseteq 1..Len(sent)
           /\ 1..Len(sent') = 1..Len(sent) \cup {Len(sent) + 1}
<1> DEFINE new == [kind |-> kind, key |-> k, config |-> c, email |-> e, attempt |-> attempt]
<1>1. Len(sent) \in Nat /\ sent' = Append(sent, new)
    BY DEF CallsTypeOK, Post
<1>2. /\ Len(sent') = Len(sent) + 1
      /\ \A i \in 1..Len(sent) : sent'[i] = sent[i]
      /\ sent'[Len(sent) + 1] = new
    <2> HIDE DEF new
    <2>. QED
        BY <1>1 DEF CallsTypeOK
<1>3. 1..(Len(sent) + 1) = 1..Len(sent) \cup {Len(sent) + 1}
    BY <1>1
<1>. QED
    BY <1>1, <1>2, <1>3 DEF CallsTypeOK, Post

(* A call that leaves, settles or is mailed keeps the types of the calls. *)
LEMMA PostTypes ==
    ASSUME CallsTypeOK,
           NEW kind \in {"download", "email"}, NEW k \in Nat,
           NEW c \in Config, NEW e \in Email,
           Post(kind, k, c, e), keys' \in Nat, UNCHANGED history
    PROVE  CallsTypeOK'
<1> DEFINE new == [kind |-> kind, key |-> k, config |-> c, email |-> e, attempt |-> attempt]
<1>1. new \in Call
    BY DEF CallsTypeOK, Call
<1>2. sent' \in Seq(Call)
    BY <1>1 DEF CallsTypeOK, Post
<1>3. out' \subseteq 1..Len(sent') /\ mailed' \subseteq 1..Len(sent')
    <2>1. Len(sent) + 1 \in 1..(Len(sent) + 1) /\ 1..Len(sent) \subseteq 1..(Len(sent) + 1)
        BY PostFacts
    <2>. QED
        BY <2>1, PostFacts
<1>. QED
    BY <1>2, <1>3 DEF CallsTypeOK, history

LEMMA CallStepTypes ==
    ASSUME CallsTypeOK, UNCHANGED <<sent, keys>>,
           out' \subseteq out, mailed' \subseteq 1..Len(sent),
           attempt' \in Nat, agreed' \in Agreement \cup {NoAgreement}
    PROVE  CallsTypeOK'
BY DEF CallsTypeOK

LEMMA ViewTypes ==
    ASSUME ResetView
    PROVE  /\ step' \in {"disclaimer", "delivery"} /\ bottom' \in BOOLEAN
           /\ ticked' \in BOOLEAN /\ email' \in Email
           /\ error' \in {"none", "attention", "download", "email"}
           /\ accepted' \in BOOLEAN
BY MineAssumption DEF ResetView

LEMMA TypeStep ==
    ASSUME TypeOK, [Next]_vars
    PROVE  TypeOK'
<1> USE DEF calls, history, attemptState, refs
<1>1. CASE Open
    <2>1. CallsTypeOK'
        BY <1>1, CallStepTypes DEF TypeOK, CallsTypeOK, Open
    <2>. QED
        BY <1>1, <2>1, ViewTypes DEF TypeOK, Open, ResetAttempt
<1>2. CASE Close
    <2>1. CallsTypeOK'
        BY <1>2, CallStepTypes DEF TypeOK, CallsTypeOK, Close
    <2>. QED
        BY <1>2, <2>1, ViewTypes DEF TypeOK, Close, ResetAttempt
<1>3. CASE ReachBottom \/ Continue \/ Back \/ RefuseIncomplete
    BY <1>3 DEF TypeOK, CallsTypeOK, ReachBottom, Continue, Back, RefuseIncomplete, MayCall
<1>4. ASSUME NEW b \in BOOLEAN, Tick(b)
      PROVE  TypeOK'
    BY <1>4 DEF TypeOK, CallsTypeOK, Tick, Agreement
<1>5. ASSUME NEW e \in Email, EditEmail(e)
      PROVE  TypeOK'
    BY <1>5 DEF TypeOK, CallsTypeOK, EditEmail
<1>6. CASE DownloadDocument
    <2>1. CallsTypeOK'
        BY <1>6, PostTypes, MineAssumption
           DEF DownloadDocument, TypeOK, CallsTypeOK, NoKey
    <2>. QED
        BY <1>6, <2>1 DEF TypeOK, DownloadDocument
<1>7. CASE EmailDocument
    <2> DEFINE k == IF KeyMatches THEN emailKey.key ELSE keys + 1
    <2>1. k \in Nat /\ keys' \in Nat
        BY <1>7 DEF TypeOK, CallsTypeOK, EmailDocument, KeyMatches
    <2>2. CallsTypeOK'
        BY <1>7, <2>1, PostTypes DEF EmailDocument, TypeOK
    <2>. QED
        BY <1>7, <2>1, <2>2 DEF TypeOK, EmailDocument
<1>8. ASSUME NEW c \in Config, Reconfigure(c)
      PROVE  TypeOK'
    BY <1>8, ViewTypes DEF TypeOK, CallsTypeOK, Reconfigure
<1>9. CASE Render
    BY <1>9 DEF TypeOK, CallsTypeOK, Render
<1>10. ASSUME NEW i \in out, Answer(i)
       PROVE  TypeOK'
    <2>1. CallsTypeOK'
        BY <1>10, CallStepTypes
           DEF TypeOK, CallsTypeOK, Answer, Downloaded, Emailed, CallFails, Settle
    <2>2. CASE Downloaded(i)
        BY <2>1, <2>2, ViewTypes DEF TypeOK, Downloaded, ResetAttempt
    <2>3. CASE Emailed(i)
        BY <2>1, <2>3 DEF TypeOK, Emailed
    <2>4. CASE CallFails(i)
        <3>1. sent[i].kind \in {"download", "email"}
            <4>1. i \in 1..Len(sent) /\ sent[i] \in Call
                BY DEF TypeOK, CallsTypeOK
            <4>. QED
                BY <4>1 DEF Call
        <3>. QED
            BY <2>1, <2>4, <3>1 DEF TypeOK, CallFails
    <2>. QED
        BY <1>10, <2>2, <2>3, <2>4 DEF Answer
<1>11. ASSUME NEW i \in 1..Len(sent), Mail(i),
              UNCHANGED <<history, config, open, attemptState, refs>>
       PROVE  TypeOK'
    <2>1. CallsTypeOK'
        BY <1>11, CallStepTypes DEF TypeOK, CallsTypeOK, Mail
    <2>. QED
        BY <1>11, <2>1 DEF TypeOK
<1>12. CASE UNCHANGED vars
    BY <1>12 DEF TypeOK, CallsTypeOK, vars
<1>. QED
    BY <1>1, <1>2, <1>3, <1>4, <1>5, <1>6, <1>7, <1>8, <1>9, <1>10, <1>11, <1>12
       DEF Next, Visit, Deliver

-----------------------------------------------------------------------------
(* The inductive invariant *)

LEMMA FlightStep ==
    ASSUME TypeOK, Flight, [Next]_vars
    PROVE  Flight'
<1> USE DEF calls, history, attemptState, refs, ShutExactlyByACall
<1>1. CASE Open
    BY <1>1 DEF Flight, Open, ResetAttempt, ResetView
<1>2. CASE Close
    BY <1>2 DEF Flight, Close, ResetAttempt
<1>3. CASE ReachBottom \/ Continue \/ Back \/ RefuseIncomplete \/ Render
    BY <1>3 DEF Flight, ReachBottom, Continue, Back, RefuseIncomplete, Render
<1>4. ASSUME NEW b \in BOOLEAN, Tick(b)
      PROVE  Flight'
    BY <1>4 DEF Flight, Tick
<1>5. ASSUME NEW e \in Email, EditEmail(e)
      PROVE  Flight'
    BY <1>5 DEF Flight, EditEmail
<1>6. ASSUME NEW kind, NEW k, NEW c, NEW e, Post(kind, k, c, e), MayCall,
             inFlight', UNCHANGED <<open, history>>
      PROVE  Flight'
    <2>1. out' = {Len(sent) + 1} /\ sent'[Len(sent) + 1].attempt = attempt
        <3>1. out = {}
            BY <1>6 DEF Flight, MayCall
        <3>2. CallsTypeOK
            BY DEF TypeOK
        <3>3. /\ out' = out \cup {Len(sent) + 1}
              /\ sent'[Len(sent) + 1] = [kind |-> kind, key |-> k, config |-> c,
                                         email |-> e, attempt |-> attempt]
            BY <1>6, <3>2, PostFacts
        <3>. QED
            BY <3>1, <3>3
    <2>. QED
        BY <1>6, <2>1 DEF Flight, MayCall
<1>7. CASE DownloadDocument
    BY <1>6, <1>7 DEF DownloadDocument
<1>8. CASE EmailDocument
    BY <1>6, <1>8 DEF EmailDocument
<1>9. ASSUME NEW c \in Config, Reconfigure(c)
      PROVE  Flight'
    BY <1>9 DEF Flight, Reconfigure
<1>10. ASSUME NEW i \in out, Answer(i)
       PROVE  Flight'
    <2>1. out' = {} /\ ~ inFlight'
        BY <1>10 DEF Flight, Answer, Downloaded, Emailed, CallFails, Settle, ResetAttempt
    <2>. QED
        BY <2>1 DEF Flight
<1>11. ASSUME NEW i \in 1..Len(sent), Mail(i),
              UNCHANGED <<history, config, open, attemptState, refs>>
       PROVE  Flight'
    BY <1>11 DEF Flight, Mail
<1>12. CASE UNCHANGED vars
    BY <1>12 DEF Flight, vars
<1>. QED
    BY <1>1, <1>2, <1>3, <1>4, <1>5, <1>7, <1>8, <1>9, <1>10, <1>11, <1>12
       DEF Next, Visit, Deliver

LEMMA TickStep ==
    ASSUME TypeOK, TickFits, [Next]_vars
    PROVE  TickFits'
<1> USE DEF calls, history, attemptState, refs, TickFits
<1>1. ASSUME ~ ticked'
      PROVE  TickFits'
    BY <1>1
<1>2. CASE Open \/ Close \/ \E c \in Config : Reconfigure(c)
    BY <1>1, <1>2 DEF Open, Close, Reconfigure, ResetAttempt, ResetView
<1>3. ASSUME NEW b \in BOOLEAN, Tick(b)
      PROVE  TickFits'
    BY <1>3 DEF Tick
<1>4. ASSUME UNCHANGED <<ticked, history, config>>
      PROVE  TickFits'
    BY <1>4
<1>5. CASE ReachBottom \/ Continue \/ Back \/ \E e \in Email : EditEmail(e)
    BY <1>4, <1>5 DEF ReachBottom, Continue, Back, EditEmail
<1>6. CASE Deliver
    BY <1>4, <1>6 DEF Deliver, RefuseIncomplete, DownloadDocument, EmailDocument
<1>7. CASE Render \/ UNCHANGED vars
    BY <1>4, <1>7 DEF Render, vars
<1>8. ASSUME NEW i \in out, Answer(i)
      PROVE  TickFits'
    BY <1>1, <1>4, <1>8
       DEF Answer, Downloaded, Emailed, CallFails, ResetAttempt, ResetView
<1>. QED
    BY <1>2, <1>3, <1>4, <1>5, <1>6, <1>7, <1>8 DEF Next, Visit

(* As long as no call leaves, only the reference to the key has to be looked at. *)
LEMMA KeysKept ==
    ASSUME KeysFit, UNCHANGED <<sent, keys>>,
           emailKey' = NoEmailKey \/ UNCHANGED <<emailKey, attempt>>
    PROVE  KeysFit'
BY DEF KeysFit, Emails, SameAsk

LEMMA KeysStep ==
    ASSUME TypeOK, KeysFit, [Next]_vars
    PROVE  KeysFit'
<1> USE DEF calls, history, attemptState, refs
<1>1. CASE Open \/ Close \/ \E c \in Config : Reconfigure(c)
    BY <1>1, KeysKept DEF Open, Close, Reconfigure, ResetAttempt
<1>2. CASE ReachBottom \/ Continue \/ Back \/ RefuseIncomplete
    BY <1>2, KeysKept DEF ReachBottom, Continue, Back, RefuseIncomplete
<1>3. CASE (\E b \in BOOLEAN : Tick(b)) \/ (\E e \in Email : EditEmail(e)) \/ Render
    BY <1>3, KeysKept DEF Tick, EditEmail, Render
<1>4. CASE DownloadDocument
    <2>1. Post("download", NoKey, config, Mine)
        BY <1>4 DEF DownloadDocument
    <2>2. Emails' = Emails /\ \A i \in Emails : sent'[i] = sent[i]
        <3>1. CallsTypeOK
            BY DEF TypeOK
        <3>2. /\ 1..Len(sent') = 1..Len(sent) \cup {Len(sent) + 1}
              /\ \A i \in 1..Len(sent) : sent'[i] = sent[i]
              /\ sent'[Len(sent) + 1] =
                    [kind |-> "download", key |-> NoKey, config |-> config,
                     email |-> Mine, attempt |-> attempt]
            BY <2>1, <3>1, PostFacts
        <3>. QED
            BY <3>2 DEF Emails
    <2>. QED
        BY <1>4, <2>2 DEF DownloadDocument, KeysFit, SameAsk
<1>5. CASE EmailDocument
    <2> DEFINE n == Len(sent) + 1
               k == IF KeyMatches THEN emailKey.key ELSE keys + 1
    <2>1. Post("email", k, config, email)
        BY <1>5 DEF EmailDocument
    <2>2. /\ Emails' = Emails \cup {n}
          /\ n \notin Emails
          /\ \A i \in Emails : sent'[i] = sent[i]
          /\ sent'[n] = [kind |-> "email", key |-> k, config |-> config,
                         email |-> email, attempt |-> attempt]
        BY <2>1, PostFacts DEF Emails, TypeOK
    <2>3. /\ keys \in Nat /\ keys' \in Nat /\ keys <= keys' /\ k \in 1..keys'
          /\ emailKey' = [key |-> k, config |-> config, email |-> email]
        BY <1>5 DEF EmailDocument, KeyMatches, KeysFit, TypeOK, CallsTypeOK
    <2>4. \A i \in Emails : sent[i].key = k =>
              /\ sent[i].config = config /\ sent[i].email = email
              /\ sent[i].attempt = attempt
        <3>1. CASE KeyMatches
            BY <3>1 DEF KeyMatches, KeysFit, SameAsk
        <3>2. CASE ~ KeyMatches
            BY <3>2, <2>3 DEF KeysFit
        <3>. QED
            BY <3>1, <3>2
    <2>5. \A i \in Emails' : sent'[i].key \in 1..keys'
        BY <2>2, <2>3 DEF KeysFit
    <2>6. ASSUME NEW i \in Emails', NEW j \in Emails', sent'[i].key = sent'[j].key
          PROVE  SameAsk(sent'[i], sent'[j]) /\ sent'[i].attempt = sent'[j].attempt
        <3>1. CASE i = n /\ j = n
            BY <3>1 DEF SameAsk
        <3>2. CASE i \in Emails /\ j = n
            <4>1. sent'[i] = sent[i] /\ sent[i].key = k
                BY <2>2, <2>6, <3>2
            <4>. QED
                BY <2>2, <2>4, <3>2, <4>1 DEF SameAsk
        <3>3. CASE i = n /\ j \in Emails
            <4>1. sent'[j] = sent[j] /\ sent[j].key = k
                BY <2>2, <2>6, <3>3
            <4>. QED
                BY <2>2, <2>4, <3>3, <4>1 DEF SameAsk
        <3>4. CASE i \in Emails /\ j \in Emails
            BY <2>2, <2>6, <3>4 DEF KeysFit
        <3>. QED
            BY <2>2, <3>1, <3>2, <3>3, <3>4
    <2>7. \A i \in Emails' : sent'[i].key = emailKey'.key =>
              SameAsk(sent'[i], emailKey') /\ sent'[i].attempt = attempt'
        BY <1>5, <2>2, <2>3, <2>4 DEF SameAsk, EmailDocument
    <2>. QED
        BY <2>3, <2>5, <2>6, <2>7 DEF KeysFit, SameAsk
<1>6. ASSUME NEW i \in out, Answer(i)
      PROVE  KeysFit'
    BY <1>6, KeysKept DEF Answer, Downloaded, Emailed, CallFails, Settle, ResetAttempt
<1>7. ASSUME NEW i \in 1..Len(sent), Mail(i),
             UNCHANGED <<history, config, open, attemptState, refs>>
      PROVE  KeysFit'
    BY <1>7, KeysKept DEF Mail
<1>8. CASE UNCHANGED vars
    BY <1>8, KeysKept DEF vars
<1>. QED
    BY <1>1, <1>2, <1>3, <1>4, <1>5, <1>6, <1>7, <1>8 DEF Next, Visit, Deliver

LEMMA MailsStep ==
    ASSUME TypeOK, MailsFit, [Next]_vars
    PROVE  MailsFit'
<1> USE DEF calls, history, attemptState, refs
<1>1. ASSUME UNCHANGED <<sent, mailed>>
      PROVE  MailsFit'
    BY <1>1 DEF MailsFit, Emails
<1>2. CASE Visit
    BY <1>1, <1>2 DEF Visit, Open, Close, ReachBottom, Tick, Continue, Back, EditEmail
<1>3. CASE RefuseIncomplete \/ Render \/ UNCHANGED vars \/ \E c \in Config : Reconfigure(c)
    BY <1>1, <1>3 DEF RefuseIncomplete, Render, Reconfigure, vars
<1>4. ASSUME NEW kind, NEW k, NEW c, NEW e, Post(kind, k, c, e)
      PROVE  MailsFit'
    <2>1. CallsTypeOK
        BY DEF TypeOK
    <2>2. /\ mailed' = mailed /\ mailed \subseteq 1..Len(sent)
          /\ \A i \in 1..Len(sent) : sent'[i] = sent[i]
          /\ 1..Len(sent) \subseteq 1..Len(sent')
        BY <1>4, <2>1, PostFacts
    <2>. QED
        BY <2>2 DEF MailsFit, Emails
<1>5. CASE DownloadDocument \/ EmailDocument
    BY <1>4, <1>5 DEF DownloadDocument, EmailDocument
<1>6. ASSUME NEW i \in out, Answer(i)
      PROVE  MailsFit'
    BY <1>1, <1>6 DEF Answer, Downloaded, Emailed, CallFails, Settle
<1>7. ASSUME NEW i \in 1..Len(sent), Mail(i)
      PROVE  MailsFit'
    BY <1>7 DEF MailsFit, Emails, Mail
<1>. QED
    BY <1>2, <1>3, <1>5, <1>6, <1>7 DEF Next, Deliver

(* A success that is shown stays true while the view, and what was sent, stay. *)
LEMMA AcceptedKept ==
    ASSUME AcceptedIsTrue,
           ~ accepted' \/ UNCHANGED <<accepted, config, attempt>>,
           mailed \subseteq mailed', \A i \in mailed : sent'[i] = sent[i]
    PROVE  AcceptedIsTrue'
BY DEF AcceptedIsTrue

LEMMA AcceptedStep ==
    ASSUME IInv, [Next]_vars
    PROVE  AcceptedIsTrue'
<1> USE DEF calls, history, attemptState, refs
<1>. AcceptedIsTrue /\ CallsTypeOK
    BY DEF IInv, TypeOK
<1>1. CASE Visit
    BY <1>1, AcceptedKept
       DEF Visit, Open, Close, ReachBottom, Tick, Continue, Back, EditEmail,
           ResetAttempt, ResetView
<1>2. CASE RefuseIncomplete \/ Render \/ UNCHANGED vars
    BY <1>2, AcceptedKept DEF RefuseIncomplete, Render, vars
<1>3. ASSUME NEW c \in Config, Reconfigure(c)
      PROVE  AcceptedIsTrue'
    BY <1>3, AcceptedKept DEF Reconfigure, ResetView
<1>4. ASSUME NEW kind, NEW k, NEW c, NEW e, Post(kind, k, c, e),
             ~ accepted' \/ UNCHANGED <<accepted, config, attempt>>
      PROVE  AcceptedIsTrue'
    <2>1. mailed' = mailed /\ \A i \in mailed : sent'[i] = sent[i]
        BY <1>4, PostFacts
    <2>. QED
        BY <1>4, <2>1, AcceptedKept
<1>5. CASE DownloadDocument \/ EmailDocument
    BY <1>4, <1>5 DEF DownloadDocument, EmailDocument
<1>6. ASSUME NEW i \in out, Answer(i)
      PROVE  AcceptedIsTrue'
    <2>1. CASE Downloaded(i) \/ CallFails(i)
        BY <2>1, AcceptedKept DEF Downloaded, CallFails, Settle, ResetAttempt, ResetView
    <2>2. CASE Emailed(i)
        <3>1. CASE sent[i].config = config
            <4>1. PICK j \in mailed : SameAsk(sent[i], sent[j])
                BY <2>2 DEF Emailed, MailedFor
            <4>2. i \in Emails /\ j \in Emails /\ sent[i].key = sent[j].key
                BY <2>2, <4>1 DEF Emailed, Emails, CallsTypeOK, IInv, MailsFit, SameAsk
            <4>3. sent[j].attempt = attempt /\ sent[j].config = config
                BY <3>1, <4>1, <4>2 DEF IInv, KeysFit, Flight, SameAsk
            <4>. QED
                BY <2>2, <4>3 DEF AcceptedIsTrue, Emailed, Settle
        <3>2. CASE sent[i].config # config
            BY <2>2, <3>2, AcceptedKept DEF Emailed, Settle
        <3>. QED
            BY <3>1, <3>2
    <2>. QED
        BY <1>6, <2>1, <2>2 DEF Answer
<1>7. ASSUME NEW i \in 1..Len(sent), Mail(i),
             UNCHANGED <<history, config, open, attemptState, refs>>
      PROVE  AcceptedIsTrue'
    BY <1>7, AcceptedKept DEF Mail
<1>. QED
    BY <1>1, <1>2, <1>3, <1>5, <1>6, <1>7 DEF Next, Deliver

LEMMA InitIInv == Init => IInv
BY InitTypes
   DEF IInv, Init, CallsInit, Flight, ShutExactlyByACall, TickFits, KeysFit, Emails, MailsFit, AcceptedIsTrue

LEMMA IInvStep ==
    ASSUME IInv, [Next]_vars
    PROVE  IInv'
<1>1. TypeOK' /\ Flight' /\ TickFits'
    BY TypeStep, FlightStep, TickStep DEF IInv
<1>2. KeysFit' /\ MailsFit' /\ AcceptedIsTrue'
    BY KeysStep, MailsStep, AcceptedStep DEF IInv
<1>. QED
    BY <1>1, <1>2 DEF IInv

(* The invariant the properties follow from holds in every reachable state. *)
THEOREM InductiveInvariant == Spec => []IInv
<1>1. Init => IInv
    BY InitIInv
<1>2. IInv /\ [Next]_vars => IInv'
    BY IInvStep
<1>. QED
    BY <1>1, <1>2, PTL DEF Spec

-----------------------------------------------------------------------------
(* The properties *)

(* Every reachable state has the types of TypeOK. *)
THEOREM TypeCorrect == Spec => []TypeOK
<1>1. Init => TypeOK
    BY InitTypes
<1>2. TypeOK /\ [Next]_vars => TypeOK'
    BY TypeStep
<1>. QED
    BY <1>1, <1>2, PTL DEF Spec

(* The dialog is shut exactly while a call is out, however renders lag and the     *)
(* draft changes.                                                                  *)
THEOREM ShutHolds == Spec => []ShutExactlyByACall
<1>1. IInv => ShutExactlyByACall
    BY DEF IInv, Flight
<1>. QED
    BY <1>1, InductiveInvariant, PTL

(* However fast the reader clicks and whatever changes meanwhile, at most one call *)
(* is out.                                                                         *)
THEOREM OneCallHolds == Spec => []OneCallAtATime
<1>1. IInv => OneCallAtATime
    <2>1. SUFFICES ASSUME IInv PROVE Cardinality(out) <= 1
        BY DEF OneCallAtATime
    <2>2. CASE out = {}
        BY <2>2, FS_EmptySet
    <2>3. CASE out # {}
        <3>1. PICK i \in out : TRUE
            BY <2>3
        <3>2. out = {i}
            BY <2>1 DEF IInv, Flight
        <3>. QED
            BY <3>2, FS_Singleton
    <2>. QED
        BY <2>2, <2>3
<1>. QED
    BY <1>1, InductiveInvariant, PTL

(* A key never goes with two contents. *)
THEOREM KeysHold == Spec => []OneKeyOneContent
<1>1. IInv => OneKeyOneContent
    BY DEF IInv, KeysFit, Emails, OneKeyOneContent
<1>. QED
    BY <1>1, InductiveInvariant, PTL

(* The dialog never claims an email that was not accepted for what it shows. *)
THEOREM AcceptedHolds == Spec => []AcceptedIsTrue
<1>1. IInv => AcceptedIsTrue
    BY DEF IInv
<1>. QED
    BY <1>1, InductiveInvariant, PTL

(* Nothing is asked for that was not acknowledged in the same attempt. *)
THEOREM AcknowledgmentHolds == Spec => SendsOnlyWhatWasAcknowledged
<1> DEFINE Acknowledged ==
        Len(sent') > Len(sent) =>
            LET c == sent'[Len(sent')] IN
                agreed = [attempt |-> c.attempt, config |-> c.config]
<1>1. IInv /\ [Next]_vars => [Acknowledged]_<<sent, agreed>>
    <2> SUFFICES ASSUME IInv, [Next]_vars, Len(sent') > Len(sent)
                 PROVE  Acknowledged
        OBVIOUS
    <2>. CallsTypeOK /\ Len(sent) \in Nat
        BY DEF IInv, TypeOK, CallsTypeOK
    <2>1. sent' # sent
        OBVIOUS
    <2>2. CASE DownloadDocument \/ EmailDocument
        <3>1. PICK kind, k, e : Post(kind, k, config, e) /\ ticked
            BY <2>2 DEF DownloadDocument, EmailDocument, MayCall
        <3>2. /\ Len(sent') = Len(sent) + 1
              /\ sent'[Len(sent')].attempt = attempt
              /\ sent'[Len(sent')].config = config
            <4>1. /\ Len(sent') = Len(sent) + 1
                  /\ sent'[Len(sent) + 1] =
                        [kind |-> kind, key |-> k, config |-> config,
                         email |-> e, attempt |-> attempt]
                BY <3>1, PostFacts
            <4>. QED
                BY <4>1
        <3>. QED
            BY <3>1, <3>2 DEF IInv, TickFits
    <2>3. CASE ~ (DownloadDocument \/ EmailDocument)
        BY <2>1, <2>3
           DEF Next, Visit, Deliver, Answer, Open, Close, ReachBottom, Tick, Continue, Back,
               EditEmail, RefuseIncomplete, Reconfigure, Render, Downloaded, Emailed,
               CallFails, Settle, Mail, vars, calls
    <2>. QED
        BY <2>2, <2>3
<1>. QED
    BY <1>1, InductiveInvariant, PTL DEF Spec, SendsOnlyWhatWasAcknowledged

-----------------------------------------------------------------------------
(* Sending again *)

\* Emails i and j ask for the same, and so does every email between them.
SameRun(i, j) ==
    /\ i <= j
    /\ \A k \in Emails : i <= k /\ k <= j => SameContent(sent[i], sent[k])

IsLast(l) == \A k \in Emails : k <= l

(* A run of emails has one key.  While the dialog is open, emailKeyRef holds the *)
(* key of the last email, if this attempt sent it.                               *)
RunsFit ==
    /\ \A i, j \in Emails : SameRun(i, j) => sent[i].key = sent[j].key
    /\ Emails # {} => \E l \in Emails : IsLast(l)
    /\ \A i \in Emails : sent[i].attempt <= attempt
    /\ open => \A l \in Emails : IsLast(l) /\ sent[l].attempt = attempt
                  => emailKey # NoEmailKey /\ emailKey.key = sent[l].key

KeysMailOnce == \A i, j \in mailed : sent[i].key = sent[j].key => i = j

LEMMA RunsKept ==
    ASSUME TypeOK, RunsFit,
           Emails' = Emails, \A i \in Emails : sent'[i] = sent[i],
           \/ UNCHANGED <<open, attempt, emailKey>>
           \/ ~ open' /\ attempt' = attempt
           \/ open' /\ attempt' = attempt + 1
    PROVE  RunsFit'
<1>1. attempt \in Nat /\ \A i \in Emails : sent[i].attempt \in Nat
    <2>1. sent \in Seq(Call) /\ attempt \in Nat
        BY DEF TypeOK, CallsTypeOK
    <2>2. \A i \in Emails : sent[i] \in Call
        BY <2>1 DEF Emails
    <2>. QED
        BY <2>1, <2>2 DEF Call
<1>2. \A i, j \in Emails : SameRun(i, j)' => SameRun(i, j)
    BY DEF SameRun
<1>3. \A l \in Emails : IsLast(l)' <=> IsLast(l)
    BY DEF IsLast
<1>. QED
    BY <1>1, <1>2, <1>3 DEF RunsFit

LEMMA RunsStep ==
    ASSUME IInv, RunsFit, [Next]_vars
    PROVE  RunsFit'
<1> USE DEF calls, history, attemptState, refs
<1>. TypeOK /\ CallsTypeOK /\ Len(sent) \in Nat /\ attempt \in Nat
    BY DEF IInv, TypeOK, CallsTypeOK
<1>1. ASSUME UNCHANGED sent
      PROVE  Emails' = Emails /\ \A i \in Emails : sent'[i] = sent[i]
    BY <1>1 DEF Emails
<1>2. CASE Visit \/ RefuseIncomplete
    BY <1>1, <1>2, RunsKept
       DEF Visit, Open, Close, ReachBottom, Tick, Continue, Back, EditEmail,
           RefuseIncomplete, ResetAttempt
<1>3. CASE Render \/ UNCHANGED vars \/ \E c \in Config : Reconfigure(c)
    BY <1>1, <1>3, RunsKept DEF Render, Reconfigure, vars
<1>4. CASE DownloadDocument
    <2>1. Post("download", NoKey, config, Mine)
        BY <1>4 DEF DownloadDocument
    <2>2. /\ 1..Len(sent') = 1..Len(sent) \cup {Len(sent) + 1}
          /\ \A i \in 1..Len(sent) : sent'[i] = sent[i]
          /\ sent'[Len(sent) + 1] = [kind |-> "download", key |-> NoKey, config |-> config,
                                     email |-> Mine, attempt |-> attempt]
        BY <2>1, PostFacts
    <2>3. Emails' = Emails /\ \A i \in Emails : sent'[i] = sent[i]
        BY <2>2 DEF Emails
    <2>. QED
        BY <1>4, <2>3, RunsKept DEF DownloadDocument
<1>5. CASE EmailDocument
    <2> DEFINE k == IF KeyMatches THEN emailKey.key ELSE keys + 1
    <2>. PICK n \in Nat : n = Len(sent) + 1
        OBVIOUS
    <2>1. Post("email", k, config, email)
        BY <1>5 DEF EmailDocument
    <2>2. /\ Emails' = Emails \cup {n}
          /\ \A i \in Emails : i \in Nat /\ i < n /\ sent'[i] = sent[i]
          /\ sent'[n] = [kind |-> "email", key |-> k, config |-> config,
                         email |-> email, attempt |-> attempt]
        BY <2>1, PostFacts DEF Emails
    <2>3. /\ UNCHANGED <<attempt, open>> /\ open
          /\ emailKey' = [key |-> k, config |-> config, email |-> email]
          /\ emailKey' # NoEmailKey
        BY <1>5 DEF EmailDocument, MayCall, NoEmailKey
    <2>4. ASSUME NEW i \in Emails, SameRun(i, n)'
          PROVE  sent[i].key = k
        <3>1. PICK l \in Emails : IsLast(l)
            BY <2>4 DEF RunsFit
        <3>2. i <= l /\ l < n
            BY <2>2, <3>1 DEF IsLast
        <3>3. SameContent(sent[i], sent'[n]) /\ SameContent(sent[i], sent[l])
            <4>1. /\ n \in Emails' /\ l \in Emails'
                  /\ sent'[i] = sent[i] /\ sent'[l] = sent[l]
                  /\ i <= n /\ n <= n /\ l <= n
                BY <2>2, <3>2
            <4>. QED
                BY <2>4, <3>2, <4>1 DEF SameRun, SameContent
        <3>4. \A j \in Emails : i <= j /\ j <= l => SameContent(sent[i], sent[j])
            BY <2>2, <2>4, <3>2 DEF SameRun, SameContent
        <3>5. sent[i].key = sent[l].key
            BY <3>1, <3>2, <3>4 DEF RunsFit, SameRun
        <3>6. /\ sent[l].attempt = attempt /\ sent[l].config = config
              /\ sent[l].email = email
            BY <2>2, <3>3 DEF SameContent
        <3>7. emailKey # NoEmailKey /\ emailKey.key = sent[l].key
            BY <2>3, <3>1, <3>6 DEF RunsFit
        <3>8. KeyMatches
            BY <3>6, <3>7 DEF IInv, KeysFit, SameAsk, KeyMatches
        <3>. QED
            BY <3>5, <3>7, <3>8
    <2>5. \A i, j \in Emails : SameRun(i, j)' => SameRun(i, j)
        BY <2>2 DEF SameRun
    <2>6. \A i \in Emails : ~ SameRun(n, i)'
        BY <2>2 DEF SameRun
    <2>7. \A i, j \in Emails' : SameRun(i, j)' => sent'[i].key = sent'[j].key
        <3> SUFFICES ASSUME NEW i \in Emails', NEW j \in Emails', SameRun(i, j)'
                     PROVE  sent'[i].key = sent'[j].key
            OBVIOUS
        <3>1. CASE i \in Emails /\ j \in Emails
            BY <2>2, <2>5, <3>1 DEF RunsFit
        <3>2. CASE i \in Emails /\ j = n
            BY <2>2, <2>4, <3>2
        <3>3. CASE i = n
            BY <2>2, <2>6, <3>3
        <3>. QED
            BY <2>2, <3>1, <3>2, <3>3
    <2>8. IsLast(n)' /\ \A i \in Emails : ~ IsLast(i)'
        BY <2>2 DEF IsLast
    <2>9. \A i \in Emails' : sent'[i].attempt <= attempt'
        BY <2>2, <2>3 DEF RunsFit
    <2>10. \A l \in Emails' : IsLast(l)' => emailKey'.key = sent'[l].key
        BY <2>2, <2>3, <2>8
    <2>11. \E l \in Emails' : IsLast(l)'
        BY <2>2, <2>8
    <2>. QED
        BY <2>3, <2>7, <2>9, <2>10, <2>11 DEF RunsFit
<1>6. ASSUME NEW i \in out, Answer(i)
      PROVE  RunsFit'
    BY <1>1, <1>6, RunsKept DEF Answer, Downloaded, Emailed, CallFails, Settle, ResetAttempt
<1>7. ASSUME NEW i \in 1..Len(sent), Mail(i),
             UNCHANGED <<history, config, open, attemptState, refs>>
      PROVE  RunsFit'
    BY <1>1, <1>7, RunsKept DEF Mail
<1>. QED
    BY <1>2, <1>3, <1>4, <1>5, <1>6, <1>7 DEF Next, Deliver

LEMMA MailOnceStep ==
    ASSUME IInv, KeysMailOnce, [Next]_vars
    PROVE  KeysMailOnce'
<1> USE DEF calls, history, attemptState, refs
<1>. CallsTypeOK
    BY DEF IInv, TypeOK
<1>1. ASSUME UNCHANGED <<sent, mailed>>
      PROVE  KeysMailOnce'
    BY <1>1 DEF KeysMailOnce
<1>2. CASE Visit \/ RefuseIncomplete \/ Render \/ UNCHANGED vars \/ \E c \in Config : Reconfigure(c)
    BY <1>1, <1>2
       DEF Visit, Open, Close, ReachBottom, Tick, Continue, Back, EditEmail,
           RefuseIncomplete, Render, Reconfigure, vars
<1>3. ASSUME NEW kind, NEW k, NEW c, NEW e, Post(kind, k, c, e)
      PROVE  KeysMailOnce'
    <2>1. /\ mailed' = mailed /\ mailed \subseteq 1..Len(sent)
          /\ \A i \in 1..Len(sent) : sent'[i] = sent[i]
        BY <1>3, PostFacts
    <2>. QED
        BY <2>1 DEF KeysMailOnce
<1>4. CASE DownloadDocument \/ EmailDocument
    BY <1>3, <1>4 DEF DownloadDocument, EmailDocument
<1>5. ASSUME NEW i \in out, Answer(i)
      PROVE  KeysMailOnce'
    BY <1>1, <1>5 DEF Answer, Downloaded, Emailed, CallFails, Settle
<1>6. ASSUME NEW i \in 1..Len(sent), Mail(i)
      PROVE  KeysMailOnce'
    BY <1>6 DEF KeysMailOnce, Mail
<1>. QED
    BY <1>2, <1>4, <1>5, <1>6 DEF Next, Deliver

(* The reader who tries again is not mailed twice, whatever was tried before. *)
THEOREM ResendsHold == Spec => []ResendsAreOneEmail
<1>1. Init => RunsFit /\ KeysMailOnce
    BY DEF Init, CallsInit, RunsFit, Emails, KeysMailOnce
<1>2. IInv /\ RunsFit /\ KeysMailOnce /\ [Next]_vars => RunsFit' /\ KeysMailOnce'
    BY RunsStep, MailOnceStep
<1>3. IInv /\ RunsFit /\ KeysMailOnce => ResendsAreOneEmail
    <2> SUFFICES ASSUME IInv, RunsFit, KeysMailOnce,
                        NEW i \in mailed, NEW j \in mailed, i < j,
                        SameContent(sent[i], sent[j]),
                        \A k \in i..j : sent[k].kind = "email"
                            => SameContent(sent[i], sent[k])
                 PROVE  FALSE
        BY DEF ResendsAreOneEmail
    <2>1. i \in Emails /\ j \in Emails /\ Emails \subseteq Nat
        BY DEF IInv, MailsFit, Emails
    <2>2. \A k \in Emails : i <= k /\ k <= j => k \in i..j /\ sent[k].kind = "email"
        BY <2>1 DEF Emails
    <2>3. SameRun(i, j)
        BY <2>1, <2>2 DEF SameRun
    <2>4. sent[i].key = sent[j].key
        BY <2>1, <2>3 DEF RunsFit
    <2>. QED
        BY <2>1, <2>4 DEF KeysMailOnce
<1>. QED
    BY <1>1, <1>2, <1>3, InductiveInvariant, PTL DEF Spec

=============================================================================
