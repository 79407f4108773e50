------------------------ MODULE EmailDeliveryProofs -------------------------
(***************************************************************************)
(* Proofs about EmailDelivery, for any requests, keys and contents.  The   *)
(* promise is not inductive: it needs that the pending map and the leaders *)
(* agree, that a follower waits for an entry with its own ask, and that    *)
(* every sign of success between Resend's acceptance and the answer        *)
(* (reply, the leader's step, the closed entry) has its email.             *)
(***************************************************************************)
EXTENDS EmailDelivery, TLAPS

Mailed(a) == \E s \in emails : ask[s] = a

\* The pending map and the leaders agree.
EntriesFit ==
    \A k \in Key : pending[k] # Nobody => ask[pending[k]].key = k

FollowersFit ==
    \A r \in Request : pc[r] = "wait" =>
        /\ leader[r] \in Request
        /\ ask[leader[r]] = ask[r]
        /\ entry[leader[r]] # "none"

\* An open entry has a leader that will close it.
OpenIsLed ==
    \A r \in Request : entry[r] = "open" => pc[r] \in Leading

\* What is on the wire carries its sender's key.
WireFits == \A m \in wire : m.key = ask[m.from].key

\* Every sign of success has its email.
SuccessIsMailed ==
    \A r \in Request :
        \/ reply[r] = "accepted"
        \/ pc[r] \in {"sent", "ok"}
        \/ entry[r] = "ok"
        => Mailed(ask[r])

IInv ==
    /\ TypeOK
    /\ OneLeaderPerKey
    /\ NoEntryLeaks
    /\ EntriesFit
    /\ FollowersFit
    /\ OpenIsLed
    /\ WireFits
    /\ SuccessIsMailed

-----------------------------------------------------------------------------

(* Every step keeps the types; a follower's result is one of its leader's entry. *)
LEMMA TypeStep ==
    ASSUME TypeOK, FollowersFit, [Next]_vars
    PROVE  TypeOK'
<1> USE NobodyAssumption, MaxRestartsAssumption
        DEF TypeOK, Leading, Failed, Answered, Message, Goto, service, resend
<1>1. CASE UNCHANGED vars
    BY <1>1 DEF vars
<1>2. ASSUME NEW r \in Request, Refuse(r)
      PROVE  TypeOK'
    BY <1>2 DEF Refuse
<1>3. ASSUME NEW r \in Request, Begin(r)
      PROVE  TypeOK'
    <2> ask[r].key \in Key
        BY DEF Ask
    <2>1. CASE Lead(r)
        BY <1>3, <2>1 DEF Begin, Lead
    <2>2. CASE Follow(r)
        BY <1>3, <2>2 DEF Begin, Follow
    <2>3. CASE Conflict(r)
        BY <1>3, <2>3 DEF Begin, Conflict
    <2> QED
        BY <1>3, <2>1, <2>2, <2>3 DEF Begin
<1>4. ASSUME NEW r \in Request, TakeResult(r)
      PROVE  TypeOK'
    BY <1>4 DEF TakeResult, FollowersFit
<1>5. ASSUME NEW r \in Request, GiveUpWaiting(r)
      PROVE  TypeOK'
    BY <1>5 DEF GiveUpWaiting
<1>6. ASSUME NEW r \in Request, GenerateAndPost(r)
      PROVE  TypeOK'
    <2> MessageOf(r) \in Message
        BY DEF MessageOf, Ask
    <2> QED
        BY <1>6 DEF GenerateAndPost
<1>7. ASSUME NEW r \in Request, SendReturns(r)
      PROVE  TypeOK'
    BY <1>7 DEF SendReturns
<1>8. ASSUME NEW r \in Request, Finish(r)
      PROVE  TypeOK'
    BY <1>8 DEF Finish, Ask
<1>9. ASSUME NEW m \in wire, Accept(m)
      PROVE  TypeOK'
    BY <1>9 DEF Accept
<1>10. ASSUME NEW m \in wire, Reject(m)
       PROVE  TypeOK'
    BY <1>10 DEF Reject
<1>11. CASE Restart
    BY <1>11 DEF Restart
<1> QED
    BY <1>1, <1>2, <1>3, <1>4, <1>5, <1>6, <1>7, <1>8, <1>9, <1>10, <1>11
       DEF Next, Email, Proceed

-----------------------------------------------------------------------------
(* The pending map and the leaders keep agreeing: only Lead enters a key, only  *)
(* when it is free, and only its leader's Finish frees it, or a restart all.    *)
LEMMA LeadersStep ==
    ASSUME TypeOK, OneLeaderPerKey, NoEntryLeaks, EntriesFit, FollowersFit, [Next]_vars
    PROVE  OneLeaderPerKey' /\ NoEntryLeaks' /\ EntriesFit'
<1> USE NobodyAssumption
        DEF TypeOK, OneLeaderPerKey, NoEntryLeaks, EntriesFit,
            Leading, Failed, Answered, Goto, service, resend
<1> DEFINE Goal == OneLeaderPerKey' /\ NoEntryLeaks' /\ EntriesFit'
<1>1. CASE UNCHANGED vars
    BY <1>1 DEF vars
<1>2. ASSUME NEW r \in Request, Refuse(r)
      PROVE  Goal
    BY <1>2 DEF Refuse
<1>3. ASSUME NEW r \in Request, Begin(r)
      PROVE  Goal
    <2> ask[r].key \in Key
        BY DEF Ask
    <2>1. CASE Lead(r)
        BY <1>3, <2>1 DEF Begin, Lead
    <2>2. CASE Follow(r)
        BY <1>3, <2>2 DEF Begin, Follow
    <2>3. CASE Conflict(r)
        BY <1>3, <2>3 DEF Begin, Conflict
    <2> QED
        BY <1>3, <2>1, <2>2, <2>3 DEF Begin
<1>4. ASSUME NEW r \in Request, TakeResult(r)
      PROVE  Goal
    BY <1>4 DEF TakeResult, FollowersFit
<1>5. ASSUME NEW r \in Request, GiveUpWaiting(r)
      PROVE  Goal
    BY <1>5 DEF GiveUpWaiting
<1>6. ASSUME NEW r \in Request, GenerateAndPost(r)
      PROVE  Goal
    BY <1>6 DEF GenerateAndPost
<1>7. ASSUME NEW r \in Request, SendReturns(r)
      PROVE  Goal
    BY <1>7 DEF SendReturns
<1>8. ASSUME NEW r \in Request, Finish(r)
      PROVE  Goal
    <2> ask[r].key \in Key
        BY DEF Ask
    <2>1. pc[r] \in Leading /\ pending[ask[r].key] = r
        BY <1>8 DEF Finish
    <2>2. OneLeaderPerKey'
        BY <1>8, <2>1 DEF Finish
    <2>3. NoEntryLeaks' /\ EntriesFit'
        BY <1>8, <2>1 DEF Finish
    <2> QED
        BY <2>2, <2>3
<1>9. ASSUME NEW m \in wire, Accept(m) \/ Reject(m)
      PROVE  Goal
    BY <1>9 DEF Accept, Reject
<1>10. CASE Restart
    BY <1>10 DEF Restart
<1> QED
    BY <1>1, <1>2, <1>3, <1>4, <1>5, <1>6, <1>7, <1>8, <1>9, <1>10
       DEF Next, Email, Proceed

(* A follower waits for an entry that was opened for its own ask. *)
LEMMA FollowersStep ==
    ASSUME TypeOK, NoEntryLeaks, EntriesFit, FollowersFit, [Next]_vars
    PROVE  FollowersFit'
<1> USE NobodyAssumption
        DEF TypeOK, FollowersFit, Leading, Failed, Answered, Goto, service, resend
<1>1. CASE UNCHANGED vars
    BY <1>1 DEF vars
<1>2. ASSUME NEW r \in Request, Refuse(r) \/ GiveUpWaiting(r) \/ GenerateAndPost(r) \/ SendReturns(r)
      PROVE  FollowersFit'
    BY <1>2 DEF Refuse, GiveUpWaiting, GenerateAndPost, SendReturns
<1>3. ASSUME NEW r \in Request, Begin(r)
      PROVE  FollowersFit'
    <2> ask[r] \in Ask /\ ask[r].key \in Key
        BY DEF Ask
    <2>1. CASE Lead(r)
        BY <1>3, <2>1 DEF Begin, Lead
    <2>2. CASE Follow(r)
        <3> DEFINE l == pending[ask[r].key]
        <3>1. l \in Request /\ entry[l] = "open" /\ ask[l].key = ask[r].key
            BY <2>2 DEF Follow, NoEntryLeaks, EntriesFit
        <3>2. ask[l].content = ask[r].content
            BY <2>2 DEF Follow, SameDigest
        <3>3. ask[l] \in Ask
            BY <3>1
        <3>4. ask[l] = ask[r]
            BY <3>1, <3>2, <3>3 DEF Ask
        <3> QED
            BY <1>3, <2>2, <3>1, <3>4 DEF Begin, Follow
    <2>3. CASE Conflict(r)
        BY <1>3, <2>3 DEF Begin, Conflict
    <2> QED
        BY <1>3, <2>1, <2>2, <2>3 DEF Begin
<1>4. ASSUME NEW r \in Request, TakeResult(r)
      PROVE  FollowersFit'
    BY <1>4 DEF TakeResult
<1>5. ASSUME NEW r \in Request, Finish(r)
      PROVE  FollowersFit'
    BY <1>5 DEF Finish
<1>6. ASSUME NEW m \in wire, Accept(m) \/ Reject(m)
      PROVE  FollowersFit'
    BY <1>6 DEF Accept, Reject
<1>7. CASE Restart
    BY <1>7 DEF Restart
<1> QED
    BY <1>1, <1>2, <1>3, <1>4, <1>5, <1>6, <1>7 DEF Next, Email, Proceed

(* Only Lead opens an entry, and a leader stops by closing it or with the API. *)
LEMMA OpenStep ==
    ASSUME TypeOK, OpenIsLed, [Next]_vars
    PROVE  OpenIsLed'
<1> USE DEF TypeOK, OpenIsLed, Leading, Goto, service, resend
<1>1. ASSUME NEW r \in Request,
             Refuse(r) \/ TakeResult(r) \/ GiveUpWaiting(r) \/ GenerateAndPost(r) \/ SendReturns(r)
      PROVE  OpenIsLed'
    BY <1>1 DEF Refuse, TakeResult, GiveUpWaiting, GenerateAndPost, SendReturns
<1>2. ASSUME NEW r \in Request, Begin(r)
      PROVE  OpenIsLed'
    BY <1>2 DEF Begin, Lead, Follow, Conflict
<1>3. ASSUME NEW r \in Request, Finish(r)
      PROVE  OpenIsLed'
    BY <1>3 DEF Finish
<1>4. ASSUME NEW m \in wire, Accept(m) \/ Reject(m)
      PROVE  OpenIsLed'
    BY <1>4 DEF Accept, Reject
<1>5. CASE Restart
    BY <1>5 DEF Restart
<1>6. CASE UNCHANGED vars
    BY <1>6 DEF vars
<1> QED
    BY <1>1, <1>2, <1>3, <1>4, <1>5, <1>6 DEF Next, Email, Proceed

(* What is on the wire keeps carrying its sender's key. *)
LEMMA WireStep ==
    ASSUME TypeOK, WireFits, [Next]_vars
    PROVE  WireFits'
<1> USE DEF WireFits, service, resend
<1>1. ASSUME NEW r \in Request, GenerateAndPost(r)
      PROVE  WireFits'
    BY <1>1 DEF GenerateAndPost, MessageOf
<1>2. ASSUME NEW m \in wire, Accept(m) \/ Reject(m)
      PROVE  WireFits'
    BY <1>2 DEF Accept, Reject
<1>3. CASE Restart
    BY <1>3 DEF Restart
<1>4. ASSUME NEW r \in Request,
             Refuse(r) \/ Begin(r) \/ TakeResult(r) \/ GiveUpWaiting(r)
             \/ SendReturns(r) \/ Finish(r)
      PROVE  WireFits'
    BY <1>4 DEF Refuse, Begin, TakeResult, GiveUpWaiting, SendReturns, Finish
<1>5. CASE UNCHANGED vars
    BY <1>5 DEF vars
<1> QED
    BY <1>1, <1>2, <1>3, <1>4, <1>5 DEF Next, Email, Proceed

(* A sign of success appears only where there is an email already, and emails   *)
(* and asks never change.                                                       *)
LEMMA SuccessStep ==
    ASSUME TypeOK, FollowersFit, WireFits, SuccessIsMailed, [Next]_vars
    PROVE  SuccessIsMailed'
<1> USE DEF TypeOK, Mailed, Leading, Failed, Answered, Goto, service, resend
<1>1. CASE UNCHANGED vars
    BY <1>1 DEF vars, SuccessIsMailed
<1>2. ASSUME NEW r \in Request, Refuse(r) \/ GiveUpWaiting(r) \/ GenerateAndPost(r)
      PROVE  SuccessIsMailed'
    BY <1>2 DEF Refuse, GiveUpWaiting, GenerateAndPost, SuccessIsMailed
<1>3. ASSUME NEW r \in Request, Begin(r)
      PROVE  SuccessIsMailed'
    BY <1>3 DEF Begin, Lead, Follow, Conflict, SuccessIsMailed
<1>4. ASSUME NEW r \in Request, TakeResult(r)
      PROVE  SuccessIsMailed'
    BY <1>4 DEF TakeResult, FollowersFit, SuccessIsMailed
<1>5. ASSUME NEW r \in Request, SendReturns(r)
      PROVE  SuccessIsMailed'
    BY <1>5 DEF SendReturns, SuccessIsMailed
<1>6. ASSUME NEW r \in Request, Finish(r)
      PROVE  SuccessIsMailed'
    BY <1>6 DEF Finish, SuccessIsMailed
<1>7. ASSUME NEW m \in wire, Accept(m)
      PROVE  SuccessIsMailed'
    <2> DEFINE known == {s \in emails : ask[s].key = m.key}
    <2>1. m.from \in Request /\ m.key = ask[m.from].key /\ UNCHANGED <<ask, pc, entry>>
        BY <1>7 DEF Message, WireFits, Accept
    <2>2. emails \subseteq emails'
        BY <1>7 DEF Accept
    <2>3. \A r \in Request : r # m.from => reply'[r] = reply[r]
        BY <1>7 DEF Accept
    <2>4. reply'[m.from] = "accepted" => Mailed(ask[m.from])'
        <3>1. CASE known = {}
            <4>1. m.from \in emails'
                BY <1>7, <3>1 DEF Accept
            <4> QED
                BY <2>1, <4>1
        <3>2. CASE known # {}
            <4>1. SUFFICES ASSUME reply'[m.from] = "accepted"
                           PROVE  Mailed(ask[m.from])'
                OBVIOUS
            <4>2. PICK s \in known : SameDigest(s, m.from)
                BY <1>7, <2>1, <3>2, <4>1 DEF Accept
            <4>3. ask[s] \in Ask /\ ask[m.from] \in Ask
                BY <2>1
            <4>4. ask[s] = ask[m.from]
                BY <2>1, <4>2, <4>3 DEF Ask, SameDigest
            <4> QED
                BY <2>1, <2>2, <4>4
        <3> QED
            BY <3>1, <3>2
    <2> QED
        BY <2>1, <2>2, <2>3, <2>4 DEF SuccessIsMailed
<1>8. ASSUME NEW m \in wire, Reject(m)
      PROVE  SuccessIsMailed'
    BY <1>8 DEF Reject, Message, SuccessIsMailed
<1>9. CASE Restart
    BY <1>9 DEF Restart, SuccessIsMailed
<1> QED
    BY <1>1, <1>2, <1>3, <1>4, <1>5, <1>6, <1>7, <1>8, <1>9 DEF Next, Email, Proceed

(* The inductive invariant. *)
THEOREM InductiveInvariant == Spec => []IInv
<1>1. Init => IInv
    BY NobodyAssumption
       DEF Init, IInv, TypeOK, OneLeaderPerKey, NoEntryLeaks, EntriesFit, FollowersFit,
           OpenIsLed, WireFits, SuccessIsMailed, Leading, Failed, Answered
<1>2. IInv /\ [Next]_vars => IInv'
    BY TypeStep, LeadersStep, FollowersStep, OpenStep, WireStep, SuccessStep
       DEF IInv
<1> QED
    BY <1>1, <1>2, PTL DEF Spec

(* Every variable keeps its type, for any requests, keys and contents. *)
THEOREM TypeCorrect == Spec => []TypeOK
BY InductiveInvariant, PTL DEF IInv

(* Duplicates are suppressed while pending: one leader for each key. *)
THEOREM DuplicatesAreSuppressed == Spec => []OneLeaderPerKey
BY InductiveInvariant, PTL DEF IInv

(* No path out of Email leaves its key in the pending map. *)
THEOREM KeysAreFreed == Spec => []NoEntryLeaks
BY InductiveInvariant, PTL DEF IInv

(* A follower's result is there, or its leader runs and holds the key.  This is  *)
(* what FollowersAreAnswered rests on beside the scheduler's fairness.           *)
THEOREM FollowersHaveALeader == Spec => []NobodyWaitsInVain
<1>1. IInv => NobodyWaitsInVain
    <2> SUFFICES ASSUME IInv, NEW r \in Request, pc[r] = "wait"
                 PROVE  LET l == leader[r] IN
                        /\ l \in Request
                        /\ ask[l] = ask[r]
                        /\ \/ entry[l] \in {"ok", "failed"}
                           \/ pc[l] \in Leading /\ pending[ask[r].key] = l
        BY DEF NobodyWaitsInVain
    <2>1. /\ leader[r] \in Request
          /\ ask[leader[r]] = ask[r]
          /\ entry[leader[r]] \in {"open", "ok", "failed"}
        BY DEF IInv, TypeOK, FollowersFit
    <2>2. entry[leader[r]] = "open" => pc[leader[r]] \in Leading
        BY <2>1 DEF IInv, OpenIsLed
    <2>. QED
        BY <2>1, <2>2 DEF IInv, OneLeaderPerKey
<1>. QED
    BY <1>1, InductiveInvariant, PTL

-----------------------------------------------------------------------------

(* Every step keeps the promise: it mails, tells one request of success, tells  *)
(* some of failure, or does nothing of the kind.                                *)
LEMMA PromiseStep ==
    ASSUME IInv, [Next]_vars
    PROVE  [Promise!Next]_(Promise!vars)
<1> USE DEF IInv, TypeOK, Leading, Failed, Answered, Goto, service, resend, Told
<1> DEFINE told == [r \in Request |-> Told(r)]
           Stutter == UNCHANGED <<ask, emails>> /\ told' = told
           Failing(R) == Promise!TellFailure(R)
<1>1. ASSUME UNCHANGED <<ask, pc, emails>>
      PROVE  Stutter
    BY <1>1
<1>2. ASSUME NEW r \in Request, pc[r] \notin Answered,
             NEW to \in {"wait", "sent", "unsent", "sending", "generate"},
             pc' = [pc EXCEPT ![r] = to], UNCHANGED <<ask, emails>>
      PROVE  Stutter
    <2>1. \A s \in Request : Told(s)' = Told(s)
        BY <1>2
    <2> QED
        BY <1>2, <2>1
<1>3. ASSUME NEW r \in Request, pc[r] \notin Answered, NEW to \in Failed,
             pc' = [pc EXCEPT ![r] = to], UNCHANGED <<ask, emails>>
      PROVE  Failing({r})
    BY <1>3 DEF Promise!TellFailure
<1>4. ASSUME NEW r \in Request, pc[r] \notin Answered, Mailed(ask[r]),
             pc' = [pc EXCEPT ![r] = "ok"], UNCHANGED <<ask, emails>>
      PROVE  Promise!TellSuccess(r)
    BY <1>4 DEF Promise!TellSuccess, Mailed
<1>5. ASSUME NEW R \in SUBSET Request, Failing(R)
      PROVE  Promise!Next
    BY <1>5 DEF Promise!Next
<1>6. ASSUME NEW r \in Request, Email(r)
      PROVE  \/ Stutter
             \/ Failing({r})
             \/ Promise!TellSuccess(r)
    <2>1. CASE Refuse(r)
        BY <1>3, <2>1 DEF Refuse
    <2>2. CASE Begin(r)
        BY <1>2, <1>3, <2>2 DEF Begin, Lead, Follow, Conflict
    <2>3. CASE TakeResult(r)
        <3>1. entry[leader[r]] \in {"ok", "failed"}
            BY <2>3 DEF TakeResult, FollowersFit
        <3>2. entry[leader[r]] = "ok" => Mailed(ask[r])
            BY <2>3 DEF TakeResult, FollowersFit, SuccessIsMailed
        <3> QED
            BY <1>3, <1>4, <2>3, <3>1, <3>2 DEF TakeResult
    <2>4. CASE GiveUpWaiting(r)
        BY <1>3, <2>4 DEF GiveUpWaiting
    <2>5. CASE GenerateAndPost(r)
        BY <1>2, <2>5 DEF GenerateAndPost
    <2>6. CASE SendReturns(r)
        BY <1>2, <2>6 DEF SendReturns
    <2>7. CASE Finish(r)
        <3>1. pc[r] = "sent" => Mailed(ask[r])
            BY DEF SuccessIsMailed
        <3> QED
            BY <1>3, <1>4, <2>7, <3>1 DEF Finish
    <2> QED
        BY <1>6, <2>1, <2>2, <2>3, <2>4, <2>5, <2>6, <2>7 DEF Email, Proceed
<1>7. ASSUME NEW m \in wire, Accept(m)
      PROVE  Stutter \/ Promise!Mail(m.from)
    <2>1. UNCHANGED <<ask, pc>> /\ told' = told
        BY <1>7 DEF Accept
    <2>2. m.key = ask[m.from].key
        BY DEF WireFits
    <2> QED
        BY <1>7, <2>1, <2>2 DEF Accept, Promise!Mail
<1>8. ASSUME NEW m \in wire, Reject(m)
      PROVE  Stutter
    BY <1>1, <1>8 DEF Reject
<1>9. CASE Restart
    <2>1. PICK R \in SUBSET Request : R = {r \in Request : pc[r] \in {"wait"} \cup Leading}
        OBVIOUS
    <2>2. pc' = [r \in Request |-> IF r \in R THEN "gone" ELSE pc[r]]
        BY <1>9, <2>1 DEF Restart
    <2>3. UNCHANGED <<ask, emails>>
        BY <1>9 DEF Restart
    <2>4. Failing(R)
        BY <2>1, <2>2, <2>3 DEF Promise!TellFailure
    <2> QED
        BY <1>5, <2>4
<1>10. CASE UNCHANGED vars
    BY <1>1, <1>10 DEF vars, Promise!vars
<1>11. Stutter => UNCHANGED Promise!vars
    BY DEF Promise!vars
<1>12. ASSUME NEW m \in wire
       PROVE  m.from \in Request
    BY DEF Message
<1> QED
    BY <1>5, <1>6, <1>7, <1>8, <1>9, <1>10, <1>11, <1>12 DEF Next, Promise!Next

(* The services implement EmailPromise: at most one email for a key, and        *)
(* success told only of an email with the request's own ask.                    *)
THEOREM PromiseKept == Spec => KeepsThePromise
<1>1. Init => Promise!Init
    BY DEF Init, Promise!Init, Told, Failed
<1>2. IInv /\ [Next]_vars => [Promise!Next]_(Promise!vars)
    BY PromiseStep
<1> QED
    BY <1>1, <1>2, InductiveInvariant, PTL DEF Spec, KeepsThePromise, Promise!Spec

-----------------------------------------------------------------------------
(* What the promise is worth: its own consequences, which the services inherit. *)

LEMMA PromiseSafe ==
    Promise!Spec => /\ []Promise!OneEmailPerKey
                    /\ []Promise!SuccessIsTrue
                    /\ Promise!AnswersStand
<1> DEFINE told == [r \in Request |-> Told(r)]
           Stands == /\ emails \subseteq emails'
                     /\ \A r \in Request : told[r] # "nothing" => told'[r] = told[r]
           Safe == /\ Promise!OneEmailPerKey
                   /\ Promise!SuccessIsTrue
<1>1. Promise!Init => Safe
    BY DEF Promise!Init, Promise!OneEmailPerKey, Promise!SuccessIsTrue
<1>2. ASSUME Safe, [Promise!Next]_(Promise!vars)
      PROVE  Safe' /\ Stands
    <2>1. ASSUME NEW r \in Request, Promise!Mail(r)
          PROVE  Safe' /\ Stands
        BY <1>2, <2>1 DEF Promise!Mail, Promise!OneEmailPerKey, Promise!SuccessIsTrue
    <2>2. ASSUME NEW r \in Request, Promise!TellSuccess(r)
          PROVE  Safe' /\ Stands
        BY <1>2, <2>2 DEF Promise!TellSuccess, Promise!OneEmailPerKey, Promise!SuccessIsTrue
    <2>3. ASSUME NEW R \in SUBSET Request, Promise!TellFailure(R)
          PROVE  Safe' /\ Stands
        BY <1>2, <2>3 DEF Promise!TellFailure, Promise!OneEmailPerKey, Promise!SuccessIsTrue
    <2>4. CASE UNCHANGED Promise!vars
        BY <1>2, <2>4 DEF Promise!vars, Promise!OneEmailPerKey, Promise!SuccessIsTrue
    <2>. QED
        BY <1>2, <2>1, <2>2, <2>3, <2>4 DEF Promise!Next
<1>3. Safe /\ [Promise!Next]_(Promise!vars) => Safe' /\ [Stands]_(Promise!vars)
    BY <1>2
<1>. QED
    BY <1>1, <1>3, PTL DEF Promise!Spec, Promise!AnswersStand

(* A key makes one email, for any requests, contents, restarts and lost answers. *)
THEOREM KeysMailOnce == Spec => []Promise!OneEmailPerKey
BY PromiseKept, PromiseSafe, PTL DEF KeepsThePromise

(* Whoever was told of success, leader, follower or retry, has its own email.    *)
THEOREM SuccessIsOwn == Spec => []Promise!SuccessIsTrue
BY PromiseKept, PromiseSafe, PTL DEF KeepsThePromise

(* An answer is never revised and an email never taken back.                     *)
THEOREM AnswersAreFinal == Spec => Promise!AnswersStand
BY PromiseKept, PromiseSafe, PTL DEF KeepsThePromise

=============================================================================
