--------------------------- MODULE UserSyncProofs ---------------------------
(* Theorems about UserSync, for any users, requests and bounds. *)
EXTENDS UserSync, TLAPS

\* Only what the provider really did is announced.
AnnouncedTruly ==
    \A e \in inbox :
        /\ life[e.user] # "unborn"
        /\ e.kind = "user.deleted" => life[e.user] = "deleted"

\* A request is about a user that exists or existed, and holds nothing of the
\* provider's before it asked.
RequestsAboutUsers ==
    \A r \in Request :
        /\ pc[r] # "idle" => life[subject[r]] # "unborn"
        /\ pc[r] \in {"idle", "get"} => remote[r] = NoProfile

\* The row that made an upsert be skipped is still there and still as new when it
\* is read again, unless the account was deleted: deletions alone remove rows.
SkippedForNewer ==
    \A r \in Request :
        pc[r] = "reread" /\ life[subject[r]] = "alive" =>
            /\ row[subject[r]] # NoRow
            /\ row[subject[r]].at >= remote[r].at

IInv ==
    /\ TypeOK
    /\ AnnouncedTruly
    /\ RequestsAboutUsers
    /\ SkippedForNewer
    /\ AnsweredUserIsStored
    /\ AnswerNotOlderThanRemote
    /\ RefusalMeansDeleted

-----------------------------------------------------------------------------

LEMMA TypeStep ==
  ASSUME TypeOK, [Next]_vars
  PROVE  TypeOK'
<1> USE DEF TypeOK, Profile, NoProfile, provider, webhooks, requests
<1>1. ASSUME NEW u \in User, ProviderCreates(u) PROVE TypeOK'
  BY <1>1 DEF ProviderCreates, Emit, Event, EventKind
<1>2. ASSUME NEW u \in User, ProviderUpdates(u) PROVE TypeOK'
  <2>1. PICK tick \in {0, 1} :
           profile' = [profile EXCEPT ![u] = [rev |-> @.rev + 1, at |-> @.at + tick]]
    BY <1>2 DEF ProviderUpdates
  <2>2. profile' \in [User -> Profile]
    BY <2>1
  <2>3. QED
    BY <1>2, <2>2 DEF ProviderUpdates, Emit, Event, EventKind
<1>3. ASSUME NEW u \in User, ProviderSendsOther(u) PROVE TypeOK'
  BY <1>3 DEF ProviderSendsOther, Event, EventKind
<1>4. ASSUME NEW u \in User, ProviderDeletes(u) PROVE TypeOK'
  BY <1>4 DEF ProviderDeletes, Emit, Event, EventKind
<1>5. ASSUME NEW e \in inbox, ApplyWebhookEvent(e) PROVE row' \in [User -> Profile \cup {NoRow}]
  <2>1. e.user \in User /\ e.data \in Profile
    BY DEF Event
  <2>2. QED
    BY <1>5, <2>1 DEF ApplyWebhookEvent, UpsertUserIfNewer, DeleteUser
<1>6. ASSUME NEW e \in inbox, Deliver(e) PROVE TypeOK'
  BY <1>5, <1>6 DEF Deliver
<1>7. ASSUME NEW e \in inbox, DeliverUnacknowledged(e) PROVE TypeOK'
  BY <1>5, <1>7 DEF DeliverUnacknowledged
<1>8. ASSUME NEW r \in Request, NEW u \in User, StartMe(r, u) PROVE TypeOK'
  BY <1>8 DEF StartMe, Goto, Working, Answered
<1>9. ASSUME NEW r \in Request, NEW u \in User, StartSession(r, u) PROVE TypeOK'
  BY <1>9 DEF StartSession, Goto, Working, Answered
<1>10. ASSUME NEW r \in Request, MeGet(r) PROVE TypeOK'
  BY <1>10 DEF MeGet, Goto, Working, Answered
<1>11. ASSUME NEW r \in Request, MeGetUser(r) PROVE TypeOK'
  <2>1. subject[r] \in User /\ profile[subject[r]] \in Profile
    BY Zenon
  <2>2. pc' \in [Request -> {"idle"} \cup Working \cup Answered]
    BY <1>11 DEF MeGetUser, Goto, Working, Answered
  <2>3. remote' \in [Request -> Profile]
    BY <1>11, <2>1 DEF MeGetUser
  <2>4. QED
    BY <1>11, <2>2, <2>3 DEF MeGetUser
<1>12. ASSUME NEW r \in Request, Upsert(r) PROVE TypeOK'
  BY <1>12 DEF Upsert, UpsertUserIfNewer, Goto, Working, Answered
<1>13. ASSUME NEW r \in Request, Reread(r) PROVE TypeOK'
  BY <1>13 DEF Reread, Goto, Working, Answered
<1>14. ASSUME NEW r \in Request, Fail(r) PROVE TypeOK'
  BY <1>14 DEF Fail, UpsertUserIfNewer, Working, Answered
<1>15. ASSUME NEW r \in Request, Return(r) PROVE TypeOK'
  BY <1>15 DEF Return, Working, Answered
<1>16. CASE UNCHANGED vars
  BY <1>16 DEF vars
<1>17. QED
  BY <1>1, <1>2, <1>3, <1>4, <1>6, <1>7, <1>8, <1>9, <1>10, <1>11, <1>12, <1>13,
     <1>14, <1>15, <1>16
  DEF Next, Provider, Webhook, Serve

(* Type correctness: every variable keeps the shape its Go or SQL type gives it. *)
THEOREM TypeCorrect == Spec => []TypeOK
<1>1. Init => TypeOK
  BY DEF Init, TypeOK, NoProfile, Profile
<1>2. TypeOK /\ [Next]_vars => TypeOK'
  BY TypeStep
<1>3. QED
  BY <1>1, <1>2, PTL DEF Spec

(* Nothing the platform does changes what the provider holds, and the provider  *)
(* only moves an account from unborn to alive to deleted.                       *)
LEMMA LifeGoesOn ==
  ASSUME TypeOK, [Next]_vars, NEW u \in User
  PROVE  /\ life[u] = "deleted" => life'[u] = "deleted"
         /\ life'[u] = "alive" => life[u] \in {"unborn", "alive"}
         /\ life[u] # "unborn" => life'[u] # "unborn"
<1> USE DEF TypeOK, provider
<1>1. CASE Provider
  BY <1>1 DEF Provider, ProviderCreates, ProviderUpdates, ProviderSendsOther, ProviderDeletes
<1>2. CASE Webhook
  BY <1>2 DEF Webhook, Deliver, DeliverUnacknowledged
<1>3. CASE Serve
  BY <1>3 DEF Serve, StartMe, StartSession, MeGet, MeGetUser, Upsert, Reread, Fail, Return
<1>4. CASE UNCHANGED vars
  BY <1>4 DEF vars
<1>5. QED
  BY <1>1, <1>2, <1>3, <1>4 DEF Next

(* What a step may do to a row: replace it by a profile at least as new, or     *)
(* remove it, and removing it takes a user.deleted event waiting in the inbox.  *)
LEMMA RowStep ==
  ASSUME TypeOK, [Next]_vars, NEW u \in User, row[u] # NoRow
  PROVE  /\ row'[u] # NoRow => row'[u].at >= row[u].at
         /\ row'[u] = NoRow => \E e \in inbox : e.user = u /\ e.kind = "user.deleted"
<1> USE DEF TypeOK, Profile
<1>1. row[u] \in Profile
  OBVIOUS
<1>2. ASSUME NEW v \in User, NEW p \in Profile, UpsertUserIfNewer(v, p)
      PROVE  row'[u] # NoRow /\ row'[u].at >= row[u].at
  <2>1. p # NoRow
    BY NoRowAssumption
  <2>2. CASE v = u /\ Accepts(v, p)
    BY <1>1, <1>2, <2>1, <2>2 DEF UpsertUserIfNewer, Accepts
  <2>3. CASE ~(v = u /\ Accepts(v, p))
    <3>1. row'[u] = row[u]
      BY <1>2, <2>3 DEF UpsertUserIfNewer
    <3>2. QED
      BY <1>1, <3>1
  <2>4. QED
    BY <2>2, <2>3
<1>3. CASE UNCHANGED row
  BY <1>1, <1>3
<1>4. CASE Provider
  BY <1>3, <1>4 DEF Provider, ProviderCreates, ProviderUpdates, ProviderSendsOther, ProviderDeletes
<1>5. CASE Webhook
  <2>1. PICK e \in inbox : ApplyWebhookEvent(e)
    BY <1>5 DEF Webhook, Deliver, DeliverUnacknowledged
  <2>2. e.user \in User /\ e.data \in Profile
    BY DEF Event
  <2>3. CASE e.kind \in {"user.created", "user.updated"}
    BY <1>2, <2>1, <2>2, <2>3 DEF ApplyWebhookEvent
  <2>4. CASE e.kind = "user.deleted"
    <3>1. CASE e.user = u
      BY <2>1, <2>2, <2>4, <3>1 DEF ApplyWebhookEvent, DeleteUser
    <3>2. CASE e.user # u
      <4>1. row'[u] = row[u]
        BY <2>1, <2>2, <2>4, <3>2 DEF ApplyWebhookEvent, DeleteUser
      <4>2. QED
        BY <1>1, <4>1
    <3>3. QED
      BY <3>1, <3>2
  <2>5. CASE e.kind \notin {"user.created", "user.updated", "user.deleted"}
    BY <1>3, <2>1, <2>5 DEF ApplyWebhookEvent
  <2>6. QED
    BY <2>3, <2>4, <2>5
<1>6. CASE Serve
  <2>1. CASE \E r \in Request : Upsert(r) \/ Fail(r)
    <3>1. PICK r \in Request : UNCHANGED row \/ UpsertUserIfNewer(subject[r], remote[r])
      BY <2>1 DEF Upsert, Fail
    <3>2. subject[r] \in User /\ remote[r] \in Profile
      OBVIOUS
    <3>3. QED
      BY <1>2, <1>3, <3>1, <3>2
  <2>2. CASE ~ \E r \in Request : Upsert(r) \/ Fail(r)
    BY <1>3, <1>6, <2>2 DEF Serve, StartMe, StartSession, MeGet, MeGetUser, Reread, Return
  <2>3. QED
    BY <2>1, <2>2
<1>7. CASE UNCHANGED vars
  BY <1>3, <1>7 DEF vars
<1>8. QED
  BY <1>4, <1>5, <1>6, <1>7 DEF Next

(* The rows of accounts that exist only get newer.                              *)
LEMMA LivingRowStep ==
  ASSUME TypeOK, AnnouncedTruly, [Next]_vars, NEW u \in User,
         row[u] # NoRow, life[u] = "alive"
  PROVE  /\ row'[u] # NoRow
         /\ row'[u].at >= row[u].at
<1>1. ~ \E e \in inbox : e.user = u /\ e.kind = "user.deleted"
  BY DEF AnnouncedTruly
<1>2. QED
  BY <1>1, RowStep

(* What a step does to one request: nothing, or one of the request's own steps. *)
LEMMA RequestStep ==
  ASSUME TypeOK, [Next]_vars, NEW r \in Request
  PROVE  \/ /\ pc'[r] = pc[r]
            /\ subject'[r] = subject[r]
            /\ remote'[r] = remote[r]
            /\ answer'[r] = answer[r]
         \/ \E u \in User : StartMe(r, u) \/ StartSession(r, u)
         \/ MeGet(r) \/ MeGetUser(r) \/ Upsert(r) \/ Reread(r) \/ Fail(r) \/ Return(r)
<1> USE DEF TypeOK, requests, Goto
<1>1. CASE Provider
  BY <1>1 DEF Provider, ProviderCreates, ProviderUpdates, ProviderSendsOther, ProviderDeletes
<1>2. CASE Webhook
  BY <1>2 DEF Webhook, Deliver, DeliverUnacknowledged
<1>3. CASE Serve
  <2>1. PICK q \in Request :
          \/ \E u \in User : StartMe(q, u) \/ StartSession(q, u)
          \/ MeGet(q) \/ MeGetUser(q) \/ Upsert(q) \/ Reread(q) \/ Fail(q) \/ Return(q)
    BY <1>3 DEF Serve
  <2>2. CASE q = r
    BY <2>1, <2>2
  <2>3. CASE q # r
    BY <2>1, <2>3
    DEF StartMe, StartSession, MeGet, MeGetUser, Upsert, Reread, Fail, Return
  <2>4. QED
    BY <2>2, <2>3
<1>4. CASE UNCHANGED vars
  BY <1>4 DEF vars
<1>5. QED
  BY <1>1, <1>2, <1>3, <1>4 DEF Next

LEMMA AnnouncedTrulyStep ==
  ASSUME TypeOK, AnnouncedTruly, [Next]_vars
  PROVE  AnnouncedTruly'
<1> SUFFICES ASSUME NEW e \in inbox'
             PROVE  /\ life'[e.user] # "unborn"
                    /\ e.kind = "user.deleted" => life'[e.user] = "deleted"
  BY DEF AnnouncedTruly
<1>1. CASE e \in inbox
  <2>1. e.user \in User
    BY <1>1 DEF TypeOK, Event
  <2>2. QED
    BY <1>1, <2>1, LifeGoesOn DEF AnnouncedTruly
<1>2. CASE e \notin inbox
  <2>1. PICK u \in User :
          \/ ProviderCreates(u) \/ ProviderUpdates(u)
          \/ ProviderSendsOther(u) \/ ProviderDeletes(u)
    BY <1>2 DEF Next, Provider, Webhook, Serve, vars, webhooks, Deliver, DeliverUnacknowledged,
         StartMe, StartSession, MeGet, MeGetUser, Upsert, Reread, Fail, Return
  <2>2. CASE ProviderCreates(u)
    BY <1>2, <2>2 DEF ProviderCreates, Emit, TypeOK
  <2>3. CASE ProviderUpdates(u)
    BY <1>2, <2>3 DEF ProviderUpdates, Emit, TypeOK
  <2>4. CASE ProviderSendsOther(u)
    BY <1>2, <2>4 DEF ProviderSendsOther, TypeOK, provider
  <2>5. CASE ProviderDeletes(u)
    BY <1>2, <2>5 DEF ProviderDeletes, Emit, TypeOK
  <2>6. QED
    BY <2>1, <2>2, <2>3, <2>4, <2>5
<1>3. QED
  BY <1>1, <1>2

LEMMA RequestsAboutUsersStep ==
  ASSUME TypeOK, RequestsAboutUsers, [Next]_vars
  PROVE  RequestsAboutUsers'
<1> SUFFICES ASSUME NEW r \in Request
             PROVE  /\ pc'[r] # "idle" => life'[subject'[r]] # "unborn"
                    /\ pc'[r] \in {"idle", "get"} => remote'[r] = NoProfile
  BY DEF RequestsAboutUsers
<1>1. subject[r] \in User /\ (pc[r] # "idle" => life'[subject[r]] # "unborn")
  BY LifeGoesOn DEF TypeOK, RequestsAboutUsers
<1> USE DEF TypeOK, RequestsAboutUsers, Goto, provider
<1>2. CASE \E u \in User : StartMe(r, u) \/ StartSession(r, u)
  BY <1>2 DEF StartMe, StartSession
<1>3. CASE MeGet(r) \/ MeGetUser(r)
  BY <1>1, <1>3 DEF MeGet, MeGetUser
<1>4. CASE Upsert(r) \/ Reread(r)
  BY <1>1, <1>4 DEF Upsert, Reread
<1>5. CASE Fail(r) \/ Return(r)
  BY <1>1, <1>5 DEF Fail, Return, Working, Answered
<1>6. CASE /\ pc'[r] = pc[r]
           /\ subject'[r] = subject[r]
           /\ remote'[r] = remote[r]
  BY <1>1, <1>6
<1>7. QED
  BY <1>2, <1>3, <1>4, <1>5, <1>6, RequestStep

LEMMA AnswerStep ==
  ASSUME IInv, [Next]_vars, NEW r \in Request
  PROVE  /\ pc'[r] = "reread" /\ life'[subject'[r]] = "alive" =>
              row'[subject'[r]] # NoRow /\ row'[subject'[r]].at >= remote'[r].at
         /\ pc'[r] = "ok" /\ life'[subject'[r]] = "alive" =>
              row'[subject'[r]] # NoRow /\ answer'[r].at >= remote'[r].at
         /\ pc'[r] \in {"notFound", "panicked"} => life'[subject'[r]] = "deleted"
<1> DEFINE u == subject[r]
<1>1. /\ u \in User
      /\ remote[r] \in Profile /\ remote[r] # NoRow /\ answer[r] \in Profile
      /\ row[u] # NoRow => row[u] \in Profile
  BY NoRowAssumption DEF IInv, TypeOK, Profile
<1>2. pc[r] # "idle" => life[u] # "unborn" /\ (life'[u] = "alive" => life[u] = "alive")
  BY <1>1, LifeGoesOn DEF IInv, RequestsAboutUsers
<1>3. life[u] = "deleted" => life'[u] = "deleted"
  BY <1>1, LifeGoesOn DEF IInv
<1>4. life[u] = "alive" /\ row[u] # NoRow => row'[u] # NoRow /\ row'[u] \in Profile /\ row'[u].at >= row[u].at
  <2>1. TypeOK'
    BY TypeStep DEF IInv
  <2>2. QED
    BY <1>1, <2>1, LivingRowStep DEF IInv, TypeOK
<1> USE DEF Goto, Profile, NoProfile
<1>5. CASE pc'[r] = pc[r] /\ subject'[r] = subject[r] /\ remote'[r] = remote[r] /\ answer'[r] = answer[r]
  BY <1>1, <1>2, <1>3, <1>4, <1>5
  DEF IInv, SkippedForNewer, AnsweredUserIsStored, AnswerNotOlderThanRemote, RefusalMeansDeleted
<1>6. CASE \E v \in User : StartMe(r, v) \/ StartSession(r, v)
  BY <1>6 DEF StartMe, StartSession, IInv, TypeOK
<1>7. CASE MeGet(r)
  <2>1. remote[r] = NoProfile
    BY <1>7 DEF MeGet, IInv, RequestsAboutUsers
  <2>2. pc'[r] = "ok" => row[u] # NoRow /\ answer'[r] = row[u]
    BY <1>7 DEF MeGet, IInv, TypeOK
  <2>3. pc'[r] \in {"ok", "getUser"} /\ subject'[r] = u /\ remote'[r] = remote[r] /\ row' = row
    BY <1>7 DEF MeGet, IInv, TypeOK
  <2>4. QED
    BY <1>1, <2>1, <2>2, <2>3
<1>8. CASE MeGetUser(r)
  <2>1. /\ pc'[r] \in {"upsert", "notFound"}
        /\ pc'[r] = "notFound" => life[u] # "alive"
        /\ subject'[r] = u
    BY <1>8 DEF MeGetUser, IInv, TypeOK
  <2>2. life[u] # "unborn"
    BY <1>2, <1>8 DEF MeGetUser
  <2>3. life[u] \in {"unborn", "alive", "deleted"}
    BY <1>1 DEF IInv, TypeOK
  <2>4. QED
    BY <1>3, <2>1, <2>2, <2>3
<1>9. CASE Upsert(r)
  <2>1. subject'[r] = u /\ remote'[r] = remote[r] /\ pc[r] = "upsert"
    BY <1>9 DEF Upsert
  <2>2. CASE Accepts(u, remote[r])
    <3>1. pc'[r] = "ok" /\ answer'[r] = remote[r] /\ row'[u] = remote[r]
      BY <1>1, <1>9, <2>2 DEF Upsert, UpsertUserIfNewer, IInv, TypeOK
    <3>2. QED
      BY <1>1, <2>1, <3>1
  <2>3. CASE ~Accepts(u, remote[r])
    <3>1. pc'[r] = "reread" /\ row' = row /\ row[u] # NoRow /\ ~(remote[r].at >= row[u].at)
      BY <1>9, <2>3 DEF Upsert, UpsertUserIfNewer, IInv, TypeOK, Accepts
    <3>2. QED
      BY <1>1, <2>1, <3>1
  <2>4. QED
    BY <2>2, <2>3
<1>10. CASE Reread(r)
  <2>1. subject'[r] = u /\ remote'[r] = remote[r] /\ pc[r] = "reread" /\ row' = row
    BY <1>10 DEF Reread
  <2>2. CASE row[u] # NoRow
    <3>1. pc'[r] = "ok" /\ answer'[r] = row[u]
      BY <1>10, <2>2 DEF Reread, IInv, TypeOK
    <3>2. QED
      BY <1>2, <2>1, <2>2, <3>1 DEF IInv, SkippedForNewer
  <2>3. CASE row[u] = NoRow
    <3>1. pc'[r] = "panicked"
      BY <1>10, <2>3 DEF Reread, IInv, TypeOK
    <3>2. life[u] # "alive" /\ life[u] # "unborn"
      BY <1>2, <2>1, <2>3 DEF IInv, SkippedForNewer
    <3>3. life[u] = "deleted"
      BY <1>1, <3>2 DEF IInv, TypeOK
    <3>4. QED
      BY <1>3, <2>1, <3>1, <3>3
  <2>4. QED
    BY <2>2, <2>3
<1>11. CASE Fail(r)
  BY <1>11 DEF Fail, IInv, TypeOK
<1>12. CASE Return(r)
  BY <1>12 DEF Return, IInv, TypeOK
<1>13. QED
  BY <1>5, <1>6, <1>7, <1>8, <1>9, <1>10, <1>11, <1>12, RequestStep DEF IInv

LEMMA InductiveInvariant == Spec => []IInv
<1>1. Init => IInv
  BY DEF Init, IInv, TypeOK, Profile, NoProfile, AnnouncedTruly, RequestsAboutUsers,
       SkippedForNewer, AnsweredUserIsStored, AnswerNotOlderThanRemote, RefusalMeansDeleted
<1>2. IInv /\ [Next]_vars => IInv'
  <2> SUFFICES ASSUME IInv, [Next]_vars
               PROVE  IInv'
    OBVIOUS
  <2>1. TypeOK' /\ AnnouncedTruly' /\ RequestsAboutUsers'
    BY TypeStep, AnnouncedTrulyStep, RequestsAboutUsersStep DEF IInv
  <2>2. SkippedForNewer' /\ AnsweredUserIsStored' /\ AnswerNotOlderThanRemote' /\ RefusalMeansDeleted'
    BY AnswerStep
    DEF SkippedForNewer, AnsweredUserIsStored, AnswerNotOlderThanRemote, RefusalMeansDeleted
  <2>3. QED
    BY <2>1, <2>2 DEF IInv
<1>3. QED
  BY <1>1, <1>2, PTL DEF Spec

-----------------------------------------------------------------------------

(* UserStore.UpsertIfNewer's guarantee, for every number of concurrent writers: *)
(* a stored row is never replaced by one with an older updated_at.              *)
THEOREM RowsNeverGoBack == Spec => NoStaleOverwrite
<1>1. TypeOK /\ [Next]_vars =>
        [\A u \in User : row[u] # NoRow /\ row'[u] # NoRow => row'[u].at >= row[u].at]_vars
  BY RowStep
<1>2. QED
  BY <1>1, TypeCorrect, PTL DEF Spec, NoStaleOverwrite

(* A request that answered 200 for an account that exists left its row stored,  *)
(* whatever ran between its statements.                                         *)
THEOREM AnsweredMeansStored == Spec => []AnsweredUserIsStored
<1>1. IInv => AnsweredUserIsStored
  BY DEF IInv
<1>2. QED
  BY <1>1, InductiveInvariant, PTL

(* A request never answers with a record older than the one it fetched.         *)
THEOREM AnswersAreFresh == Spec => []AnswerNotOlderThanRemote
<1>1. IInv => AnswerNotOlderThanRemote
  BY DEF IInv
<1>2. QED
  BY <1>1, InductiveInvariant, PTL

(* Only the deletion of the account makes /v1/me answer 404, or the second      *)
(* query of UpsertIfNewer come back empty.                                      *)
THEOREM OnlyDeletionRefuses == Spec => []RefusalMeansDeleted
<1>1. IInv => RefusalMeansDeleted
  BY DEF IInv
<1>2. QED
  BY <1>1, InductiveInvariant, PTL

-----------------------------------------------------------------------------
(* The table as a mirror of the accounts *)

\* A revision that the account has or had, as far as the mirror tells them apart.
OfThePast(p, u) == p = profile[u] \/ p \in Mirror!Earlier(profile[u])

Announces(e, u) == e.user = u /\ e.kind \in {"user.created", "user.updated"}

\* Whatever is stored, announced or about to be written, the account has been.
PastOnly ==
    /\ \A u \in User : IF life[u] = "unborn" THEN profile[u] = NoProfile
                                              ELSE profile[u].rev >= 1
    /\ \A u \in User : row[u] # NoRow => life[u] # "unborn" /\ OfThePast(row[u], u)
    /\ \A u \in User, e \in inbox : Announces(e, u) => OfThePast(e.data, u)
    /\ \A r \in Request : pc[r] = "upsert" => OfThePast(remote[r], subject[r])

\* Where what is written to a user's row comes from.
Holds(u, p) ==
    \/ \E e \in inbox : Announces(e, u) /\ e.data = p
    \/ \E r \in Request : pc[r] = "upsert" /\ subject[r] = u /\ remote[r] = p

(* A row is written by an upsert of what an event or a request holds, or by the *)
(* deletion that an event announces, and by nothing else.                       *)
LEMMA Writes ==
  ASSUME TypeOK, [Next]_vars
  PROVE  \/ UNCHANGED row
         \/ /\ UNCHANGED provider
            /\ \E u \in User, p \in Profile : Holds(u, p) /\ UpsertUserIfNewer(u, p)
         \/ /\ UNCHANGED provider
            /\ \E e \in inbox : e.kind = "user.deleted" /\ DeleteUser(e.user)
<1>1. CASE Provider
  BY <1>1 DEF Provider, ProviderCreates, ProviderUpdates, ProviderSendsOther, ProviderDeletes
<1>2. CASE Webhook
  <2>1. PICK e \in inbox : ApplyWebhookEvent(e) /\ UNCHANGED provider
    BY <1>2 DEF Webhook, Deliver, DeliverUnacknowledged
  <2>2. e.user \in User /\ e.data \in Profile
    BY DEF TypeOK, Event
  <2>3. CASE e.kind \in {"user.created", "user.updated"}
    BY <2>1, <2>2, <2>3 DEF ApplyWebhookEvent, Holds, Announces
  <2>4. CASE e.kind = "user.deleted"
    BY <2>1, <2>4 DEF ApplyWebhookEvent
  <2>5. CASE e.kind \notin {"user.created", "user.updated", "user.deleted"}
    BY <2>1, <2>5 DEF ApplyWebhookEvent
  <2>6. QED
    BY <2>3, <2>4, <2>5
<1>3. CASE Serve
  <2>1. CASE \E r \in Request : Upsert(r) \/ Fail(r)
    <3>1. PICK r \in Request : Upsert(r) \/ Fail(r)
      BY <2>1
    <3>2. subject[r] \in User /\ remote[r] \in Profile
      BY DEF TypeOK
    <3>3. QED
      BY <3>1, <3>2 DEF Upsert, Fail, Goto, Holds
  <2>2. CASE ~ \E r \in Request : Upsert(r) \/ Fail(r)
    BY <1>3, <2>2 DEF Serve, StartMe, StartSession, MeGet, MeGetUser, Reread, Return
  <2>3. QED
    BY <2>1, <2>2
<1>4. CASE UNCHANGED vars
  BY <1>4 DEF vars
<1>5. QED
  BY <1>1, <1>2, <1>3, <1>4 DEF Next

(* The past of an account only grows. *)
LEMMA PastGrows ==
  ASSUME TypeOK, [Next]_vars, NEW u \in User, life[u] # "unborn"
  PROVE  /\ profile'[u] = profile[u] \/ profile'[u].rev > profile[u].rev
         /\ profile'[u].rev >= profile[u].rev
         /\ profile'[u].at >= profile[u].at
         /\ profile'[u] \in Profile
<1> USE DEF TypeOK, Profile, provider
<1>1. CASE Provider
  <2>1. PICK v \in User : \/ ProviderCreates(v) \/ ProviderUpdates(v)
                          \/ ProviderSendsOther(v) \/ ProviderDeletes(v)
    BY <1>1 DEF Provider
  <2>2. CASE ProviderUpdates(v)
    <3>1. PICK tick \in {0, 1} :
             profile' = [profile EXCEPT ![v] = [rev |-> @.rev + 1, at |-> @.at + tick]]
      BY <2>2 DEF ProviderUpdates
    <3>2. QED
      BY <3>1
  <2>3. CASE ~ ProviderUpdates(v)
    <3>1. profile'[u] = profile[u] /\ profile[u] \in Profile
      BY <2>1, <2>3 DEF ProviderCreates, ProviderSendsOther, ProviderDeletes
    <3>2. QED
      BY <3>1
  <2>4. QED
    BY <2>2, <2>3
<1>2. CASE Webhook
  BY <1>2 DEF Webhook, Deliver, DeliverUnacknowledged
<1>3. CASE Serve
  BY <1>3 DEF Serve, StartMe, StartSession, MeGet, MeGetUser, Upsert, Reread, Fail, Return
<1>4. CASE UNCHANGED vars
  BY <1>4 DEF vars
<1>5. QED
  BY <1>1, <1>2, <1>3, <1>4 DEF Next

LEMMA PastKept ==
  ASSUME TypeOK, PastOnly, [Next]_vars, NEW u \in User, life[u] # "unborn",
         NEW p \in Profile, OfThePast(p, u)
  PROVE  OfThePast(p, u)'
<1>1. /\ profile[u] \in Profile /\ profile[u].rev >= 1 /\ profile'[u] \in Profile
      /\ profile'[u] = profile[u] \/ profile'[u].rev > profile[u].rev
      /\ profile'[u].at >= profile[u].at
  BY PastGrows DEF TypeOK, PastOnly
<1>2. CASE profile'[u] = profile[u]
  BY <1>2 DEF OfThePast
<1>3. CASE profile'[u].rev > profile[u].rev
  <2>1. p.rev \in 1 .. profile'[u].rev - 1 /\ p.at \in 0 .. profile'[u].at
    BY <1>1, <1>3 DEF OfThePast, Mirror!Earlier, Profile
  <2>2. p = [rev |-> p.rev, at |-> p.at]
    BY DEF Profile
  <2>3. QED
    BY <2>1, <2>2 DEF OfThePast, Mirror!Earlier
<1>4. QED
  BY <1>1, <1>2, <1>3

(* What is held for a row is of the account's past. *)
LEMMA HeldIsPast ==
  ASSUME PastOnly, NEW u \in User, NEW p \in Profile, Holds(u, p)
  PROVE  OfThePast(p, u)
BY DEF PastOnly, Holds

LEMMA PastStep ==
  ASSUME IInv, PastOnly, [Next]_vars
  PROVE  PastOnly'
<1>1. TypeOK /\ TypeOK' /\ AnnouncedTruly /\ RequestsAboutUsers
  BY TypeStep DEF IInv
<1>2. ASSUME NEW u \in User
      PROVE  IF life'[u] = "unborn" THEN profile'[u] = NoProfile ELSE profile'[u].rev >= 1
  <2>1. CASE life[u] # "unborn"
    BY <1>1, <2>1, PastGrows, LifeGoesOn DEF PastOnly, TypeOK, Profile
  <2>2. CASE life[u] = "unborn" /\ Provider
    BY <1>1, <2>2 DEF PastOnly, TypeOK, provider, Provider, ProviderCreates, ProviderUpdates,
         ProviderSendsOther, ProviderDeletes
  <2>3. CASE life[u] = "unborn" /\ UNCHANGED provider
    BY <2>3 DEF PastOnly, provider
  <2>4. Provider \/ UNCHANGED provider
    BY DEF Next, Webhook, Serve, Deliver, DeliverUnacknowledged, StartMe, StartSession, MeGet,
         MeGetUser, Upsert, Reread, Fail, Return, vars, provider
  <2>5. QED
    BY <2>1, <2>2, <2>3, <2>4
<1>3. ASSUME NEW u \in User, row'[u] # NoRow
      PROVE  life'[u] # "unborn" /\ OfThePast(row[u], u)'
  <2>1. CASE row'[u] = row[u]
    <3>1. row[u] \in Profile /\ life[u] # "unborn" /\ OfThePast(row[u], u)
      BY <1>1, <1>3, <2>1 DEF TypeOK, PastOnly
    <3>2. QED
      BY <1>1, <2>1, <3>1, PastKept, LifeGoesOn DEF OfThePast
  <2>2. CASE row'[u] # row[u]
    <3>1. PICK p \in Profile : Holds(u, p) /\ row'[u] = p /\ UNCHANGED provider
      BY <1>1, <1>3, <2>2, Writes DEF UpsertUserIfNewer, DeleteUser, TypeOK, Event
    <3>2. life[u] # "unborn"
      BY <1>1, <3>1 DEF Holds, Announces, AnnouncedTruly, RequestsAboutUsers
    <3>3. QED
      BY <3>1, <3>2, HeldIsPast DEF OfThePast, provider
  <2>3. QED
    BY <2>1, <2>2
<1>4. ASSUME NEW u \in User, NEW e \in inbox', Announces(e, u)
      PROVE  OfThePast(e.data, u)'
  <2>1. CASE e \in inbox
    <3>1. e.data \in Profile /\ life[u] # "unborn" /\ OfThePast(e.data, u)
      BY <1>1, <1>4, <2>1 DEF TypeOK, Event, AnnouncedTruly, PastOnly, Announces
    <3>2. QED
      BY <1>1, <3>1, PastKept DEF OfThePast
  <2>2. CASE e \notin inbox
    <3>1. CASE ProviderCreates(u) \/ ProviderUpdates(u)
      <4>1. e.data = profile'[u]
        BY <1>4, <2>2, <3>1 DEF ProviderCreates, ProviderUpdates, Emit
      <4>2. profile'[u] \in Profile /\ life'[u] = "alive"
        BY <1>1, <3>1 DEF ProviderCreates, ProviderUpdates, TypeOK
      <4>3. profile'[u].rev >= 1
        BY <1>2, <4>2
      <4>4. QED
        BY <4>1, <4>2, <4>3 DEF OfThePast, Mirror!Earlier, Profile
    <3>2. CASE ~ (ProviderCreates(u) \/ ProviderUpdates(u))
      BY <1>4, <2>2, <3>2 DEF Announces, Next, Provider, ProviderCreates, ProviderUpdates, ProviderSendsOther,
           ProviderDeletes, Emit, Webhook, Deliver, DeliverUnacknowledged, Serve, StartMe,
           StartSession, MeGet, MeGetUser, Upsert, Reread, Fail, Return, vars, webhooks
    <3>3. QED
      BY <3>1, <3>2
  <2>3. QED
    BY <2>1, <2>2
<1>5. ASSUME NEW r \in Request, pc'[r] = "upsert"
      PROVE  OfThePast(remote[r], subject[r])'
  <2>1. CASE pc[r] = "upsert" /\ subject'[r] = subject[r] /\ remote'[r] = remote[r]
    <3>1. /\ subject[r] \in User /\ remote[r] \in Profile
          /\ life[subject[r]] # "unborn" /\ OfThePast(remote[r], subject[r])
      BY <1>1, <2>1 DEF TypeOK, RequestsAboutUsers, PastOnly
    <3>2. QED
      BY <1>1, <2>1, <3>1, PastKept DEF OfThePast
  <2>2. CASE MeGetUser(r) \/ \E u \in User : StartSession(r, u)
    <3>1. /\ subject'[r] \in User /\ UNCHANGED provider
          /\ life[subject'[r]] = "alive" /\ remote'[r] = profile[subject'[r]]
      BY <1>1, <1>5, <2>2 DEF MeGetUser, StartSession, Goto, TypeOK
    <3>2. profile[subject'[r]] \in Profile /\ profile[subject'[r]].rev >= 1
      BY <1>1, <3>1 DEF TypeOK, PastOnly
    <3>3. QED
      BY <3>1, <3>2 DEF OfThePast, Mirror!Earlier, Profile, provider
  <2>3. QED
    BY <1>1, <1>5, <2>1, <2>2, RequestStep
    DEF StartMe, MeGet, Upsert, Reread, Fail, Return, Goto, TypeOK, Answered
<1>6. QED
  BY <1>2, <1>3, <1>4, <1>5 DEF PastOnly

(* An update that was announced stays announced until a delivery has stored it   *)
(* or found something as new in the row; nobody else takes events away.          *)
LEMMA UpdateStep ==
  ASSUME IInv, PastOnly, PastOnly', NoUpdateIsLost, [Next]_vars
  PROVE  NoUpdateIsLost'
<1> DEFINE Newest(u) == row[u] # NoRow /\ row[u].at = profile[u].at
           Due(u) == \E e \in inbox : Announces(e, u) /\ e.data = profile[u]
<1>1. TypeOK /\ TypeOK' /\ AnnouncedTruly
  BY TypeStep DEF IInv
<1>2. SUFFICES ASSUME NEW u \in User, life'[u] = "alive"
               PROVE  Newest(u)' \/ Due(u)'
  BY DEF NoUpdateIsLost, Announces
<1>3. CASE ProviderCreates(u) \/ ProviderUpdates(u)
  <2>1. PICK kind \in {"user.created", "user.updated"} : Emit(kind, u)
    BY <1>3 DEF ProviderCreates, ProviderUpdates
  <2> DEFINE e == [kind |-> kind, user |-> u, data |-> profile'[u]]
  <2>2. e \in inbox'
    BY <2>1 DEF Emit
  <2>3. Announces(e, u) /\ e.data = profile'[u]
    BY DEF Announces
  <2>4. Due(u)'
    <3> HIDE DEF e
    <3>. QED
      BY <2>2, <2>3 DEF Announces
  <2>5. QED
    BY <2>4
<1>4. CASE ~ (ProviderCreates(u) \/ ProviderUpdates(u))
  <2>1. profile'[u] = profile[u] /\ life[u] = "alive"
    BY <1>1, <1>2, <1>4 DEF TypeOK, Next, Provider, ProviderCreates, ProviderUpdates, ProviderSendsOther,
         ProviderDeletes, Webhook, Deliver, DeliverUnacknowledged, Serve, StartMe, StartSession,
         MeGet, MeGetUser, Upsert, Reread, Fail, Return, vars, provider
  <2>2. Newest(u) \/ Due(u)
    BY <2>1 DEF NoUpdateIsLost, Announces
  <2>3. row'[u] # NoRow => row'[u].at <= profile[u].at /\ row'[u] \in Profile
    BY <1>1, <2>1 DEF PastOnly, OfThePast, Mirror!Earlier, Profile, TypeOK
  <2>4. profile[u] \in Profile
    BY <1>1 DEF TypeOK
  <2>5. CASE Newest(u)
    <3>1. row'[u] # NoRow /\ row'[u].at >= row[u].at
      BY <1>1, <2>1, <2>5, LivingRowStep
    <3>2. QED
      BY <2>1, <2>3, <2>4, <2>5, <3>1 DEF Profile
  <2>6. CASE Due(u)
    <3>1. PICK e \in inbox : Announces(e, u) /\ e.data = profile[u]
      BY <2>6
    <3>2. CASE e \in inbox'
      BY <2>1, <3>1, <3>2
    <3>3. CASE e \notin inbox'
      <4>1. Deliver(e)
        BY <3>1, <3>3 DEF Next, Provider, ProviderCreates, ProviderUpdates, ProviderSendsOther,
             ProviderDeletes, Emit, Webhook, Deliver, DeliverUnacknowledged, Serve, StartMe,
             StartSession, MeGet, MeGetUser, Upsert, Reread, Fail, Return, vars, webhooks
      <4>2. UpsertUserIfNewer(u, profile[u])
        BY <3>1, <4>1 DEF Deliver, ApplyWebhookEvent, Announces
      <4>3. CASE Accepts(u, profile[u])
        BY <1>1, <2>1, <2>4, <4>2, <4>3, NoRowAssumption
        DEF UpsertUserIfNewer, TypeOK, Profile
      <4>4. CASE ~ Accepts(u, profile[u])
        <5>1. row'[u] = row[u] /\ row[u] # NoRow /\ ~ (profile[u].at >= row[u].at)
          BY <4>2, <4>4 DEF UpsertUserIfNewer, Accepts
        <5>2. QED
          BY <2>3, <2>4, <5>1 DEF Profile
      <4>5. QED
        BY <4>3, <4>4
    <3>4. QED
      BY <3>2, <3>3
  <2>7. QED
    BY <2>2, <2>5, <2>6
<1>5. QED
  BY <1>3, <1>4

LEMMA MirrorInvariant == Spec => [](IInv /\ PastOnly /\ NoUpdateIsLost)
<1>1. Init => PastOnly /\ NoUpdateIsLost
  BY DEF Init, PastOnly, NoUpdateIsLost, Announces
<1>2. IInv /\ PastOnly /\ NoUpdateIsLost /\ [Next]_vars => PastOnly' /\ NoUpdateIsLost'
  BY PastStep, UpdateStep
<1>3. QED
  BY <1>1, <1>2, InductiveInvariant, PTL DEF Spec

(* No update of an existing account is lost: whatever was skipped, repeated or   *)
(* overtaken, the row is as new as the account or the event that makes it so is  *)
(* still to come.  With the provider's fairness this is why rows converge.       *)
THEOREM UpdatesAreNotLost == Spec => []NoUpdateIsLost
BY MirrorInvariant, PTL

(* Every step of the platform is a step of the mirror, or leaves it alone.       *)
LEMMA MirrorStep ==
  ASSUME IInv, PastOnly, [Next]_vars
  PROVE  [Mirror!Next]_(Mirror!vars)
<1>1. TypeOK /\ AnnouncedTruly /\ RequestsAboutUsers
  BY DEF IInv
<1>2. CASE Provider
  <2>1. PICK u \in User : \/ ProviderCreates(u) \/ ProviderUpdates(u)
                          \/ ProviderSendsOther(u) \/ ProviderDeletes(u)
    BY <1>2 DEF Provider
  <2>2. CASE ProviderCreates(u)
    <3>1. profile[u] = [rev |-> 0, at |-> 0]
      BY <2>2 DEF ProviderCreates, PastOnly, NoProfile
    <3>2. profile' = [profile EXCEPT ![u] = [rev |-> @.rev + 1, at |-> @.at + 1]]
      BY <2>2, <3>1 DEF ProviderCreates
    <3>3. QED
      BY <2>2, <3>2 DEF ProviderCreates, Mirror!Next, Mirror!Revise
  <2>3. CASE ProviderUpdates(u)
    <3>1. life' = [life EXCEPT ![u] = "alive"]
      BY <1>1, <2>3 DEF ProviderUpdates, TypeOK
    <3>2. Mirror!Revise(u)
      BY <2>3, <3>1 DEF ProviderUpdates, Mirror!Revise
    <3>3. QED
      BY <3>2 DEF Mirror!Next
  <2>4. CASE ProviderDeletes(u)
    BY <2>4 DEF ProviderDeletes, Mirror!Next, Mirror!Delete
  <2>5. CASE ProviderSendsOther(u)
    BY <2>5 DEF ProviderSendsOther, provider, Mirror!vars
  <2>6. QED
    BY <2>1, <2>2, <2>3, <2>4, <2>5
<1>3. CASE ~ Provider
  <2>1. UNCHANGED provider
    BY <1>3 DEF Next, Webhook, Serve, Deliver, DeliverUnacknowledged, StartMe, StartSession, MeGet,
         MeGetUser, Upsert, Reread, Fail, Return, vars, provider
  <2>2. CASE UNCHANGED row
    BY <2>1, <2>2 DEF Mirror!vars, provider
  <2>3. ASSUME NEW u \in User, NEW p \in Profile, Holds(u, p), UpsertUserIfNewer(u, p)
        PROVE  UNCHANGED row \/ Mirror!Copy(u)
    <3>1. life[u] # "unborn" /\ OfThePast(p, u)
      BY <1>1, <2>3, HeldIsPast DEF Holds, Announces, AnnouncedTruly, RequestsAboutUsers
    <3>2. p \in {profile[u]} \cup Mirror!Earlier(profile[u])
      BY <3>1 DEF OfThePast
    <3>3. CASE Accepts(u, p)
      BY <2>1, <2>3, <3>1, <3>2, <3>3 DEF UpsertUserIfNewer, Accepts, Mirror!Copy, provider
    <3>4. QED
      BY <2>3, <3>3 DEF UpsertUserIfNewer
  <2>4. ASSUME NEW e \in inbox, e.kind = "user.deleted", DeleteUser(e.user)
        PROVE  e.user \in User /\ Mirror!Forget(e.user)
    BY <1>1, <2>1, <2>4 DEF TypeOK, Event, AnnouncedTruly, DeleteUser, Mirror!Forget, provider
  <2>5. QED
    BY <1>1, <2>2, <2>3, <2>4, Writes DEF Mirror!Next
<1>4. QED
  BY <1>2, <1>3

(* The table mirrors the provider's accounts, for any users, requests and        *)
(* bounds, any order of deliveries and any failure between two statements.       *)
THEOREM MirrorKept == Spec => MirrorsTheProvider
<1>1. Init => Mirror!Init
  BY DEF Init, NoProfile, Mirror!Init
<1>2. IInv /\ PastOnly /\ [Next]_vars => [Mirror!Next]_(Mirror!vars)
  BY MirrorStep
<1>3. QED
  BY <1>1, <1>2, MirrorInvariant, PTL DEF Spec, MirrorsTheProvider, Mirror!Spec

=============================================================================
