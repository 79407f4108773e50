------------------------------ MODULE UserSync ------------------------------
(***************************************************************************)
(* The platform's copy of the identity provider's users.  Three writers    *)
(* reach the "users" table: webhook deliveries (WebhookController and      *)
(* UserService.ApplyWebhookEvent), the record fetch GET /v1/me             *)
(* (UserService.Me) and the session starters of AuthService, which store   *)
(* the user a provider authentication returned (UpsertFromProvider).       *)
(*                                                                         *)
(* A request is a sequence of separate SQL statements and provider calls,  *)
(* none of them in a transaction, so every one is an action of its own.    *)
(* What a row holds is abstracted to the revision of the account it was    *)
(* copied from and that revision's updated_at; two revisions may carry the *)
(* same updated_at.                                                        *)
(***************************************************************************)
EXTENDS Naturals

CONSTANTS
    User,             \* provider user ids
    Request,          \* slots for concurrent GET /v1/me and sign-in requests
    NoRow,            \* the answer of a SELECT that finds nothing
    MaxRev,           \* bound on the revisions of one account
    MaxRedeliveries   \* bound on the webhook deliveries repeated after a lost 200

ASSUME NoRowAssumption ==
    NoRow \notin [rev : Nat, at : Nat]

ASSUME BoundsAssumption ==
    MaxRev \in Nat /\ MaxRedeliveries \in Nat

VARIABLES
    life,         \* provider: "unborn", "alive" or "deleted", per user
    profile,      \* provider: the account's current revision
    inbox,        \* webhook events sent and not yet answered 200
    redelivered,  \* how many 200 answers were lost so far
    row,          \* table users: the stored profile, or NoRow
    pc,           \* step of each request
    subject,      \* the user each request is about
    remote,       \* the provider's user a request holds (resp.User, GetUser)
    answer        \* the record a request returns

vars == <<life, profile, inbox, redelivered, row, pc, subject, remote, answer>>

provider == <<life, profile>>
webhooks == <<inbox, redelivered>>
requests == <<pc, subject, remote, answer>>

Profile == [rev : Nat, at : Nat]
NoProfile == [rev |-> 0, at |-> 0]

EventKind == {"user.created", "user.updated", "user.deleted", "other"}
Event == [kind : EventKind, user : User, data : Profile]

\* A request is at a database statement or a provider call, or has answered.
Working == {"get", "getUser", "upsert", "reread"}
Answered == {"ok", "notFound", "failed", "panicked"}

TypeOK ==
    /\ life \in [User -> {"unborn", "alive", "deleted"}]
    /\ profile \in [User -> Profile]
    /\ inbox \subseteq Event
    /\ redelivered \in Nat
    /\ row \in [User -> Profile \cup {NoRow}]
    /\ pc \in [Request -> {"idle"} \cup Working \cup Answered]
    /\ subject \in [Request -> User]
    /\ remote \in [Request -> Profile]
    /\ answer \in [Request -> Profile]

Init ==
    /\ life = [u \in User |-> "unborn"]
    /\ profile = [u \in User |-> NoProfile]
    /\ inbox = {}
    /\ redelivered = 0
    /\ row = [u \in User |-> NoRow]
    /\ pc = [r \in Request |-> "idle"]
    /\ subject \in [Request -> User]
    /\ remote = [r \in Request |-> NoProfile]
    /\ answer = [r \in Request |-> NoProfile]

-----------------------------------------------------------------------------
(* The identity provider (WorkOS), as the webhook and the API show it. *)

Emit(kind, u) ==
    inbox' = inbox \cup {[kind |-> kind, user |-> u, data |-> profile'[u]]}

ProviderCreates(u) ==
    /\ life[u] = "unborn"
    /\ life' = [life EXCEPT ![u] = "alive"]
    /\ profile' = [profile EXCEPT ![u] = [rev |-> 1, at |-> 1]]
    /\ Emit("user.created", u)
    /\ UNCHANGED <<redelivered, row, requests>>

ProviderUpdates(u) ==
    /\ life[u] = "alive"
    /\ profile[u].rev < MaxRev
    \* The clock moves on between two revisions or, within its resolution, does not.
    /\ \E tick \in {0, 1} :
          profile' = [profile EXCEPT ![u] = [rev |-> @.rev + 1, at |-> @.at + tick]]
    /\ Emit("user.updated", u)
    /\ UNCHANGED <<life, redelivered, row, requests>>

\* An ended provider session, a membership change: events the platform ignores.
ProviderSendsOther(u) ==
    /\ life[u] = "alive"
    /\ inbox' = inbox \cup {[kind |-> "other", user |-> u, data |-> NoProfile]}
    /\ UNCHANGED <<provider, redelivered, row, requests>>

ProviderDeletes(u) ==
    /\ life[u] = "alive"
    /\ life' = [life EXCEPT ![u] = "deleted"]
    /\ UNCHANGED profile
    /\ Emit("user.deleted", u)
    /\ UNCHANGED <<redelivered, row, requests>>

-----------------------------------------------------------------------------
(* UserStore: one statement each, atomic in PostgreSQL. *)

\* Mutants: the upsert without its WHERE clause, with DO NOTHING, and with the
\* comparison turned round.
AcceptsAll(u, p) == TRUE
AcceptsFirst(u, p) == row[u] = NoRow
AcceptsOlder(u, p) ==
    \/ row[u] = NoRow
    \/ row[u] # NoRow /\ p.at < row[u].at

\* INSERT ... ON CONFLICT DO UPDATE ... WHERE excluded.updated_at >= users.updated_at
Accepts(u, p) ==
    \/ row[u] = NoRow
    \/ row[u] # NoRow /\ p.at >= row[u].at

UpsertUserIfNewer(u, p) ==
    row' = IF Accepts(u, p) THEN [row EXCEPT ![u] = p] ELSE row

DeleteUser(u) ==
    row' = [row EXCEPT ![u] = NoRow]

-----------------------------------------------------------------------------
(* POST /v1/webhooks/workos *)

\* The re-read after a skipped upsert is left out: the handler drops its result.
ApplyWebhookEvent(e) ==
    CASE e.kind \in {"user.created", "user.updated"} -> UpsertUserIfNewer(e.user, e.data)
      [] e.kind = "user.deleted" -> DeleteUser(e.user)
      [] OTHER -> UNCHANGED row

\* The handler runs and the provider reads its 200.
Deliver(e) ==
    /\ e \in inbox
    /\ ApplyWebhookEvent(e)
    /\ inbox' = inbox \ {e}
    /\ UNCHANGED <<provider, redelivered, requests>>

\* The handler runs, its 200 is lost (or the statement's own answer is), and the
\* provider sends the event again later.
DeliverUnacknowledged(e) ==
    /\ e \in inbox
    /\ redelivered < MaxRedeliveries
    /\ redelivered' = redelivered + 1
    /\ ApplyWebhookEvent(e)
    /\ UNCHANGED <<provider, inbox, requests>>

-----------------------------------------------------------------------------
(* GET /v1/me *)

Goto(r, from, to) ==
    /\ pc[r] = from
    /\ pc' = [pc EXCEPT ![r] = to]

\* The access token outlives the account, so the caller may be deleted already.
StartMe(r, u) ==
    /\ life[u] # "unborn"
    /\ Goto(r, "idle", "get")
    /\ subject' = [subject EXCEPT ![r] = u]
    /\ UNCHANGED <<provider, webhooks, row, remote, answer>>

\* Mutant: Me does not check for a missing row.
MeGetUnchecked(r) ==
    /\ Goto(r, "get", "ok")
    /\ answer' = [answer EXCEPT ![r] = row[subject[r]]]
    /\ UNCHANGED <<provider, webhooks, row, subject, remote>>

\* Mutant: Me does not catch up from the provider.
MeGetOrNotFound(r) ==
    LET u == subject[r] IN
    /\ IF row[u] # NoRow
       THEN /\ Goto(r, "get", "ok")
            /\ answer' = [answer EXCEPT ![r] = row[u]]
       ELSE /\ Goto(r, "get", "notFound")
            /\ UNCHANGED answer
    /\ UNCHANGED <<provider, webhooks, row, subject, remote>>

MeGet(r) ==
    LET u == subject[r] IN
    /\ IF row[u] # NoRow
       THEN /\ Goto(r, "get", "ok")
            /\ answer' = [answer EXCEPT ![r] = row[u]]
       ELSE /\ Goto(r, "get", "getUser")
            /\ UNCHANGED answer
    /\ UNCHANGED <<provider, webhooks, row, subject, remote>>

MeGetUser(r) ==
    LET u == subject[r] IN
    /\ IF life[u] = "alive"
       THEN /\ Goto(r, "getUser", "upsert")
            /\ remote' = [remote EXCEPT ![r] = profile[u]]
       ELSE /\ Goto(r, "getUser", "notFound")
            /\ UNCHANGED remote
    /\ UNCHANGED <<provider, webhooks, row, subject, answer>>

-----------------------------------------------------------------------------
(* startSession: the provider authenticated the user and returned the record. *)

StartSession(r, u) ==
    /\ life[u] = "alive"
    /\ Goto(r, "idle", "upsert")
    /\ subject' = [subject EXCEPT ![r] = u]
    /\ remote' = [remote EXCEPT ![r] = profile[u]]
    /\ UNCHANGED <<provider, webhooks, row, answer>>

-----------------------------------------------------------------------------
(* UpsertFromProvider, shared by both: UpsertIfNewer and its second query. *)

Upsert(r) ==
    LET u == subject[r] IN
    /\ UpsertUserIfNewer(u, remote[r])
    /\ IF Accepts(u, remote[r])
       THEN /\ Goto(r, "upsert", "ok")
            /\ answer' = [answer EXCEPT ![r] = remote[r]]
       ELSE /\ Goto(r, "upsert", "reread")
            /\ UNCHANGED answer
    /\ UNCHANGED <<provider, webhooks, subject, remote>>

\* A missing row is (nil, nil), and UpsertFromProvider dereferences it.
Reread(r) ==
    LET u == subject[r] IN
    /\ IF row[u] # NoRow
       THEN /\ Goto(r, "reread", "ok")
            /\ answer' = [answer EXCEPT ![r] = row[u]]
       ELSE /\ Goto(r, "reread", "panicked")
            /\ UNCHANGED answer
    /\ UNCHANGED <<provider, webhooks, row, subject, remote>>

\* A query or provider call errs or runs into its timeout; an upsert that times
\* out may have been committed all the same.
Fail(r) ==
    /\ pc[r] \in Working
    /\ pc' = [pc EXCEPT ![r] = "failed"]
    /\ \/ UNCHANGED row
       \/ pc[r] = "upsert" /\ UpsertUserIfNewer(subject[r], remote[r])
    /\ UNCHANGED <<provider, webhooks, subject, remote, answer>>

\* The answer is sent and the slot takes the next request.
Return(r) ==
    /\ pc[r] \in Answered
    /\ pc' = [pc EXCEPT ![r] = "idle"]
    /\ remote' = [remote EXCEPT ![r] = NoProfile]
    /\ answer' = [answer EXCEPT ![r] = NoProfile]
    /\ UNCHANGED <<provider, webhooks, row, subject>>

-----------------------------------------------------------------------------

Provider ==
    \E u \in User :
        \/ ProviderCreates(u)
        \/ ProviderUpdates(u)
        \/ ProviderSendsOther(u)
        \/ ProviderDeletes(u)

Webhook == \E e \in inbox : Deliver(e) \/ DeliverUnacknowledged(e)

Serve ==
    \E r \in Request :
        \/ \E u \in User : StartMe(r, u) \/ StartSession(r, u)
        \/ MeGet(r)
        \/ MeGetUser(r)
        \/ Upsert(r)
        \/ Reread(r)
        \/ Fail(r)
        \/ Return(r)

Next == Provider \/ Webhook \/ Serve

Spec == Init /\ [][Next]_vars

\* The provider sends an event again until it is answered 200; no kind of event
\* of one user waits for ever behind another.
FairSpec ==
    /\ Spec
    /\ \A u \in User, kind \in EventKind :
          WF_vars(\E e \in inbox : e.user = u /\ e.kind = kind /\ Deliver(e))

-----------------------------------------------------------------------------
(* Properties *)

(* A webhook, a /v1/me catch-up or a sign-in that carries an older updated_at   *)
(* than the stored row never replaces it, however the writers interleave: the   *)
(* order-safe upsert of users.sql together with every path that writes rows.    *)
NoStaleOverwrite ==
    [][\A u \in User :
          row[u] # NoRow /\ row'[u] # NoRow => row'[u].at >= row[u].at]_vars

(* A /v1/me or sign-in that succeeds for an account that still exists leaves    *)
(* its row in the table, although the request wrote it earlier and other        *)
(* writers ran in between (spec 001 FR-007: "the platform MUST keep its own     *)
(* user record per registered user").                                           *)
AnsweredUserIsStored ==
    \A r \in Request :
        pc[r] = "ok" /\ life[subject[r]] = "alive" => row[subject[r]] # NoRow

(* Read your provider: the record a request answers with is no older than the   *)
(* revision that request itself fetched, even when its upsert was skipped and   *)
(* the answer came from the second query (UserStore.UpsertIfNewer).             *)
AnswerNotOlderThanRemote ==
    \A r \in Request :
        pc[r] = "ok" /\ life[subject[r]] = "alive" => answer[r].at >= remote[r].at

(* For an account that still exists /v1/me never answers that there is no such  *)
(* user and UpsertFromProvider never dereferences a missing row: both need the  *)
(* account's deletion to have raced the request.                                *)
RefusalMeansDeleted ==
    \A r \in Request :
        pc[r] \in {"notFound", "panicked"} => life[subject[r]] = "deleted"

(* The safe half of convergence: the row of an existing account has the newest  *)
(* updated_at, or the event that brings it is still to be delivered.  With every *)
(* event delivered nothing is missing, though /v1/me and sign-in swallow what    *)
(* the second query answers and webhooks do not look at what was skipped         *)
(* (ApplyWebhookEvent, UpsertUserIfNewer).                                       *)
NoUpdateIsLost ==
    \A u \in User : life[u] = "alive" =>
        \/ row[u] # NoRow /\ row[u].at = profile[u].at
        \/ \E e \in inbox :
              /\ e.user = u
              /\ e.kind \in {"user.created", "user.updated"}
              /\ e.data = profile[u]

Mirror == INSTANCE UserMirror

(* However the three writers interleave, repeat and fail, the table is a mirror  *)
(* of the accounts as UserMirror has it (UpsertUserIfNewer, DeleteUser and every *)
(* path that calls them).                                                        *)
MirrorsTheProvider == Mirror!Spec

(* Once the provider stops changing an account that exists, its row ends up at  *)
(* the newest updated_at and stays there, whatever was repeated or reordered.   *)
InSync(u) ==
    life[u] = "alive" =>
        /\ row[u] # NoRow
        /\ row[u].at = profile[u].at

RowsConverge == <>[](\A u \in User : InSync(u))

(* What the contract says of deletions ("duplicate deliveries of the same event *)
(* id are no-ops by construction"; "deleted when the account is deleted"): once *)
(* the deletion was delivered and the row is gone, no later delivery or request *)
(* brings it back.  The code keeps no trace of a deletion, so it does not hold. *)
DeletedStaysDeleted ==
    [][\A u \in User :
          /\ life[u] = "deleted"
          /\ ~ \E e \in inbox : e.user = u /\ e.kind = "user.deleted"
          /\ row[u] = NoRow
          => row'[u] = NoRow]_vars

=============================================================================
