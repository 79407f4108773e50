----------------------------- MODULE WebSession -----------------------------
(***************************************************************************)
(* The tabs of one browser that share the session cookie: the session      *)
(* client (web/src/lib/auth/session.ts over stores/session.ts) in every    *)
(* tab, the cookie jar, the refresh, sign-in, callback and logout handlers *)
(* of the API (AuthController, AuthService), and the identity provider's   *)
(* rotating refresh tokens as the API sees them.                           *)
(*                                                                         *)
(* An HTTP call is three steps: sent with the cookie the jar holds, served *)
(* by the API, and settled in the tab, where the browser stores the answer's*)
(* Set-Cookie and the code after the await runs.  Anything may happen      *)
(* between them.  A refresh token is abstracted to its session and its age:*)
(* the session's current token, one already replaced that the provider's   *)
(* grace window still accepts, or one past it.                             *)
(***************************************************************************)
EXTENDS Naturals

CONSTANTS
    Tab,          \* tabs of one browser
    Session,      \* provider sessions (sid) that sign-ins may create
    NoSession,    \* the sid of a tab without access token
    MaxFaults     \* bound on lost messages, provider failures and failed callbacks

ASSUME NoSessionAssumption == NoSession \notin Session
ASSUME MaxFaultsAssumption == MaxFaults \in Nat

VARIABLES
    life,      \* provider: "unused", "live" or "ended", per session
    jar,       \* the browser's session cookie: the refresh token sealed in it
    status,    \* useSessionStore.status, per tab
    held,      \* the session of the tab's access token
    timer,     \* a refresh is scheduled in the tab
    renewal,   \* inFlight, per tab: the POST /v1/auth/refresh and its answer
    cred,      \* the tab's sign-in or sign-out call and the session it is about
    sentinel,  \* a storage event of signedOutKey waits for the tab
    faults     \* failures so far

vars == <<life, jar, status, held, timer, renewal, cred, sentinel, faults>>

store == <<status, held, timer>>

Age == {"current", "replaced", "expired"}
Token == [sid : Session, age : Age]
NoCookie == [sid |-> NoSession, age |-> "expired"]
Cookie == Token \cup {NoCookie}
Fresh(s) == [sid |-> s, age |-> "current"]

Status == {"unknown", "authenticated", "anonymous"}

\* sent: cookie is the request's; answered: the cookie the answer leaves.
RenewalPhase == {"none", "sent", "ok", "refused", "unavailable"}
Renewal == [phase : RenewalPhase, cookie : Cookie, saw : Status]
NoRenewal == [phase |-> "none", cookie |-> NoCookie, saw |-> "unknown"]

\* bootstrap() on app load, and CallbackPage: the first refresh of a page.
FirstRenewal(c) == [phase |-> "sent", cookie |-> c, saw |-> "unknown"]

CredPhase == {"none", "signIn", "signedIn", "signOut", "signedOut"}
Cred == [phase : CredPhase, sid : Session \cup {NoSession}]
NoCred == [phase |-> "none", sid |-> NoSession]

TypeOK ==
    /\ life \in [Session -> {"unused", "live", "ended"}]
    /\ jar \in Cookie
    /\ status \in [Tab -> Status]
    /\ held \in [Tab -> Session \cup {NoSession}]
    /\ timer \in [Tab -> BOOLEAN]
    /\ renewal \in [Tab -> Renewal]
    /\ cred \in [Tab -> Cred]
    /\ sentinel \in [Tab -> BOOLEAN]
    /\ faults \in Nat
    \* The store holds a token when it is authenticated and at no other time.
    /\ \A t \in Tab : status[t] = "authenticated" <=> held[t] # NoSession

Init ==
    /\ life = [s \in Session |-> "unused"]
    /\ jar = NoCookie
    /\ status = [t \in Tab |-> "unknown"]
    /\ held = [t \in Tab |-> NoSession]
    /\ timer = [t \in Tab |-> FALSE]
    /\ renewal = [t \in Tab |-> FirstRenewal(NoCookie)]
    /\ cred = [t \in Tab |-> NoCred]
    /\ sentinel = [t \in Tab |-> FALSE]
    /\ faults = 0

-----------------------------------------------------------------------------
(* The session store and the timer of a tab. *)

\* Mutant: setAnonymous keeps the access token.
SetAnonymousKeepingToken(t) ==
    /\ status' = [status EXCEPT ![t] = "anonymous"]
    /\ UNCHANGED held

SetAuthenticated(t, s) ==
    /\ status' = [status EXCEPT ![t] = "authenticated"]
    /\ held' = [held EXCEPT ![t] = s]

SetAnonymous(t) ==
    /\ status' = [status EXCEPT ![t] = "anonymous"]
    /\ held' = [held EXCEPT ![t] = NoSession]

Schedule(t) == timer' = [timer EXCEPT ![t] = TRUE]
ClearTimer(t) == timer' = [timer EXCEPT ![t] = FALSE]

-----------------------------------------------------------------------------
(* The provider.  A token grows older wherever a copy of it is. *)

Aged(c, s, from, to) ==
    IF c.sid = s /\ c.age = from THEN [c EXCEPT !.age = to] ELSE c

Rotated(s) ==
    [t \in Tab |-> [renewal[t] EXCEPT !.cookie = Aged(@, s, "current", "replaced")]]

\* The grace window outlasts a round trip: neither a request that carries the
\* replaced token nor an answer that carries its successor is under way.
GraceEnds(s) ==
    /\ life[s] = "live"
    /\ \A t \in Tab : ~ (renewal[t].phase \in {"sent", "ok"} /\ renewal[t].cookie.sid = s)
    /\ jar' = Aged(jar, s, "replaced", "expired")
    /\ UNCHANGED <<life, store, renewal, cred, sentinel, faults>>

\* The session reaches its lifetime or is revoked elsewhere.
SessionEnds(s) ==
    /\ life[s] = "live"
    /\ life' = [life EXCEPT ![s] = "ended"]
    /\ UNCHANGED <<jar, store, renewal, cred, sentinel, faults>>

Accepted(c) ==
    /\ c # NoCookie
    /\ life[c.sid] = "live"
    /\ c.age # "expired"

Fault ==
    /\ faults < MaxFaults
    /\ faults' = faults + 1

-----------------------------------------------------------------------------
(* refresh(): one POST /v1/auth/refresh at a time in a tab. *)

SendRenewal(t) ==
    /\ renewal[t].phase = "none"
    /\ renewal' = [renewal EXCEPT ![t] =
                      [phase |-> "sent", cookie |-> jar, saw |-> status[t]]]

TimerFires(t) ==
    /\ timer[t]
    /\ ClearTimer(t)
    /\ \/ SendRenewal(t)
       \/ renewal[t].phase # "none" /\ UNCHANGED renewal
    /\ UNCHANGED <<life, jar, status, held, cred, sentinel, faults>>

\* An API call finds no token, one close to its expiry, or a 401.
TokenNeeded(t) ==
    /\ status[t] # "unknown"
    /\ SendRenewal(t)
    /\ UNCHANGED <<life, jar, store, cred, sentinel, faults>>

Answer(t, phase, cookie) ==
    [renewal EXCEPT ![t].phase = phase, ![t].cookie = cookie]

\* AuthController.Refresh with a token the provider takes: the current token is
\* rotated, one inside the grace window answers with its successor.
ServeRenewal(t) ==
    LET c == renewal[t].cookie IN
    /\ renewal[t].phase = "sent"
    /\ Accepted(c)
    /\ IF c.age = "current"
       THEN /\ renewal' = [Rotated(c.sid) EXCEPT
                              ![t] = [phase |-> "ok", cookie |-> Fresh(c.sid), saw |-> @.saw]]
            /\ jar' = Aged(jar, c.sid, "current", "replaced")
       ELSE /\ renewal' = Answer(t, "ok", Fresh(c.sid))
            /\ UNCHANGED jar
    /\ UNCHANGED <<life, store, cred, sentinel, faults>>

\* 401, which clears the cookie: none was sent, or the provider refuses its token.
RefuseRenewal(t) ==
    /\ renewal[t].phase = "sent"
    /\ ~ Accepted(renewal[t].cookie)
    /\ renewal' = Answer(t, "refused", NoCookie)
    /\ UNCHANGED <<life, jar, store, cred, sentinel, faults>>

\* Mutant: the session of the cookie goes on while the provider is unavailable.
RenewalGoesOnInAnOutage(t) ==
    /\ renewal[t].phase = "sent"
    /\ renewal[t].cookie # NoCookie
    /\ Fault
    /\ renewal' = Answer(t, "ok", renewal[t].cookie)
    /\ UNCHANGED <<life, jar, store, cred, sentinel>>

\* 503 with a JSON body and no Set-Cookie: the provider is unavailable.
RenewalUnavailable(t) ==
    /\ renewal[t].phase = "sent"
    /\ renewal[t].cookie # NoCookie
    /\ Fault
    /\ renewal' = Answer(t, "unavailable", NoCookie)
    /\ UNCHANGED <<life, jar, store, cred, sentinel>>

Settled(t) == renewal' = [renewal EXCEPT ![t] = NoRenewal]

\* Mutant: a tab that holds a token keeps who it was.
RenewalKeepsWhoItWas(t) ==
    LET c == renewal[t].cookie IN
    /\ renewal[t].phase = "ok"
    /\ jar' = c
    /\ SetAuthenticated(t, IF held[t] = NoSession THEN c.sid ELSE held[t])
    /\ Schedule(t)
    /\ Settled(t)
    /\ UNCHANGED <<life, cred, sentinel, faults>>

\* doRefresh after its await: data came.
RenewalSucceeds(t) ==
    LET c == renewal[t].cookie IN
    /\ renewal[t].phase = "ok"
    /\ jar' = c
    /\ SetAuthenticated(t, c.sid)
    /\ Schedule(t)
    /\ Settled(t)
    /\ UNCHANGED <<life, cred, sentinel, faults>>

\* Mutant: a refusal is retried like an outage.
RenewalFailsSoftly(t) ==
    /\ renewal[t].phase \in {"refused", "unavailable"}
    /\ jar' = IF renewal[t].phase = "refused" THEN NoCookie ELSE jar
    /\ IF renewal[t].saw = "authenticated"
       THEN Schedule(t) /\ UNCHANGED <<status, held>>
       ELSE SetAnonymous(t) /\ ClearTimer(t)
    /\ Settled(t)
    /\ UNCHANGED <<life, cred, sentinel, faults>>

\* A refusal, or any answer with a body: openapi-fetch gives the 503 an error too.
RenewalFails(t) ==
    /\ renewal[t].phase \in {"refused", "unavailable"}
    /\ jar' = IF renewal[t].phase = "refused" THEN NoCookie ELSE jar
    /\ SetAnonymous(t)
    /\ ClearTimer(t)
    /\ Settled(t)
    /\ UNCHANGED <<life, cred, sentinel, faults>>

\* Mutant: a lost first refresh leaves the store as it was.
RenewalIsLostAtTheLoader(t) ==
    /\ renewal[t].phase \in {"sent", "ok", "refused"}
    /\ Fault
    /\ IF renewal[t].saw = "authenticated"
       THEN Schedule(t) /\ UNCHANGED <<status, held>>
       ELSE UNCHANGED store
    /\ Settled(t)
    /\ UNCHANGED <<life, jar, cred, sentinel>>

\* Mutant: a lost refresh is not tried again.
RenewalIsLostForGood(t) ==
    /\ renewal[t].phase \in {"sent", "ok", "refused"}
    /\ Fault
    /\ IF renewal[t].saw = "unknown"
       THEN SetAnonymous(t) /\ UNCHANGED timer
       ELSE UNCHANGED store
    /\ Settled(t)
    /\ UNCHANGED <<life, jar, cred, sentinel>>

\* The request or its answer was lost; a rotation stands all the same.  store is
\* the state doRefresh began with.
RenewalIsLost(t) ==
    /\ renewal[t].phase \in {"sent", "ok", "refused"}
    /\ Fault
    /\ CASE renewal[t].saw = "unknown" -> SetAnonymous(t) /\ UNCHANGED timer
         [] renewal[t].saw = "authenticated" -> Schedule(t) /\ UNCHANGED <<status, held>>
         [] OTHER -> UNCHANGED store
    /\ Settled(t)
    /\ UNCHANGED <<life, jar, cred, sentinel>>

SettleRenewal(t) == RenewalSucceeds(t) \/ RenewalFails(t) \/ RenewalIsLost(t)

-----------------------------------------------------------------------------
(* Sign-in by password, verification code or reset link, and adoptSession(). *)

StartSignIn(t) ==
    /\ status[t] # "authenticated"
    /\ cred[t].phase = "none"
    /\ cred' = [cred EXCEPT ![t].phase = "signIn"]
    /\ UNCHANGED <<life, jar, store, renewal, sentinel, faults>>

ServeSignIn(t) ==
    /\ cred[t].phase = "signIn"
    /\ \E s \in Session :
          /\ life[s] = "unused"
          /\ life' = [life EXCEPT ![s] = "live"]
          /\ cred' = [cred EXCEPT ![t] = [phase |-> "signedIn", sid |-> s]]
    /\ UNCHANGED <<jar, store, renewal, sentinel, faults>>

\* Refused, unavailable or lost: the form shows it and nothing else changes.
SignInFails(t) ==
    /\ cred[t].phase \in {"signIn", "signedIn"}
    /\ cred' = [cred EXCEPT ![t] = NoCred]
    /\ UNCHANGED <<life, jar, store, renewal, sentinel, faults>>

AdoptSession(t) ==
    /\ cred[t].phase = "signedIn"
    /\ jar' = Fresh(cred[t].sid)
    /\ SetAuthenticated(t, cred[t].sid)
    /\ Schedule(t)
    /\ cred' = [cred EXCEPT ![t] = NoCred]
    /\ UNCHANGED <<life, renewal, sentinel, faults>>

-----------------------------------------------------------------------------
(* Loading a page: a reload, or the return leg of the Google flow, whose        *)
(* callback sets the cookie of a new session, or clears it when it failed.      *)
(* Nothing of the old page is left, and the new one bootstraps once.  Left out:  *)
(* a page left while its call is in flight, whose cookie may still arrive.       *)

LoadPage(t) ==
    /\ renewal[t].phase = "none"
    /\ cred[t].phase = "none"
    /\ status' = [status EXCEPT ![t] = "unknown"]
    /\ held' = [held EXCEPT ![t] = NoSession]
    /\ ClearTimer(t)
    /\ sentinel' = [sentinel EXCEPT ![t] = FALSE]
    /\ renewal' = [renewal EXCEPT ![t] = FirstRenewal(jar')]
    /\ UNCHANGED cred

Reload(t) ==
    /\ UNCHANGED <<life, jar, faults>>
    /\ LoadPage(t)

Callback(t) ==
    /\ status[t] = "anonymous"
    /\ \/ \E s \in Session :
             /\ life[s] = "unused"
             /\ life' = [life EXCEPT ![s] = "live"]
             /\ jar' = Fresh(s)
             /\ UNCHANGED faults
       \/ /\ Fault
          /\ jar' = NoCookie
          /\ UNCHANGED life
    /\ LoadPage(t)

-----------------------------------------------------------------------------
(* signOut() and the storage event it raises in the other tabs. *)

StartSignOut(t) ==
    /\ status[t] = "authenticated"
    /\ cred[t].phase = "none"
    /\ ClearTimer(t)
    /\ cred' = [cred EXCEPT ![t] = [phase |-> "signOut", sid |-> jar.sid]]
    /\ UNCHANGED <<life, jar, status, held, renewal, sentinel, faults>>

\* AuthController.Logout: the cookie's session is revoked, and the answer clears
\* the cookie even when the revocation failed.
ServeSignOut(t) ==
    /\ cred[t].phase = "signOut"
    /\ cred' = [cred EXCEPT ![t] = [phase |-> "signedOut", sid |-> NoSession]]
    /\ \/ /\ life' = [s \in Session |-> IF s = cred[t].sid THEN "ended" ELSE life[s]]
          /\ UNCHANGED faults
       \/ /\ cred[t].sid # NoSession
          /\ Fault
          /\ UNCHANGED life
    /\ UNCHANGED <<jar, store, renewal, sentinel>>

\* The tab signs out whatever became of the call.
SettleSignOut(t) ==
    /\ \/ /\ cred[t].phase = "signedOut"
          /\ jar' = NoCookie
          /\ UNCHANGED faults
       \/ /\ cred[t].phase \in {"signOut", "signedOut"}
          /\ Fault
          /\ UNCHANGED jar
    /\ SetAnonymous(t)
    /\ UNCHANGED timer
    /\ cred' = [cred EXCEPT ![t] = NoCred]
    /\ sentinel' = [u \in Tab |-> IF u = t THEN sentinel[u] ELSE TRUE]
    /\ UNCHANGED <<life, renewal>>

OnStorage(t) ==
    /\ sentinel[t]
    /\ sentinel' = [sentinel EXCEPT ![t] = FALSE]
    /\ ClearTimer(t)
    /\ SetAnonymous(t)
    /\ UNCHANGED <<life, jar, renewal, cred, faults>>

-----------------------------------------------------------------------------

Renew(t) ==
    \/ TimerFires(t)
    \/ TokenNeeded(t)
    \/ ServeRenewal(t)
    \/ RefuseRenewal(t)
    \/ RenewalUnavailable(t)
    \/ SettleRenewal(t)

SignIn(t) ==
    \/ StartSignIn(t)
    \/ ServeSignIn(t)
    \/ AdoptSession(t)
    \/ SignInFails(t)
    \/ Reload(t)
    \/ Callback(t)

SignOut(t) ==
    \/ StartSignOut(t)
    \/ ServeSignOut(t)
    \/ SettleSignOut(t)
    \/ OnStorage(t)

Next ==
    \/ \E t \in Tab : Renew(t) \/ SignIn(t) \/ SignOut(t)
    \/ \E s \in Session : GraceEnds(s) \/ SessionEnds(s)

Spec == Init /\ [][Next]_vars

\* Timers fire, answers come (or the browser gives up on them) and storage events
\* are delivered.  Users owe nothing.
Refreshing(t) ==
    ServeRenewal(t) \/ RefuseRenewal(t) \/ SettleRenewal(t)

Calling(t) ==
    \/ ServeSignIn(t) \/ SignInFails(t) \/ AdoptSession(t)
    \/ ServeSignOut(t) \/ SettleSignOut(t)

Fairness ==
    \A t \in Tab :
        /\ WF_vars(Refreshing(t))
        /\ WF_vars(TimerFires(t))
        /\ WF_vars(Calling(t))
        /\ WF_vars(OnStorage(t))

FairSpec == Spec /\ Fairness

-----------------------------------------------------------------------------
(* Properties *)

Renewing(t) == timer[t] \/ renewal[t].phase # "none"

SigningOut(t) == cred[t].phase \in {"signOut", "signedOut"}

(* A signed-in tab does not stop renewing: whatever overtakes whatever, it has a *)
(* refresh scheduled or in flight, unless its sign-out is under way.  Without    *)
(* one the access token lapses (schedule, clearTimer, doRefresh, adoptSession,   *)
(* onStorage).  The exception is real: a refresh that began before the tab was   *)
(* signed in, that the timer armed since has joined, and that gets no answer,    *)
(* arms no timer of its own, because doRefresh reads the status it began with.   *)
KeepsRenewing ==
    [][\A t \in Tab :
          LET wellKept == status[t] = "authenticated" => Renewing(t) \/ SigningOut(t)
              strayLoss == RenewalIsLost(t) /\ renewal[t].saw # "authenticated"
          IN  wellKept /\ ~ strayLoss => wellKept']_vars

(* A page shows the full-page loader only while its first refresh is under way, *)
(* with the API reachable or not: nothing that happens in the tab, a lost       *)
(* answer, a sign-in, another tab's sign-out, leaves it loading for ever        *)
(* (bootstrap runs once per load; ProtectedLayout's status === 'unknown').      *)
LoadSettles ==
    \A t \in Tab : status[t] = "unknown" => renewal[t].phase # "none"

\* What users do; the rest goes on by itself.
UserStep ==
    \E t \in Tab :
        StartSignIn(t) \/ Reload(t) \/ Callback(t) \/ StartSignOut(t) \/ TokenNeeded(t)

UsersRest == <>[][~ UserStep]_vars

(* Once users rest, a session that ended, by a sign-out in any tab or at the    *)
(* provider, is in use by no tab that still renews: even one whose late refresh *)
(* brought it back loses it again (spec 001 story 2 scenario 7, story 3         *)
(* scenario 3).                                                                 *)
EndedSessionsLeaveTheTabs ==
    UsersRest =>
        <>[](\A t \in Tab, s \in Session :
                life[s] = "ended" /\ Renewing(t) => held[t] # s)

\* Session s is in use in tab t, or an answer is on its way that puts it to use.
InUse(t, s) ==
    \/ held[t] = s
    \/ renewal[t].phase = "ok" /\ renewal[t].cookie.sid = s
    \/ cred[t].phase = "signedIn" /\ cred[t].sid = s

Uses == {u \in Tab \X Session : InUse(u[1], u[2])}

Use == INSTANCE SessionUse WITH inUse <- Uses

(* "neither the application nor the server accepts their old session            *)
(* afterwards": the server does not, and the application only what was answered *)
(* before.  A session comes into use, or is granted, only while it is live:     *)
(* from its end on, by a sign-out or at the provider, it does so in no further  *)
(* tab, whatever cookie of it a late answer puts back into the jar, and none is *)
(* used that no sign-in began (Refresh, adoptSession, Callback, doRefresh).     *)
SessionsAreUsedAsGranted == Use!Spec

\* No call is in flight in any tab.
Quiet == \A t \in Tab : renewal[t].phase = "none" /\ cred[t].phase = "none"

(* Once users rest, the tabs agree with the cookie they share: each signed-in   *)
(* tab that renews holds the session of the jar's cookie, whichever session it  *)
(* held before and whichever tab renewed, signed in or signed out last, with a  *)
(* revocation that failed too.  A moment with no call in flight must come now   *)
(* and then: two tabs whose refreshes, sent with the cookies of two live        *)
(* sessions, overlap for ever hand the jar from one session to the other for    *)
(* ever.                                                                        *)
TabsAgreeWithTheCookie ==
    UsersRest /\ []<>Quiet =>
        <>[](\A t \in Tab :
                status[t] = "authenticated" /\ Renewing(t) => held[t] = jar.sid)

(* What the story promises of sign-out: "neither the application nor the server *)
(* accepts their old session afterwards".  A tab that is signed out while a     *)
(* refresh it began as signed in is in flight does not go back to the session   *)
(* that ended.  doRefresh does not look at the store after its await.           *)
SignedOutStaysSignedOut ==
    [][\A t \in Tab :
          LET answer == renewal[t] IN
          /\ status[t] = "anonymous"
          /\ answer.phase = "ok" /\ answer.saw = "authenticated"
          /\ life[answer.cookie.sid] = "ended"
          => held'[t] # answer.cookie.sid]_vars

=============================================================================
