-------------------------- MODULE WebSessionProofs --------------------------
(* Theorems about WebSession, for any tabs, sessions and bound on faults. *)
EXTENDS WebSession, TLAPS

\* The refresh that a page at the loader waits for began with that page, so even
\* its loss ends the loading.
LoaderHasItsRefresh ==
    \A t \in Tab : status[t] = "unknown" =>
        renewal[t].phase # "none" /\ renewal[t].saw = "unknown"

\* A sign-in or a refresh that succeeded has a session.
SignedInSomewhere ==
    \A t \in Tab :
        /\ cred[t].phase = "signedIn" => cred[t].sid \in Session
        /\ renewal[t].phase = "ok" => renewal[t].cookie \in Token

\* A session that a cookie, a request or a call is about was begun by a sign-in.
Begun(sid) == sid \in Session => life[sid] # "unused"

SessionsWereBegun ==
    /\ Begun(jar.sid)
    /\ \A t \in Tab : Begun(renewal[t].cookie.sid) /\ Begun(cred[t].sid)

IInv == TypeOK /\ SignedInSomewhere /\ LoaderHasItsRefresh /\ SessionsWereBegun

-----------------------------------------------------------------------------

(* What happens to a token or an answer leaves a cookie and a renewal. *)
LEMMA AgedType ==
    ASSUME NEW c \in Cookie, NEW s \in Session, NEW from, NEW to \in Age
    PROVE  Aged(c, s, from, to) \in Cookie
BY NoSessionAssumption DEF Aged, Cookie, Token, NoCookie

LEMMA AnswerType ==
    ASSUME TypeOK, NEW t \in Tab, NEW phase \in RenewalPhase, NEW cookie \in Cookie
    PROVE  Answer(t, phase, cookie) \in [Tab -> Renewal]
BY DEF TypeOK, Answer, Renewal

LEMMA RotatedType ==
    ASSUME TypeOK, NEW s \in Session
    PROVE  Rotated(s) \in [Tab -> Renewal]
<1>1. \A t \in Tab : Aged(renewal[t].cookie, s, "current", "replaced") \in Cookie
    BY AgedType DEF TypeOK, Renewal, Age
<1> QED
    BY <1>1 DEF Rotated, TypeOK, Renewal

(* The steps of the refreshes keep the types. *)
LEMMA TypeRenew ==
    ASSUME TypeOK, SignedInSomewhere, NEW t \in Tab, Renew(t)
    PROVE  TypeOK'
<1> USE NoSessionAssumption, MaxFaultsAssumption
        DEF TypeOK, store, Age, Token, NoCookie, Cookie, Fresh, Status, RenewalPhase,
            Renewal, NoRenewal, SetAuthenticated, SetAnonymous, Schedule, ClearTimer,
            Fault, SendRenewal, Settled
<1>1. CASE TimerFires(t)
    BY <1>1 DEF TimerFires
<1>2. CASE TokenNeeded(t)
    BY <1>2 DEF TokenNeeded
<1>3. CASE ServeRenewal(t)
    <2> DEFINE c == renewal[t].cookie
    <2>1. c \in Token
        BY <1>3 DEF ServeRenewal, Accepted
    <2>2. Fresh(c.sid) \in Cookie
        BY <2>1
    <2>3. jar' \in Cookie
        BY <1>3, AgedType DEF ServeRenewal
    <2>4. renewal' \in [Tab -> Renewal]
        <3>1. CASE c.age = "current"
            <4>1. [phase |-> "ok", cookie |-> Fresh(c.sid), saw |-> Rotated(c.sid)[t].saw] \in Renewal
                BY <2>1, <2>2, RotatedType DEF Renewal
            <4>2. Rotated(c.sid) \in [Tab -> Renewal]
                BY <2>1, RotatedType
            <4>3. renewal' = [Rotated(c.sid) EXCEPT
                    ![t] = [phase |-> "ok", cookie |-> Fresh(c.sid), saw |-> @.saw]]
                BY <1>3, <3>1 DEF ServeRenewal
            <4> HIDE DEF Renewal, c
            <4> QED
                BY <4>1, <4>2, <4>3
        <3>2. CASE c.age # "current"
            BY <1>3, <2>2, <3>2, AnswerType DEF ServeRenewal
        <3> QED
            BY <3>1, <3>2
    <2> QED
        BY <1>3, <2>3, <2>4 DEF ServeRenewal
<1>4. CASE RefuseRenewal(t)
    <2>1. renewal' \in [Tab -> Renewal]
        BY <1>4, AnswerType DEF RefuseRenewal
    <2> QED
        BY <1>4, <2>1 DEF RefuseRenewal
<1>5. CASE RenewalUnavailable(t)
    <2>1. renewal' \in [Tab -> Renewal]
        BY <1>5, AnswerType DEF RenewalUnavailable
    <2> QED
        BY <1>5, <2>1 DEF RenewalUnavailable
<1>6. CASE RenewalSucceeds(t)
    <2>1. renewal[t].cookie \in Token
        BY <1>6 DEF RenewalSucceeds, SignedInSomewhere
    <2> QED
        BY <1>6, <2>1 DEF RenewalSucceeds
<1>7. CASE RenewalFails(t)
    BY <1>7 DEF RenewalFails
<1>8. CASE RenewalIsLost(t)
    <2>1. renewal' \in [Tab -> Renewal] /\ faults' \in Nat
        BY <1>8 DEF RenewalIsLost
    <2>2. UNCHANGED <<life, jar, cred, sentinel>>
        BY <1>8 DEF RenewalIsLost
    <2>3. /\ status' \in [Tab -> Status]
          /\ held' \in [Tab -> Session \cup {NoSession}]
          /\ timer' \in [Tab -> BOOLEAN]
          /\ \A u \in Tab : status'[u] = "authenticated" <=> held'[u] # NoSession
        <3>1. CASE renewal[t].saw = "unknown"
            BY <1>8, <3>1 DEF RenewalIsLost
        <3>2. CASE renewal[t].saw = "authenticated"
            BY <1>8, <3>2 DEF RenewalIsLost
        <3>3. CASE renewal[t].saw = "anonymous"
            BY <1>8, <3>3 DEF RenewalIsLost
        <3> QED
            BY <3>1, <3>2, <3>3
    <2> QED
        BY <2>1, <2>2, <2>3
<1> QED
    BY <1>1, <1>2, <1>3, <1>4, <1>5, <1>6, <1>7, <1>8 DEF Renew, SettleRenewal

(* The steps of sign-ins, page loads and sign-outs keep the types. *)
LEMMA TypeCalls ==
    ASSUME TypeOK, SignedInSomewhere, NEW t \in Tab, SignIn(t) \/ SignOut(t)
    PROVE  TypeOK'
<1> USE NoSessionAssumption, MaxFaultsAssumption
        DEF TypeOK, store, Age, Token, NoCookie, Cookie, Fresh, Status, RenewalPhase,
            Renewal, NoRenewal, FirstRenewal, CredPhase, Cred, NoCred, SetAuthenticated,
            SetAnonymous, Schedule, ClearTimer, Fault
<1>1. CASE StartSignIn(t)
    BY <1>1 DEF StartSignIn
<1>2. CASE ServeSignIn(t)
    BY <1>2 DEF ServeSignIn
<1>3. CASE AdoptSession(t)
    <2>1. cred[t].sid \in Session
        BY <1>3 DEF AdoptSession, SignedInSomewhere
    <2> QED
        BY <1>3, <2>1 DEF AdoptSession
<1>4. CASE SignInFails(t)
    BY <1>4 DEF SignInFails
<1>5. CASE Reload(t)
    BY <1>5 DEF Reload, LoadPage
<1>6. CASE Callback(t)
    <2>1. jar' \in Cookie /\ life' \in [Session -> {"unused", "live", "ended"}] /\ faults' \in Nat
        BY <1>6 DEF Callback
    <2>2. renewal' \in [Tab -> Renewal]
        BY <1>6, <2>1 DEF Callback, LoadPage
    <2> QED
        BY <1>6, <2>1, <2>2 DEF Callback, LoadPage
<1>7. CASE StartSignOut(t)
    BY <1>7 DEF StartSignOut
<1>8. CASE ServeSignOut(t)
    BY <1>8 DEF ServeSignOut
<1>9. CASE SettleSignOut(t)
    <2>1. jar' \in Cookie /\ faults' \in Nat
        BY <1>9 DEF SettleSignOut
    <2>2. sentinel' \in [Tab -> BOOLEAN]
        BY <1>9 DEF SettleSignOut
    <2> QED
        BY <1>9, <2>1, <2>2 DEF SettleSignOut
<1>10. CASE OnStorage(t)
    BY <1>10 DEF OnStorage
<1> QED
    BY <1>1, <1>2, <1>3, <1>4, <1>5, <1>6, <1>7, <1>8, <1>9, <1>10 DEF SignIn, SignOut

(* Every step keeps the types. *)
LEMMA TypeStep ==
    ASSUME TypeOK, SignedInSomewhere, [Next]_vars
    PROVE  TypeOK'
<1>1. ASSUME NEW s \in Session, GraceEnds(s) \/ SessionEnds(s)
      PROVE  TypeOK'
    BY <1>1 DEF TypeOK, GraceEnds, SessionEnds, store, Aged, Cookie, Token, NoCookie, Age
<1>2. CASE UNCHANGED vars
    BY <1>2 DEF TypeOK, vars
<1> QED
    BY <1>1, <1>2, TypeRenew, TypeCalls DEF Next

(* Serving a refresh in one tab answers it, and leaves the others under way. *)
LEMMA ServingKeepsTheOthers ==
    ASSUME TypeOK, NEW t \in Tab, ServeRenewal(t), NEW u \in Tab
    PROVE  /\ renewal'[u].saw = renewal[u].saw
           /\ renewal'[u].phase = IF u = t THEN "ok" ELSE renewal[u].phase
<1> DEFINE c == renewal[t].cookie
<1>1. renewal \in [Tab -> Renewal]
    BY DEF TypeOK
<1>2. CASE c.age = "current"
    <2>1. /\ Rotated(c.sid)[u].saw = renewal[u].saw
          /\ Rotated(c.sid)[u].phase = renewal[u].phase
        BY <1>1 DEF Rotated, Renewal
    <2>2. renewal' = [Rotated(c.sid) EXCEPT
            ![t] = [phase |-> "ok", cookie |-> Fresh(c.sid), saw |-> @.saw]]
        BY <1>2 DEF ServeRenewal
    <2>3. DOMAIN Rotated(c.sid) = Tab
        BY DEF Rotated
    <2> HIDE DEF c
    <2> QED
        BY <2>1, <2>2, <2>3
<1>3. CASE c.age # "current"
    BY <1>1, <1>3 DEF ServeRenewal, Answer, Renewal
<1> QED
    BY <1>2, <1>3

(* Success comes with a session: of an accepted token, or a new one. *)
LEMMA SessionsStep ==
    ASSUME TypeOK, SignedInSomewhere, [Next]_vars
    PROVE  SignedInSomewhere'
<1> USE DEF TypeOK, SignedInSomewhere, Renewal, Cred, NoCred, NoRenewal, FirstRenewal,
            SendRenewal, Settled
<1>1. CASE UNCHANGED vars
    BY <1>1 DEF vars
<1>2. ASSUME NEW s \in Session, GraceEnds(s) \/ SessionEnds(s)
      PROVE  SignedInSomewhere'
    BY <1>2 DEF GraceEnds, SessionEnds
<1>3. ASSUME NEW t \in Tab, TimerFires(t)
      PROVE  SignedInSomewhere'
    BY <1>3 DEF TimerFires
<1>4. ASSUME NEW t \in Tab, TokenNeeded(t)
      PROVE  SignedInSomewhere'
    BY <1>4 DEF TokenNeeded
<1>5. ASSUME NEW t \in Tab, ServeRenewal(t)
      PROVE  SignedInSomewhere'
    <2> DEFINE c == renewal[t].cookie
    <2>1. c \in Token
        BY <1>5 DEF ServeRenewal, Accepted, Cookie
    <2>2. Fresh(c.sid) \in Token
        BY <2>1 DEF Fresh, Token, Age
    <2>3. ASSUME NEW u \in Tab, renewal'[u].phase = "ok"
          PROVE  renewal'[u].cookie \in Token
        <3>1. CASE c.age = "current"
            <4>1. renewal' = [Rotated(c.sid) EXCEPT
                    ![t] = [phase |-> "ok", cookie |-> Fresh(c.sid), saw |-> @.saw]]
                BY <1>5, <3>1 DEF ServeRenewal
            <4>2. CASE u = t
                <5>1. DOMAIN Rotated(c.sid) = Tab
                    BY DEF Rotated
                <5> HIDE DEF c
                <5> QED
                    BY <2>2, <4>1, <4>2, <5>1
            <4>3. CASE u # t
                <5>1. renewal'[u] = Rotated(c.sid)[u]
                    BY <4>1, <4>3 DEF Rotated
                <5>2. renewal'[u].cookie = Aged(renewal[u].cookie, c.sid, "current", "replaced")
                    BY <5>1 DEF Rotated
                <5>3. renewal[u].phase = "ok"
                    BY <2>3, <5>1 DEF Rotated
                <5> QED
                    BY <5>2, <5>3 DEF Aged, Token, Age
            <4> QED
                BY <4>2, <4>3
        <3>2. CASE c.age # "current"
            <4>1. renewal' = Answer(t, "ok", Fresh(c.sid))
                BY <1>5, <3>2 DEF ServeRenewal
            <4> HIDE DEF c
            <4> QED
                BY <2>2, <2>3, <4>1 DEF Answer
        <3> QED
            BY <3>1, <3>2
    <2> QED
        BY <1>5, <2>3 DEF ServeRenewal
<1>6. ASSUME NEW t \in Tab, RefuseRenewal(t) \/ RenewalUnavailable(t)
      PROVE  SignedInSomewhere'
    <2>1. PICK phase \in {"refused", "unavailable"} : renewal' = Answer(t, phase, NoCookie)
        BY <1>6 DEF RefuseRenewal, RenewalUnavailable
    <2>2. UNCHANGED cred
        BY <1>6 DEF RefuseRenewal, RenewalUnavailable
    <2> QED
        BY <2>1, <2>2 DEF Answer
<1>7. ASSUME NEW t \in Tab, SettleRenewal(t)
      PROVE  SignedInSomewhere'
    BY <1>7 DEF SettleRenewal, RenewalSucceeds, RenewalFails, RenewalIsLost
<1>8. ASSUME NEW t \in Tab, SignIn(t)
      PROVE  SignedInSomewhere'
    <2>1. CASE StartSignIn(t)
        BY <2>1 DEF StartSignIn
    <2>2. CASE ServeSignIn(t)
        BY <2>2 DEF ServeSignIn
    <2>3. CASE AdoptSession(t)
        BY <2>3 DEF AdoptSession
    <2>4. CASE SignInFails(t)
        BY <2>4 DEF SignInFails
    <2>5. CASE Reload(t)
        BY <2>5 DEF Reload, LoadPage
    <2>6. CASE Callback(t)
        BY <2>6 DEF Callback, LoadPage
    <2> QED
        BY <1>8, <2>1, <2>2, <2>3, <2>4, <2>5, <2>6 DEF SignIn
<1>9. ASSUME NEW t \in Tab, SignOut(t)
      PROVE  SignedInSomewhere'
    <2>1. CASE StartSignOut(t)
        BY <2>1 DEF StartSignOut
    <2>2. CASE ServeSignOut(t)
        BY <2>2 DEF ServeSignOut
    <2>3. CASE SettleSignOut(t)
        BY <2>3 DEF SettleSignOut
    <2>4. CASE OnStorage(t)
        BY <2>4 DEF OnStorage
    <2> QED
        BY <1>9, <2>1, <2>2, <2>3, <2>4 DEF SignOut
<1> QED
    BY <1>1, <1>2, <1>3, <1>4, <1>5, <1>6, <1>7, <1>8, <1>9 DEF Next, Renew

(* A page at the loader keeps its first refresh. *)
LEMMA LoaderStep ==
    ASSUME TypeOK, LoaderHasItsRefresh, [Next]_vars
    PROVE  LoaderHasItsRefresh'
<1> USE DEF TypeOK, LoaderHasItsRefresh, store, Renewal, NoRenewal,
            FirstRenewal, Cred, NoCred, SetAuthenticated, SetAnonymous, SendRenewal,
            Answer, Settled
<1>1. CASE UNCHANGED vars
    BY <1>1 DEF vars
<1>2. ASSUME NEW s \in Session, GraceEnds(s) \/ SessionEnds(s)
      PROVE  LoaderHasItsRefresh'
    BY <1>2 DEF GraceEnds, SessionEnds
<1>3. ASSUME NEW t \in Tab, TimerFires(t) \/ TokenNeeded(t)
      PROVE  LoaderHasItsRefresh'
    BY <1>3 DEF TimerFires, TokenNeeded
<1>4. ASSUME NEW t \in Tab, ServeRenewal(t)
      PROVE  LoaderHasItsRefresh'
    <2>1. UNCHANGED <<cred, status>>
        BY <1>4 DEF ServeRenewal
    <2>2. \A u \in Tab : /\ renewal[u].phase # "none" => renewal'[u].phase # "none"
                         /\ renewal'[u].saw = renewal[u].saw
        BY <1>4, ServingKeepsTheOthers
    <2> QED
        BY <2>1, <2>2
<1>5. ASSUME NEW t \in Tab, RefuseRenewal(t) \/ RenewalUnavailable(t)
      PROVE  LoaderHasItsRefresh'
    <2>1. UNCHANGED <<cred, status>>
        BY <1>5 DEF RefuseRenewal, RenewalUnavailable
    <2>2. \A u \in Tab : /\ renewal[u].phase # "none" => renewal'[u].phase # "none"
                         /\ renewal'[u].saw = renewal[u].saw
        <3>1. PICK phase \in {"refused", "unavailable"} : renewal' = Answer(t, phase, NoCookie)
            BY <1>5 DEF RefuseRenewal, RenewalUnavailable
        <3>2. ASSUME NEW u \in Tab
              PROVE  /\ renewal[u].phase # "none" => renewal'[u].phase # "none"
                     /\ renewal'[u].saw = renewal[u].saw
            BY <3>1
        <3> QED
            BY <3>2
    <2> QED
        BY <2>1, <2>2
<1>6. ASSUME NEW t \in Tab, RenewalSucceeds(t) \/ RenewalFails(t)
      PROVE  LoaderHasItsRefresh'
    BY <1>6 DEF RenewalSucceeds, RenewalFails
<1>7. ASSUME NEW t \in Tab, RenewalIsLost(t)
      PROVE  LoaderHasItsRefresh'
    BY <1>7 DEF RenewalIsLost
<1>8. ASSUME NEW t \in Tab, SignIn(t)
      PROVE  LoaderHasItsRefresh'
    <2>1. CASE StartSignIn(t)
        BY <2>1 DEF StartSignIn
    <2>2. CASE ServeSignIn(t)
        BY <2>2 DEF ServeSignIn
    <2>3. CASE AdoptSession(t)
        BY <2>3 DEF AdoptSession
    <2>4. CASE SignInFails(t)
        BY <2>4 DEF SignInFails
    <2>5. CASE Reload(t)
        BY <2>5 DEF Reload, LoadPage
    <2>6. CASE Callback(t)
        BY <2>6 DEF Callback, LoadPage
    <2> QED
        BY <1>8, <2>1, <2>2, <2>3, <2>4, <2>5, <2>6 DEF SignIn
<1>9. ASSUME NEW t \in Tab, SignOut(t)
      PROVE  LoaderHasItsRefresh'
    <2>1. CASE StartSignOut(t)
        BY <2>1 DEF StartSignOut
    <2>2. CASE ServeSignOut(t)
        BY <2>2 DEF ServeSignOut
    <2>3. CASE SettleSignOut(t)
        BY <2>3 DEF SettleSignOut
    <2>4. CASE OnStorage(t)
        BY <2>4 DEF OnStorage
    <2> QED
        BY <1>9, <2>1, <2>2, <2>3, <2>4 DEF SignOut
<1> QED
    BY <1>1, <1>2, <1>3, <1>4, <1>5, <1>6, <1>7, <1>8, <1>9 DEF Next, Renew, SettleRenewal

(* Serving a refresh leaves every request and answer with its session. *)
LEMMA ServingKeepsTheSessions ==
    ASSUME TypeOK, NEW t \in Tab, ServeRenewal(t), NEW u \in Tab
    PROVE  renewal'[u].cookie.sid = renewal[u].cookie.sid
<1> DEFINE c == renewal[t].cookie
<1>1. renewal \in [Tab -> Renewal]
    BY DEF TypeOK
<1>2. Fresh(c.sid).sid = c.sid
    BY DEF Fresh
<1>3. CASE c.age = "current"
    <2>1. Rotated(c.sid)[u].cookie.sid = renewal[u].cookie.sid
        BY <1>1 DEF Rotated, Aged, Renewal, Cookie, Token, NoCookie
    <2>2. renewal' = [Rotated(c.sid) EXCEPT
            ![t] = [phase |-> "ok", cookie |-> Fresh(c.sid), saw |-> @.saw]]
        BY <1>3 DEF ServeRenewal
    <2>3. DOMAIN Rotated(c.sid) = Tab
        BY DEF Rotated
    <2>4. CASE u = t
        <3>1. renewal'[u].cookie = Fresh(c.sid)
            BY <2>2, <2>3, <2>4
        <3> QED
            BY <1>2, <2>4, <3>1
    <2>5. CASE u # t
        <3>1. renewal'[u] = Rotated(c.sid)[u]
            BY <2>2, <2>3, <2>5
        <3> QED
            BY <2>1, <3>1
    <2> QED
        BY <2>4, <2>5
<1>4. CASE c.age # "current"
    <2>1. renewal' = Answer(t, "ok", Fresh(c.sid))
        BY <1>4 DEF ServeRenewal
    <2> QED
        BY <1>1, <1>2, <2>1 DEF Answer, Renewal
<1> QED
    BY <1>3, <1>4

(* Every cookie and every call is about a session that a sign-in began. *)
LEMMA BegunStep ==
    ASSUME TypeOK, SessionsWereBegun, [Next]_vars
    PROVE  SessionsWereBegun'
<1> USE DEF TypeOK, SessionsWereBegun, Begun, store, Renewal, NoRenewal, FirstRenewal,
            Cred, NoCred, NoCookie, Fresh, SendRenewal, Settled
<1>1. CASE UNCHANGED vars
    BY <1>1 DEF vars
<1>2. ASSUME NEW s \in Session, GraceEnds(s)
      PROVE  SessionsWereBegun'
    <2>1. jar'.sid = jar.sid
        BY <1>2 DEF GraceEnds, Aged, Cookie, Token
    <2> QED
        BY <1>2, <2>1 DEF GraceEnds
<1>3. ASSUME NEW s \in Session, SessionEnds(s)
      PROVE  SessionsWereBegun'
    BY <1>3 DEF SessionEnds
<1>4. ASSUME NEW t \in Tab, TimerFires(t) \/ TokenNeeded(t)
      PROVE  SessionsWereBegun'
    <2>1. UNCHANGED <<life, jar, cred>>
        BY <1>4 DEF TimerFires, TokenNeeded
    <2>2. CASE UNCHANGED renewal
        BY <2>1, <2>2
    <2>3. CASE SendRenewal(t)
        <3>1. renewal' = [renewal EXCEPT ![t] =
                              [phase |-> "sent", cookie |-> jar, saw |-> status[t]]]
            BY <2>3
        <3>2. \A u \in Tab : u # t => renewal'[u] = renewal[u]
            BY <3>1
        <3>3. renewal'[t].cookie = jar
            BY <3>1
        <3> QED
            BY <2>1, <3>2, <3>3
    <2> QED
        BY <1>4, <2>2, <2>3 DEF TimerFires, TokenNeeded
<1>5. ASSUME NEW t \in Tab, ServeRenewal(t)
      PROVE  SessionsWereBegun'
    <2>1. jar'.sid = jar.sid
        BY <1>5 DEF ServeRenewal, Aged, Cookie, Token
    <2>2. \A u \in Tab : renewal'[u].cookie.sid = renewal[u].cookie.sid
        BY <1>5, ServingKeepsTheSessions
    <2>3. UNCHANGED <<life, cred>>
        BY <1>5 DEF ServeRenewal
    <2> QED
        BY <2>1, <2>2, <2>3
<1>6. ASSUME NEW t \in Tab, RefuseRenewal(t) \/ RenewalUnavailable(t)
      PROVE  SessionsWereBegun'
    <2>1. PICK phase \in {"refused", "unavailable"} : renewal' = Answer(t, phase, NoCookie)
        BY <1>6 DEF RefuseRenewal, RenewalUnavailable
    <2>2. UNCHANGED <<life, jar, cred>>
        BY <1>6 DEF RefuseRenewal, RenewalUnavailable
    <2> QED
        BY <2>1, <2>2, NoSessionAssumption DEF Answer
<1>7. ASSUME NEW t \in Tab, SettleRenewal(t)
      PROVE  SessionsWereBegun'
    BY <1>7, NoSessionAssumption
       DEF SettleRenewal, RenewalSucceeds, RenewalFails, RenewalIsLost
<1>8. ASSUME NEW t \in Tab, SignIn(t)
      PROVE  SessionsWereBegun'
    <2>1. CASE StartSignIn(t)
        BY <2>1 DEF StartSignIn
    <2>2. CASE ServeSignIn(t)
        BY <2>2 DEF ServeSignIn
    <2>3. CASE AdoptSession(t)
        BY <2>3, NoSessionAssumption DEF AdoptSession
    <2>4. CASE SignInFails(t)
        BY <2>4, NoSessionAssumption DEF SignInFails
    <2>5. CASE Reload(t)
        BY <2>5 DEF Reload, LoadPage
    <2>6. CASE Callback(t)
        BY <2>6, NoSessionAssumption DEF Callback, LoadPage
    <2> QED
        BY <1>8, <2>1, <2>2, <2>3, <2>4, <2>5, <2>6 DEF SignIn
<1>9. ASSUME NEW t \in Tab, SignOut(t)
      PROVE  SessionsWereBegun'
    <2>1. CASE StartSignOut(t)
        BY <2>1 DEF StartSignOut
    <2>2. CASE ServeSignOut(t)
        BY <2>2, NoSessionAssumption DEF ServeSignOut
    <2>3. CASE SettleSignOut(t)
        BY <2>3, NoSessionAssumption DEF SettleSignOut
    <2>4. CASE OnStorage(t)
        BY <2>4 DEF OnStorage
    <2> QED
        BY <1>9, <2>1, <2>2, <2>3, <2>4 DEF SignOut
<1> QED
    BY <1>1, <1>2, <1>3, <1>4, <1>5, <1>6, <1>7, <1>8, <1>9 DEF Next, Renew

(* The inductive invariant. *)
THEOREM InductiveInvariant == Spec => []IInv
<1>1. Init => IInv
    BY NoSessionAssumption
       DEF Init, IInv, TypeOK, SignedInSomewhere, LoaderHasItsRefresh, SessionsWereBegun,
           Begun, NoCookie, Cookie, Age, Status, RenewalPhase, Renewal, FirstRenewal,
           CredPhase, Cred, NoCred
<1>2. IInv /\ [Next]_vars => IInv'
    BY TypeStep, SessionsStep, LoaderStep, BegunStep DEF IInv
<1> QED
    BY <1>1, <1>2, PTL DEF Spec

(* Every variable keeps its type, for any number of tabs and sessions. *)
THEOREM TypeCorrect == Spec => []TypeOK
BY InductiveInvariant, PTL DEF IInv

(* No page is left at the full-page loader without a refresh under way. *)
THEOREM LoadingEnds == Spec => []LoadSettles
<1>1. IInv => LoadSettles
    BY DEF IInv, LoaderHasItsRefresh, LoadSettles
<1> QED
    BY <1>1, InductiveInvariant, PTL

-----------------------------------------------------------------------------

WellKept(t) == status[t] = "authenticated" => Renewing(t) \/ SigningOut(t)

(* A step of one tab leaves the renewals of the others alone, as far as whether *)
(* there is one, and its own tab well kept unless the answer strayed.           *)
LEMMA RenewingStep ==
    ASSUME TypeOK, [Next]_vars, NEW t \in Tab, WellKept(t),
           ~ (RenewalIsLost(t) /\ renewal[t].saw # "authenticated")
    PROVE  WellKept(t)'
<1> USE DEF TypeOK, WellKept, Renewing, SigningOut, store, Renewal, NoRenewal, FirstRenewal,
            Cred, NoCred, SetAuthenticated, SetAnonymous, Schedule, ClearTimer, SendRenewal,
            Answer, Settled
<1>1. CASE UNCHANGED vars
    BY <1>1 DEF vars
<1>2. ASSUME NEW s \in Session, GraceEnds(s) \/ SessionEnds(s)
      PROVE  WellKept(t)'
    BY <1>2 DEF GraceEnds, SessionEnds
<1>3. ASSUME NEW u \in Tab, TimerFires(u) \/ TokenNeeded(u)
      PROVE  WellKept(t)'
    BY <1>3 DEF TimerFires, TokenNeeded
<1>4. ASSUME NEW u \in Tab, ServeRenewal(u)
      PROVE  WellKept(t)'
    <2>1. UNCHANGED <<status, timer, cred>>
        BY <1>4 DEF ServeRenewal
    <2>2. renewal[t].phase # "none" => renewal'[t].phase # "none"
        BY <1>4, ServingKeepsTheOthers
    <2> QED
        BY <2>1, <2>2
<1>5. ASSUME NEW u \in Tab, RefuseRenewal(u) \/ RenewalUnavailable(u)
      PROVE  WellKept(t)'
    BY <1>5 DEF RefuseRenewal, RenewalUnavailable
<1>6. ASSUME NEW u \in Tab, RenewalSucceeds(u) \/ RenewalFails(u)
      PROVE  WellKept(t)'
    BY <1>6 DEF RenewalSucceeds, RenewalFails
<1>7. ASSUME NEW u \in Tab, RenewalIsLost(u)
      PROVE  WellKept(t)'
    <2>1. CASE u = t
        BY <1>7, <2>1 DEF RenewalIsLost
    <2>2. CASE u # t
        BY <1>7, <2>2 DEF RenewalIsLost
    <2> QED
        BY <2>1, <2>2
<1>8. ASSUME NEW u \in Tab, SignIn(u)
      PROVE  WellKept(t)'
    <2>1. CASE StartSignIn(u)
        BY <2>1 DEF StartSignIn
    <2>2. CASE ServeSignIn(u)
        BY <2>2 DEF ServeSignIn
    <2>3. CASE AdoptSession(u)
        BY <2>3 DEF AdoptSession
    <2>4. CASE SignInFails(u)
        BY <2>4 DEF SignInFails
    <2>5. CASE Reload(u)
        BY <2>5 DEF Reload, LoadPage
    <2>6. CASE Callback(u)
        BY <2>6 DEF Callback, LoadPage
    <2> QED
        BY <1>8, <2>1, <2>2, <2>3, <2>4, <2>5, <2>6 DEF SignIn
<1>9. ASSUME NEW u \in Tab, SignOut(u)
      PROVE  WellKept(t)'
    <2>1. CASE StartSignOut(u)
        BY <2>1 DEF StartSignOut
    <2>2. CASE ServeSignOut(u)
        BY <2>2 DEF ServeSignOut
    <2>3. CASE SettleSignOut(u)
        BY <2>3 DEF SettleSignOut
    <2>4. CASE OnStorage(u)
        BY <2>4 DEF OnStorage
    <2> QED
        BY <1>9, <2>1, <2>2, <2>3, <2>4 DEF SignOut
<1> QED
    BY <1>1, <1>2, <1>3, <1>4, <1>5, <1>6, <1>7, <1>8, <1>9 DEF Next, Renew, SettleRenewal

(* A signed-in tab does not stop renewing, however many tabs share the cookie   *)
(* and whatever is lost, but for the one stray answer the property names.       *)
THEOREM TabsKeepRenewing == Spec => KeepsRenewing
<1>1. TypeOK /\ [Next]_vars =>
        [\A t \in Tab :
            LET wellKept == status[t] = "authenticated" => Renewing(t) \/ SigningOut(t)
                strayLoss == RenewalIsLost(t) /\ renewal[t].saw # "authenticated"
            IN  wellKept /\ ~ strayLoss => wellKept']_vars
    BY RenewingStep DEF WellKept
<1> QED
    BY <1>1, TypeCorrect, PTL DEF Spec, KeepsRenewing

-----------------------------------------------------------------------------
(* The tabs use the provider's sessions as SessionUse says. *)

(* But for the four steps at the server that begin, grant or end a session, what *)
(* a tab uses after a step it used before.                                       *)
LEMMA TabsOnlyDrop ==
    ASSUME TypeOK, SignedInSomewhere, NEW t \in Tab, NEW u \in Tab, NEW s \in Session,
           Renew(t) \/ SignIn(t) \/ SignOut(t),
           ~ ServeRenewal(t), ~ ServeSignIn(t), ~ Callback(t), ~ ServeSignOut(t),
           InUse(u, s)'
    PROVE  InUse(u, s)
<1> USE DEF TypeOK, InUse, store, Renewal, NoRenewal, FirstRenewal, Cred, NoCred,
            NoCookie, SetAuthenticated, SetAnonymous, SendRenewal, Settled
<1>1. CASE TimerFires(t) \/ TokenNeeded(t)
    BY <1>1 DEF TimerFires, TokenNeeded
<1>2. CASE RefuseRenewal(t) \/ RenewalUnavailable(t)
    <2>1. PICK phase \in {"refused", "unavailable"} : renewal' = Answer(t, phase, NoCookie)
        BY <1>2 DEF RefuseRenewal, RenewalUnavailable
    <2>2. UNCHANGED <<held, cred>>
        BY <1>2 DEF RefuseRenewal, RenewalUnavailable
    <2>3. renewal'[u].phase = "ok" => renewal'[u] = renewal[u]
        BY <2>1 DEF Answer
    <2> QED
        BY <2>2, <2>3
<1>3. CASE RenewalSucceeds(t) \/ RenewalFails(t)
    BY <1>3, NoSessionAssumption DEF RenewalSucceeds, RenewalFails
<1>4. CASE RenewalIsLost(t)
    BY <1>4, NoSessionAssumption DEF RenewalIsLost
<1>5. CASE StartSignIn(t)
    BY <1>5 DEF StartSignIn
<1>6. CASE AdoptSession(t)
    BY <1>6 DEF AdoptSession
<1>7. CASE SignInFails(t)
    BY <1>7 DEF SignInFails
<1>8. CASE Reload(t)
    BY <1>8, NoSessionAssumption DEF Reload, LoadPage
<1>9. CASE StartSignOut(t) \/ OnStorage(t)
    BY <1>9, NoSessionAssumption DEF StartSignOut, OnStorage
<1>10. CASE SettleSignOut(t)
    BY <1>10, NoSessionAssumption DEF SettleSignOut
<1> QED
    BY <1>1, <1>2, <1>3, <1>4, <1>5, <1>6, <1>7, <1>8, <1>9, <1>10
       DEF Renew, SettleRenewal, SignIn, SignOut

(* Every step of the tabs, the server and the provider is one SessionUse allows. *)
LEMMA UseStep ==
    ASSUME TypeOK, SignedInSomewhere, SessionsWereBegun, [Next]_vars
    PROVE  [Use!Next]_(Use!vars)
<1> USE DEF TypeOK
<1>1. CASE UNCHANGED vars
    BY <1>1 DEF vars, Use!vars, Uses, InUse
<1>2. ASSUME NEW s \in Session, GraceEnds(s)
      PROVE  UNCHANGED Use!vars
    BY <1>2 DEF GraceEnds, store, Use!vars, Uses, InUse
<1>3. ASSUME NEW s \in Session, SessionEnds(s)
      PROVE  Use!End(s)
    BY <1>3 DEF SessionEnds, store, Use!End, Uses, InUse
<1>4. ASSUME NEW t \in Tab, ServeRenewal(t)
      PROVE  \E s \in Session : Use!Grant(t, s)
    <2> DEFINE s == renewal[t].cookie.sid
    <2>1. s \in Session /\ life[s] = "live"
        BY <1>4 DEF ServeRenewal, Accepted, Renewal, Cookie, Token
    <2>2. UNCHANGED <<life, held, cred>>
        BY <1>4 DEF ServeRenewal, store
    <2>3. renewal[t].phase = "sent"
        BY <1>4 DEF ServeRenewal
    <2>4. ASSUME NEW u \in Tab, NEW r \in Session
          PROVE  InUse(u, r)' <=> InUse(u, r) \/ (u = t /\ r = s)
        <3>1. /\ renewal'[u].phase = IF u = t THEN "ok" ELSE renewal[u].phase
              /\ renewal'[u].cookie.sid = renewal[u].cookie.sid
            BY <1>4, ServingKeepsTheOthers, ServingKeepsTheSessions
        <3> QED
            BY <2>2, <2>3, <3>1 DEF InUse
    <2>5. Uses' = Uses \cup {<<t, s>>}
        BY <2>1, <2>4 DEF Uses
    <2> QED
        BY <2>1, <2>2, <2>5 DEF Use!Grant
<1>5. ASSUME NEW t \in Tab, ServeSignIn(t)
      PROVE  \E s \in Session : Use!Begin(s)
    <2>1. PICK s \in Session :
              /\ life[s] = "unused"
              /\ life' = [life EXCEPT ![s] = "live"]
              /\ cred' = [cred EXCEPT ![t] = [phase |-> "signedIn", sid |-> s]]
        BY <1>5 DEF ServeSignIn
    <2>2. cred[t].phase = "signIn" /\ UNCHANGED <<held, renewal>>
        BY <1>5 DEF ServeSignIn, store
    <2>3. ASSUME NEW u \in Tab, NEW r \in Session
          PROVE  InUse(u, r)' <=> InUse(u, r) \/ (u = t /\ r = s)
        BY <2>1, <2>2 DEF InUse
    <2>4. Uses' = Uses \cup {<<t, s>>}
        BY <2>3 DEF Uses
    <2> QED
        BY <2>1, <2>4 DEF Use!Begin
<1>6. ASSUME NEW t \in Tab, Callback(t)
      PROVE  [Use!Next]_(Use!vars)
    <2>1. status[t] = "anonymous" /\ held[t] = NoSession
        BY <1>6, NoSessionAssumption DEF Callback
    <2>2. /\ renewal[t].phase = "none"
          /\ renewal' = [renewal EXCEPT ![t] = FirstRenewal(jar')]
          /\ held' = [held EXCEPT ![t] = NoSession]
          /\ UNCHANGED cred
        BY <1>6 DEF Callback, LoadPage
    <2>3. \A u \in Tab, r \in Session : InUse(u, r)' <=> InUse(u, r)
        BY <2>1, <2>2, NoSessionAssumption DEF InUse, FirstRenewal
    <2>4. Uses' = Uses
        BY <2>3 DEF Uses
    <2>5. \/ \E s \in Session : life[s] = "unused" /\ life' = [life EXCEPT ![s] = "live"]
          \/ UNCHANGED life
        BY <1>6 DEF Callback
    <2> QED
        BY <2>4, <2>5 DEF Use!Next, Use!Begin, Use!vars
<1>7. ASSUME NEW t \in Tab, ServeSignOut(t)
      PROVE  [Use!Next]_(Use!vars)
    <2>1. UNCHANGED <<held, renewal>>
        BY <1>7 DEF ServeSignOut, store
    <2>2. cred[t].phase = "signOut"
          /\ cred' = [cred EXCEPT ![t] = [phase |-> "signedOut", sid |-> NoSession]]
        BY <1>7 DEF ServeSignOut
    <2>3. \A u \in Tab, r \in Session : InUse(u, r)' <=> InUse(u, r)
        BY <2>1, <2>2 DEF InUse
    <2>4. Uses' = Uses
        BY <2>3 DEF Uses
    <2>5. CASE UNCHANGED life
        BY <2>4, <2>5 DEF Use!vars
    <2>6. CASE life' = [s \in Session |-> IF s = cred[t].sid THEN "ended" ELSE life[s]]
        <3>1. CASE cred[t].sid \in Session /\ life[cred[t].sid] = "live"
            <4>1. life' = [life EXCEPT ![cred[t].sid] = "ended"]
                BY <2>6, <3>1
            <4>2. Use!End(cred[t].sid)
                BY <2>4, <3>1, <4>1 DEF Use!End
            <4> QED
                BY <3>1, <4>2 DEF Use!Next
        <3>2. CASE ~ (cred[t].sid \in Session /\ life[cred[t].sid] = "live")
            <4>1. cred[t].sid \in Session => life[cred[t].sid] = "ended"
                BY <3>2 DEF SessionsWereBegun, Begun
            <4>2. UNCHANGED life
                BY <2>6, <4>1
            <4> QED
                BY <2>4, <4>2 DEF Use!vars
        <3> QED
            BY <3>1, <3>2
    <2> QED
        BY <1>7, <2>5, <2>6 DEF ServeSignOut
<1>8. ASSUME NEW t \in Tab, Renew(t) \/ SignIn(t) \/ SignOut(t),
             ~ ServeRenewal(t), ~ ServeSignIn(t), ~ Callback(t), ~ ServeSignOut(t)
      PROVE  Use!Drop
    <2>1. UNCHANGED life
        BY <1>8 DEF Renew, TimerFires, TokenNeeded, RefuseRenewal, RenewalUnavailable,
                    SettleRenewal, RenewalSucceeds, RenewalFails, RenewalIsLost, SignIn,
                    StartSignIn, AdoptSession, SignInFails, Reload, SignOut, StartSignOut,
                    SettleSignOut, OnStorage
    <2>2. \A u \in Tab, s \in Session : InUse(u, s)' => InUse(u, s)
        BY <1>8, TabsOnlyDrop
    <2>3. Uses' \subseteq Uses
        BY <2>2 DEF Uses
    <2> QED
        BY <2>1, <2>3 DEF Use!Drop
<1> QED
    BY <1>1, <1>2, <1>3, <1>4, <1>5, <1>6, <1>7, <1>8 DEF Next, Use!Next

(* For any number of tabs, sessions and failures, a session comes into use only *)
(* by a sign-in or a renewal that the provider granted while it lived, and      *)
(* nothing that ended lives again.                                              *)
THEOREM SessionsAreGranted == Spec => SessionsAreUsedAsGranted
<1>1. Init => Use!Init
    BY NoSessionAssumption
       DEF Init, Use!Init, Uses, InUse, FirstRenewal, NoCred, NoCookie
<1>2. IInv /\ [Next]_vars => [Use!Next]_(Use!vars)
    BY UseStep DEF IInv
<1> QED
    BY <1>1, <1>2, InductiveInvariant, PTL DEF Spec, SessionsAreUsedAsGranted, Use!Spec

-----------------------------------------------------------------------------
(* What the tabs inherit from SessionUse *)

UsesTyped ==
    /\ life \in [Session -> {"unused", "live", "ended"}]
    /\ Uses \subseteq Tab \X Session

(* A use begins with its session's grant and a session that ended is not begun  *)
(* again: no step of SessionUse makes an invented use, or a new one of a session *)
(* that ended.                                                                   *)
LEMMA UseKeeps ==
    ASSUME UsesTyped, Use!NoSessionIsInvented, [Use!Next]_(Use!vars)
    PROVE  /\ UsesTyped'
           /\ Use!NoSessionIsInvented'
           /\ \A s \in Session : life[s] = "ended" =>
                 /\ life'[s] = "ended"
                 /\ \A t \in Tab : <<t, s>> \in Uses' => <<t, s>> \in Uses
<1> HIDE DEF Uses
<1> USE DEF UsesTyped, Use!NoSessionIsInvented
<1>1. CASE UNCHANGED Use!vars
    BY <1>1 DEF Use!vars
<1>2. ASSUME NEW s \in Session, Use!Begin(s)
      PROVE  UsesTyped' /\ Use!NoSessionIsInvented'
    <2>1. CASE UNCHANGED Uses
        BY <1>2, <2>1 DEF Use!Begin
    <2>2. ASSUME NEW t \in Tab, Uses' = Uses \cup {<<t, s>>}
          PROVE  UsesTyped' /\ Use!NoSessionIsInvented'
        BY <1>2, <2>2 DEF Use!Begin
    <2> QED
        BY <1>2, <2>1, <2>2 DEF Use!Begin
<1>3. ASSUME NEW s \in Session, Use!End(s)
      PROVE  UsesTyped' /\ Use!NoSessionIsInvented'
    BY <1>3 DEF Use!End
<1>4. ASSUME NEW s \in Session, NEW t \in Tab, Use!Grant(t, s)
      PROVE  UsesTyped' /\ Use!NoSessionIsInvented'
    BY <1>4 DEF Use!Grant
<1>5. CASE Use!Drop
    BY <1>5 DEF Use!Drop
<1>6. ASSUME NEW s \in Session, life[s] = "ended"
      PROVE  /\ life'[s] = "ended"
             /\ \A t \in Tab : <<t, s>> \in Uses' => <<t, s>> \in Uses
    BY <1>6 DEF Use!Next, Use!Begin, Use!End, Use!Grant, Use!Drop, Use!vars
<1> QED
    BY <1>1, <1>2, <1>3, <1>4, <1>5, <1>6 DEF Use!Next

(* No tab holds, and no answer brings, a session that no sign-in began. *)
THEOREM NoTabInventsASession == Spec => []Use!NoSessionIsInvented
<1>1. Use!Init => UsesTyped /\ Use!NoSessionIsInvented
    BY DEF Use!Init, UsesTyped, Use!NoSessionIsInvented
<1>2. UsesTyped /\ Use!NoSessionIsInvented /\ [Use!Next]_(Use!vars)
        => (UsesTyped /\ Use!NoSessionIsInvented)'
    BY UseKeeps
<1> QED
    BY <1>1, <1>2, SessionsAreGranted, PTL DEF SessionsAreUsedAsGranted, Use!Spec

(* A session that ended stays ended, and the tabs that use it, or were granted  *)
(* it before, can only become fewer: what signs a tab in again after the last   *)
(* sign-out is an answer that was under way, never the server.  The safe half   *)
(* of EndedSessionsLeaveTheTabs, with users at work or not.                     *)
THEOREM EndedSessionsAreNotRenewed == Spec => Use!EndedOnlyLinger
<1>1. Use!Init => UsesTyped /\ Use!NoSessionIsInvented
    BY DEF Use!Init, UsesTyped, Use!NoSessionIsInvented
<1>2. UsesTyped /\ Use!NoSessionIsInvented /\ [Use!Next]_(Use!vars)
        => /\ (UsesTyped /\ Use!NoSessionIsInvented)'
           /\ [\A s \in Session : life[s] = "ended" =>
                 /\ life'[s] = "ended"
                 /\ \A t \in Tab : <<t, s>> \in Uses' => <<t, s>> \in Uses]_(Use!vars)
    BY UseKeeps
<1> QED
    BY <1>1, <1>2, SessionsAreGranted, PTL
       DEF SessionsAreUsedAsGranted, Use!Spec, Use!EndedOnlyLinger

-----------------------------------------------------------------------------

\* The jar and every refresh on its way are about session s or none, and no
\* sign-in is under way: where tabs at rest are from a quiet moment on.
OneCookie(s) ==
    /\ jar.sid \in {s, NoSession}
    /\ \A t \in Tab :
          /\ renewal[t].phase # "none" => renewal[t].cookie.sid \in {s, NoSession}
          /\ cred[t].phase \notin {"signIn", "signedIn"}

(* A refresh brings the cookie, and the tab, to no session but the one there is. *)
LEMMA RenewKeepsTheCookie ==
    ASSUME TypeOK, SignedInSomewhere, NEW s, OneCookie(s), NEW t \in Tab, Renew(t)
    PROVE  OneCookie(s)' /\ \A u \in Tab : held'[u] \in {held[u], s, NoSession}
<1> USE DEF OneCookie, TypeOK, Renewal, NoCookie, NoRenewal
<1>1. CASE TimerFires(t) \/ TokenNeeded(t)
    BY <1>1 DEF TimerFires, TokenNeeded, SendRenewal, ClearTimer, store
<1>2. CASE ServeRenewal(t)
    <2>1. jar'.sid = jar.sid
        BY <1>2 DEF ServeRenewal, Aged, Cookie, Token
    <2>2. renewal[t].phase # "none"
        BY <1>2 DEF ServeRenewal
    <2>3. \A u \in Tab \ {t} : renewal'[u].phase = renewal[u].phase
        BY <1>2, ServingKeepsTheOthers
    <2>4. \A u \in Tab : renewal'[u].cookie.sid = renewal[u].cookie.sid
        BY <1>2, ServingKeepsTheSessions
    <2> QED
        BY <1>2, <2>1, <2>2, <2>3, <2>4 DEF ServeRenewal, store
<1>3. CASE RefuseRenewal(t) \/ RenewalUnavailable(t)
    <2>1. \A u \in Tab \ {t} : renewal'[u] = renewal[u]
        BY <1>3 DEF RefuseRenewal, RenewalUnavailable, Answer
    <2>2. renewal'[t].cookie = NoCookie
        BY <1>3 DEF RefuseRenewal, RenewalUnavailable, Answer
    <2>3. UNCHANGED <<jar, held, cred>>
        BY <1>3 DEF RefuseRenewal, RenewalUnavailable, store
    <2> QED
        BY <2>1, <2>2, <2>3
<1>4. CASE RenewalSucceeds(t)
    BY <1>4 DEF RenewalSucceeds, SetAuthenticated, Settled
<1>5. CASE RenewalFails(t)
    BY <1>5 DEF RenewalFails, SetAnonymous, Settled
<1>6. CASE RenewalIsLost(t)
    BY <1>6 DEF RenewalIsLost, SetAnonymous, Settled, store
<1> QED
    BY <1>1, <1>2, <1>3, <1>4, <1>5, <1>6 DEF Renew, SettleRenewal

(* Nor does anything else that a tab does, but a sign-in or a callback. *)
LEMMA CallsKeepTheCookie ==
    ASSUME TypeOK, NEW s, OneCookie(s), NEW t \in Tab,
           SignIn(t) \/ SignOut(t), ~ StartSignIn(t), ~ Callback(t)
    PROVE  OneCookie(s)' /\ \A u \in Tab : held'[u] \in {held[u], s, NoSession}
<1> USE DEF OneCookie, TypeOK, Renewal, Cred, NoCookie, store
<1>1. CASE ServeSignIn(t) \/ AdoptSession(t) \/ SignInFails(t)
    BY <1>1 DEF ServeSignIn, AdoptSession, SignInFails
<1>2. CASE Reload(t)
    BY <1>2 DEF Reload, LoadPage, FirstRenewal, ClearTimer
<1>3. CASE StartSignOut(t)
    <2>1. \A u \in Tab : cred'[u] = IF u = t THEN [phase |-> "signOut", sid |-> jar.sid] ELSE cred[u]
        BY <1>3 DEF StartSignOut
    <2>2. UNCHANGED <<jar, renewal, held>>
        BY <1>3 DEF StartSignOut
    <2> QED
        BY <2>1, <2>2
<1>6. CASE OnStorage(t)
    BY <1>6 DEF OnStorage, SetAnonymous
<1>4. CASE ServeSignOut(t)
    BY <1>4 DEF ServeSignOut
<1>5. CASE SettleSignOut(t)
    BY <1>5 DEF SettleSignOut, SetAnonymous, NoCred
<1> QED
    BY <1>1, <1>2, <1>3, <1>4, <1>5, <1>6 DEF SignIn, SignOut

(* From a moment on at which the cookie and all calls are about one session, and *)
(* until the next sign-in, they stay so, whatever is refreshed, reloaded, signed *)
(* out or lost, and no tab comes to hold another session: two tabs that disagree *)
(* can only come to agree.  The safe half of TabsAgreeWithTheCookie.             *)
THEOREM OneCookieStays ==
    Spec => [][\A s \in Session : OneCookie(s) /\ ~ (\E t \in Tab : StartSignIn(t) \/ Callback(t))
                  => OneCookie(s)' /\ \A u \in Tab : held'[u] \in {held[u], s, NoSession}]_vars
<1>1. ASSUME IInv, Next, NEW s \in Session, OneCookie(s),
             ~ \E t \in Tab : StartSignIn(t) \/ Callback(t)
      PROVE  OneCookie(s)' /\ \A u \in Tab : held'[u] \in {held[u], s, NoSession}
    <2>1. ASSUME NEW t \in Tab, Renew(t)
          PROVE  OneCookie(s)' /\ \A u \in Tab : held'[u] \in {held[u], s, NoSession}
        BY <1>1, <2>1, RenewKeepsTheCookie DEF IInv
    <2>2. ASSUME NEW t \in Tab, SignIn(t) \/ SignOut(t)
          PROVE  OneCookie(s)' /\ \A u \in Tab : held'[u] \in {held[u], s, NoSession}
        BY <1>1, <2>2, CallsKeepTheCookie DEF IInv
    <2>3. ASSUME NEW r \in Session, GraceEnds(r) \/ SessionEnds(r)
          PROVE  OneCookie(s)' /\ \A u \in Tab : held'[u] \in {held[u], s, NoSession}
        <3>1. jar'.sid = jar.sid
            BY <1>1, <2>3 DEF GraceEnds, SessionEnds, Aged, IInv, TypeOK, Cookie, Token, NoCookie
        <3> QED
            BY <1>1, <2>3, <3>1 DEF GraceEnds, SessionEnds, OneCookie, store
    <2> QED
        BY <1>1, <2>1, <2>2, <2>3 DEF Next
<1>2. IInv /\ [Next]_vars
        => [\A s \in Session : OneCookie(s) /\ ~ (\E t \in Tab : StartSignIn(t) \/ Callback(t))
              => OneCookie(s)' /\ \A u \in Tab : held'[u] \in {held[u], s, NoSession}]_vars
    BY <1>1
<1> QED
    BY <1>2, InductiveInvariant, PTL DEF Spec

=============================================================================
