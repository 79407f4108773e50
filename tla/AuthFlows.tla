----------------------------- MODULE AuthFlows -----------------------------
(***************************************************************************)
(* The first-party account flows: the sign-in, sign-up, forgot-password    *)
(* and reset-password pages with the code step, AuthService behind them,   *)
(* and the accounts, codes and reset links of the identity provider.       *)
(*                                                                         *)
(* A handler makes its calls to the provider one by one, and other         *)
(* requests, expiries and a restart come between them.  Each call is       *)
(* answered, refused, turned away for reasons of the platform's own        *)
(* ("quota": 401, 403, 408, 429), or fails ("down": a 5xx, no answer, an   *)
(* answer that cannot be used), and a call that fails may have taken       *)
(* effect.  The browser aborts a request after 20 seconds, and what the    *)
(* handler does from then on is heard by nobody.                           *)
(*                                                                         *)
(* What an answer's notice says on the page, the cookie (WebSession) and   *)
(* the user's row (UserSync) are not part of the state.  The provider      *)
(* requires verified addresses and accounts are not deleted meanwhile.     *)
(***************************************************************************)
EXTENDS Naturals

CONSTANTS
    Tab,          \* the tabs that show these pages
    Request,      \* slots for the requests on their way at one time
    Address,      \* email addresses
    Password,     \* passwords of at least eight characters
    Strong,       \* those the provider finds strong enough
    NoAddress,    \* a page that has no address
    NoPassword,   \* an account made by Google sign-in, or no account
    NoRequest,    \* a mutation that is not pending
    MaxCodes,     \* bound on the codes the provider mails to an address
    MaxLinks      \* bound on the reset links issued for an address

ASSUME StrongAssumption == Strong \subseteq Password
ASSUME NoneAssumption ==
    /\ NoAddress \notin Address
    /\ NoPassword \notin Password
    /\ NoRequest \notin Request
ASSUME BoundsAssumption == MaxCodes \in Nat /\ MaxLinks \in Nat

VARIABLES
    accounts,     \* addresses with an account at the provider
    verified,     \* those whose address is verified
    password,     \* the password of each account
    codes,        \* how many codes were mailed to an address, the newest counts
    liveCodes,    \* addresses whose newest code is neither used nor expired
    links,        \* how many reset links were issued for an address
    liveLinks,    \* the reset links neither used nor expired
    req,          \* requests and their handlers
    jobs,         \* goroutines with a mail to send
    inbox,        \* the reset links whose mail arrived
    tab           \* the page each tab shows

provider == <<accounts, verified, password, codes, liveCodes, links, liveLinks>>
mail == <<jobs, inbox>>
vars == <<provider, req, mail, tab>>

Kind == {"signIn", "signUp", "verify", "resend", "forgot", "reset"}
Call == {"password", "create", "code", "find", "issue", "confirm", "provision"}
Reply == {"session", "pending", "accepted", "unavailable", "weak",
          "invalid_credentials", "invalid_code", "invalid_reset_token"}
Token == {"none", "genuine", "decoy"}
Link == [to : Address, n : 1..MaxLinks]
Mail == [kind : {"exists", "code"}, to : Address, n : {0}]
            \cup [kind : {"link"}, to : Address, n : 1..MaxLinks]

RequestState ==
    [kind : Kind \cup {"none"}, call : Call \cup {"none", "answered"},
     to : Address \cup {NoAddress}, pw : Password \cup {NoPassword},
     number : Nat, token : Token, reply : Reply \cup {"none"}]

TabState ==
    [page : {"signIn", "signUp", "forgot", "reset", "app"},
     step : {"form", "verify", "sent", "expired"},
     to : Address \cup {NoAddress}, link : 0..MaxLinks, token : Token,
     waiting : Request \cup {NoRequest}, resending : Request \cup {NoRequest},
     cooling : BOOLEAN, signedIn : BOOLEAN]

TypeOK ==
    /\ accounts \subseteq Address
    /\ verified \subseteq Address
    /\ password \in [Address -> Password \cup {NoPassword}]
    /\ codes \in [Address -> 0..MaxCodes]
    /\ liveCodes \subseteq Address
    /\ links \in [Address -> 0..MaxLinks]
    /\ liveLinks \subseteq Link
    /\ req \in [Request -> RequestState]
    /\ jobs \subseteq Mail
    /\ inbox \subseteq Link
    /\ tab \in [Tab -> TabState]

-----------------------------------------------------------------------------
(* Pages and requests. *)

Free ==
    [kind |-> "none", call |-> "none", to |-> NoAddress, pw |-> NoPassword,
     number |-> 0, token |-> "none", reply |-> "none"]

Page(p) ==
    [page |-> p, step |-> "form", to |-> NoAddress, link |-> 0,
     token |-> "none", waiting |-> NoRequest, resending |-> NoRequest,
     cooling |-> FALSE, signedIn |-> FALSE]

App == [Page("app") EXCEPT !.signedIn = TRUE]

ResetPage(l, in) ==
    [Page("reset") EXCEPT !.to = l.to, !.link = l.n, !.signedIn = in]

(* Accounts exist before the pages are opened: made by Google sign-in, by *)
(* the hosted pages of before, or by a sign-up that was left unverified.  *)
Init ==
    /\ accounts \in SUBSET Address
    /\ verified \in SUBSET accounts
    /\ password \in [Address -> Password \cup {NoPassword}]
    /\ \A a \in Address :
           /\ a \notin accounts => password[a] = NoPassword
           /\ a \in accounts \ verified => password[a] \in Password
    /\ codes = [a \in Address |-> 0]
    /\ liveCodes = {}
    /\ links = [a \in Address |-> 0]
    /\ liveLinks = {}
    /\ req = [r \in Request |-> Free]
    /\ jobs = {}
    /\ inbox = {}
    /\ tab = [t \in Tab |-> Page("signIn")]

Heard(r) == \E t \in Tab : r \in {tab[t].waiting, tab[t].resending}

NewRequest(kind, call, to, pw, number, token) ==
    [kind |-> kind, call |-> call, to |-> to, pw |-> pw,
     number |-> number, token |-> token, reply |-> "none"]

(* The button is disabled while the form's mutation is pending. *)
Submit(t, new) ==
    /\ tab[t].waiting = NoRequest
    /\ \E r \in Request :
           /\ req[r].kind = "none"
           /\ req' = [req EXCEPT ![r] = new]
           /\ tab' = [tab EXCEPT ![t].waiting = r]
    /\ UNCHANGED <<provider, mail>>

SignIn(t) ==
    /\ tab[t].page = "signIn" /\ tab[t].step = "form"
    /\ \E a \in Address, pw \in Password :
           Submit(t, NewRequest("signIn", "password", a, pw, 0, "none"))

SignUp(t) ==
    /\ tab[t].page = "signUp" /\ tab[t].step = "form"
    /\ \E a \in Address, pw \in Password :
           Submit(t, NewRequest("signUp", "create", a, pw, 0, "none"))

(* The visitor types a code that was mailed, or any other: 0. *)
VerifyEmail(t) ==
    /\ tab[t].step = "verify"
    /\ \E c \in 0..codes[tab[t].to] :
           Submit(t, NewRequest("verify", "code", tab[t].to, NoPassword, c, tab[t].token))

ForgotPassword(t) ==
    /\ tab[t].page = "forgot" /\ tab[t].step = "form"
    /\ \E a \in Address :
           Submit(t, NewRequest("forgot", "issue", a, NoPassword, 0, "none"))

ResetPassword(t) ==
    /\ tab[t].page = "reset" /\ tab[t].step = "form"
    /\ \E pw \in Password :
           Submit(t, NewRequest("reset", "confirm", tab[t].to, pw, tab[t].link, "none"))

(* "Send a new code" has a mutation of its own, and a cooldown. *)
ResendVerification(t) ==
    /\ tab[t].step = "verify"
    /\ ~tab[t].cooling
    /\ tab[t].resending = NoRequest
    /\ \E r \in Request :
           /\ req[r].kind = "none"
           /\ req' = [req EXCEPT ![r] =
                  NewRequest("resend", "find", tab[t].to, NoPassword, 0, "none")]
           /\ tab' = [tab EXCEPT ![t].resending = r]
    /\ UNCHANGED <<provider, mail>>

-----------------------------------------------------------------------------
(* How the service classifies what the provider answered. *)

Faults == {"quota", "down"}

\* Mutant: answers of 401, 403, 408 and 429 are refusals like other 4xx.
AnyFourHundred(v) == v # "down"

ProviderRefusal(v) == v \notin Faults

PasswordAuthError(v) ==
    IF ProviderRefusal(v) THEN "invalid_credentials" ELSE "unavailable"

\* Mutant: whatever fails is the link's fault.
AnyErrorIsTheLink(v) == IF v = "weak" THEN "weak" ELSE "invalid_reset_token"

ResetPasswordError(v) ==
    CASE ~ProviderRefusal(v) -> "unavailable"
      [] v = "weak" -> "weak"
      [] OTHER -> "invalid_reset_token"

VerificationError(v) ==
    IF ProviderRefusal(v) THEN "invalid_code" ELSE "unavailable"

-----------------------------------------------------------------------------
(* The handlers, a call to the provider at a time. *)

Goes(r, call) == req' = [req EXCEPT ![r].call = call]

Answered(r, reply, token) ==
    [Free EXCEPT !.kind = req[r].kind, !.call = "answered", !.to = req[r].to,
                 !.token = token, !.reply = reply]

Answers(r, reply) == req' = [req EXCEPT ![r] = Answered(r, reply, "none")]

AnswersPending(r, token) ==
    req' = [req EXCEPT ![r] = Answered(r, "pending", token)]

SendAsync(j) == jobs' = jobs \cup {j} /\ UNCHANGED inbox

NewCode(a) ==
    /\ codes[a] < MaxCodes
    /\ codes' = [codes EXCEPT ![a] = @ + 1]
    /\ liveCodes' = liveCodes \cup {a}

\* Mutant: a new account is signed in without the second call.
CreatedSignedIn(r) ==
    LET a == req[r].to IN
    /\ req[r].call = "create"
    /\ a \notin accounts
    /\ req[r].pw \in Strong
    /\ accounts' = accounts \cup {a}
    /\ password' = [password EXCEPT ![a] = req[r].pw]
    /\ Goes(r, "provision")
    /\ UNCHANGED <<verified, codes, liveCodes, links, liveLinks, mail, tab>>

(* Of a call that took effect the handler hears, or it fails. *)
Created(r) ==
    LET a == req[r].to IN
    /\ req[r].call = "create"
    /\ a \notin accounts
    /\ req[r].pw \in Strong
    /\ accounts' = accounts \cup {a}
    /\ password' = [password EXCEPT ![a] = req[r].pw]
    /\ \/ Goes(r, "password")
       \/ Answers(r, "unavailable")
    /\ UNCHANGED <<verified, codes, liveCodes, links, liveLinks, mail, tab>>

CreateRefusals(a, pw) ==
    {v \in {"taken", "weak"} : \/ v = "taken" /\ a \in accounts
                               \/ v = "weak" /\ pw \notin Strong}

\* Mutant: the mail leaves before the refusal is told from an outage.
SignUpRefusedMailed(r) ==
    LET a == req[r].to IN
    /\ req[r].call = "create"
    /\ \E v \in CreateRefusals(a, req[r].pw) \cup Faults :
           /\ SendAsync([kind |-> "exists", to |-> a, n |-> 0])
           /\ IF ProviderRefusal(v) THEN AnswersPending(r, "decoy")
                                    ELSE Answers(r, "unavailable")
    /\ UNCHANGED <<provider, tab>>

(* signUpRefusal: any refusal but that of a weak password counts as that *)
(* of a taken address.                                                   *)
SignUpRefused(r) ==
    LET a == req[r].to IN
    /\ req[r].call = "create"
    /\ \E v \in CreateRefusals(a, req[r].pw) \cup Faults :
           \/ /\ ~ProviderRefusal(v)
              /\ Answers(r, "unavailable")
              /\ UNCHANGED mail
           \/ /\ ProviderRefusal(v) /\ v = "weak"
              /\ Answers(r, "weak")
              /\ UNCHANGED mail
           \/ /\ ProviderRefusal(v) /\ v # "weak"
              /\ SendAsync([kind |-> "exists", to |-> a, n |-> 0])
              /\ AnswersPending(r, "decoy")
    /\ UNCHANGED <<provider, tab>>

Matches(a, pw) == a \in accounts /\ password[a] = pw

(* The provider mails a code by itself when it asks to verify the address, *)
(* unless that mail fails.  A reset takes any refusal for an outage.       *)
AskedToVerify(r) ==
    LET a == req[r].to IN
    /\ req[r].call = "password"
    /\ Matches(a, req[r].pw)
    /\ a \notin verified
    /\ \/ NewCode(a)
       \/ UNCHANGED <<codes, liveCodes>>
    /\ \/ /\ req[r].kind # "reset"
          /\ AnswersPending(r, "genuine")
       \/ Answers(r, "unavailable")
    /\ UNCHANGED <<accounts, verified, password, links, liveLinks, mail, tab>>

Authenticated(r) ==
    /\ req[r].call = "password"
    /\ Matches(req[r].to, req[r].pw)
    /\ req[r].to \in verified
    /\ Goes(r, "provision")
    /\ UNCHANGED <<provider, mail, tab>>

PasswordRefused(r) ==
    /\ req[r].call = "password"
    /\ \E v \in Faults \cup
               (IF Matches(req[r].to, req[r].pw) THEN {} ELSE {"mismatch"}) :
           Answers(r, IF req[r].kind = "reset" THEN "unavailable"
                                               ELSE PasswordAuthError(v))
    /\ UNCHANGED <<provider, mail, tab>>

CodeIsLive(a, c) == a \in liveCodes /\ c = codes[a]

CodeAccepted(r) ==
    LET a == req[r].to IN
    /\ req[r].call = "code"
    /\ req[r].token = "genuine"
    /\ CodeIsLive(a, req[r].number)
    /\ verified' = verified \cup {a}
    /\ liveCodes' = liveCodes \ {a}
    /\ \/ Goes(r, "provision")
       \/ Answers(r, "unavailable")
    /\ UNCHANGED <<accounts, password, codes, links, liveLinks, mail, tab>>

CodeRefused(r) ==
    /\ req[r].call = "code"
    /\ \E v \in Faults \cup
               (IF /\ req[r].token = "genuine"
                   /\ CodeIsLive(req[r].to, req[r].number)
                THEN {} ELSE {"wrong"}) :
           Answers(r, VerificationError(v))
    /\ UNCHANGED <<provider, mail, tab>>

(* ResendVerification: the goroutine that asks for the code outlives the *)
(* request.                                                              *)
Found(r) ==
    LET a == req[r].to IN
    /\ req[r].call = "find"
    /\ \/ /\ a \in accounts \ verified
          /\ SendAsync([kind |-> "code", to |-> a, n |-> 0])
       \/ /\ a \notin accounts \ verified
          /\ UNCHANGED mail
    /\ Answers(r, "accepted")
    /\ UNCHANGED <<provider, tab>>

FindFailed(r) ==
    /\ req[r].call = "find"
    /\ Answers(r, "unavailable")
    /\ UNCHANGED <<provider, mail, tab>>

(* CreatePasswordReset answered with a token, or the answer is lost or *)
(* has an expiry that cannot be read.                                  *)
LinkIssued(r) ==
    LET a == req[r].to
        n == links[a] + 1
    IN
    /\ req[r].call = "issue"
    /\ a \in accounts
    /\ n <= MaxLinks
    /\ links' = [links EXCEPT ![a] = n]
    /\ liveLinks' = liveLinks \cup {[to |-> a, n |-> n]}
    /\ \/ /\ SendAsync([kind |-> "link", to |-> a, n |-> n])
          /\ Answers(r, "accepted")
       \/ /\ Answers(r, "unavailable")
          /\ UNCHANGED mail
    /\ UNCHANGED <<accounts, verified, password, codes, liveCodes, tab>>

LinkRefused(r) ==
    /\ req[r].call = "issue"
    /\ \E v \in Faults \cup (IF req[r].to \in accounts THEN {} ELSE {"unknown"}) :
           Answers(r, IF ProviderRefusal(v) THEN "accepted" ELSE "unavailable")
    /\ UNCHANGED <<provider, mail, tab>>

LinkIsLive(a, n) == [to |-> a, n |-> n] \in liveLinks

ResetConfirmed(r) ==
    LET a == req[r].to IN
    /\ req[r].call = "confirm"
    /\ LinkIsLive(a, req[r].number)
    /\ req[r].pw \in Strong
    /\ liveLinks' = liveLinks \ {[to |-> a, n |-> req[r].number]}
    /\ password' = [password EXCEPT ![a] = req[r].pw]
    /\ verified' = verified \cup {a}
    /\ \/ Goes(r, "password")
       \/ Answers(r, "unavailable")
    /\ UNCHANGED <<accounts, codes, liveCodes, links, mail, tab>>

ResetRefused(r) ==
    /\ req[r].call = "confirm"
    /\ \E v \in Faults \cup
               {v \in {"weak", "spent"} :
                   \/ v = "weak" /\ req[r].pw \notin Strong
                   \/ v = "spent" /\ ~LinkIsLive(req[r].to, req[r].number)} :
           Answers(r, ResetPasswordError(v))
    /\ UNCHANGED <<provider, mail, tab>>

(* startSession: the row is stored and the cookie sealed, or not. *)
Provision(r) ==
    /\ req[r].call = "provision"
    /\ \/ Answers(r, "session")
       \/ Answers(r, "unavailable")
    /\ UNCHANGED <<provider, mail, tab>>

(* A restart of the API breaks the requests and forgets the goroutines. *)
Restart ==
    /\ req' = [r \in Request |->
                  IF req[r].call \in Call
                  THEN Answered(r, "unavailable", "none")
                  ELSE req[r]]
    /\ jobs' = {}
    /\ UNCHANGED <<provider, inbox, tab>>

(* The request whose client went away is cancelled between two calls, or *)
(* its answer reaches nobody.                                            *)
Cancel(r) ==
    /\ req[r].kind # "none"
    /\ ~Heard(r)
    /\ req' = [req EXCEPT ![r] = Free]
    /\ UNCHANGED <<provider, mail, tab>>

SendMail(j) ==
    /\ j \in jobs
    /\ j.kind # "code"
    /\ jobs' = jobs \ {j}
    /\ \/ j.kind = "link" /\ inbox' = inbox \cup {[to |-> j.to, n |-> j.n]}
       \/ UNCHANGED inbox
    /\ UNCHANGED <<provider, req, tab>>

(* The provider mails a code unless the address is verified by now. *)
SendVerificationEmail(j) ==
    /\ j \in jobs
    /\ j.kind = "code"
    /\ jobs' = jobs \ {j}
    /\ \/ j.to \notin verified /\ NewCode(j.to)
       \/ UNCHANGED <<codes, liveCodes>>
    /\ UNCHANGED <<accounts, verified, password, links, liveLinks, req,
                   inbox, tab>>

-----------------------------------------------------------------------------
(* What the pages do with an answer. *)

Settle(t, r, state) ==
    /\ req' = [req EXCEPT ![r] = Free]
    /\ tab' = [tab EXCEPT ![t] = state]
    /\ UNCHANGED <<provider, mail>>

Stays(t) == [tab[t] EXCEPT !.waiting = NoRequest]

\* Mutant: the address and the token change places.
VerifyStepSwapped(p, to, token) ==
    [Page(p) EXCEPT !.step = "verify", !.to = token, !.token = to]

VerifyStep(p, to, token) ==
    [Page(p) EXCEPT !.step = "verify", !.to = to, !.token = token]

OnAnswer(t) ==
    LET r == tab[t].waiting
        reply == req[r].reply
    IN
    /\ r # NoRequest
    /\ req[r].call = "answered"
    /\ \/ reply = "session" /\ Settle(t, r, App)
       \/ /\ reply = "pending"
          /\ Settle(t, r, VerifyStep(tab[t].page, req[r].to, req[r].token))
       \/ reply = "accepted" /\ Settle(t, r, [Stays(t) EXCEPT !.step = "sent"])
       \/ /\ reply = "invalid_reset_token"
          /\ Settle(t, r, [Stays(t) EXCEPT !.step = "expired"])
       \/ /\ reply \in {"unavailable", "weak", "invalid_credentials", "invalid_code"}
          /\ Settle(t, r, Stays(t))

OnResent(t) ==
    LET r == tab[t].resending IN
    /\ r # NoRequest
    /\ req[r].call = "answered"
    /\ Settle(t, r, [tab[t] EXCEPT !.resending = NoRequest,
                                   !.cooling = req[r].reply = "accepted"])

(* authTimeoutSignal: after 20 seconds the fetch is aborted and fails. *)
FormTimesOut(t) ==
    /\ tab[t].waiting # NoRequest
    /\ tab' = [tab EXCEPT ![t].waiting = NoRequest]
    /\ UNCHANGED <<provider, mail, req>>

ResendTimesOut(t) ==
    /\ tab[t].resending # NoRequest
    /\ tab' = [tab EXCEPT ![t].resending = NoRequest]
    /\ UNCHANGED <<provider, mail, req>>

CooldownEnds(t) ==
    /\ tab[t].cooling
    /\ tab' = [tab EXCEPT ![t].cooling = FALSE]
    /\ UNCHANGED <<provider, mail, req>>

(* A page that is left no longer hears its answers.  The code step's form *)
(* unmounts, the page that showed it does not.                            *)
Leave(t, state) ==
    /\ tab' = [tab EXCEPT ![t] = state]
    /\ UNCHANGED <<provider, mail, req>>

\* Mutant: the mutations of the code step outlive it.
UseAnotherEmailMounted(t) ==
    /\ tab[t].step = "verify"
    /\ Leave(t, [tab[t] EXCEPT !.step = "form", !.token = "none"])

UseAnotherEmail(t) ==
    /\ tab[t].step = "verify"
    /\ Leave(t, Page(tab[t].page))

FollowLink(t) ==
    \/ /\ tab[t].page = "signIn" /\ tab[t].step = "form"
       /\ \E p \in {"signUp", "forgot"} : Leave(t, Page(p))
    \/ /\ tab[t].page = "signUp" /\ tab[t].step = "form"
       /\ Leave(t, Page("signIn"))
    \/ /\ tab[t].page = "forgot"
       /\ Leave(t, Page("signIn"))
    \/ /\ tab[t].page = "reset" /\ tab[t].step = "expired"
       /\ Leave(t, IF tab[t].signedIn THEN App ELSE Page("forgot"))

SignOut(t) ==
    /\ tab[t].page = "app"
    /\ Leave(t, Page("signIn"))

(* A link in a mail opens the reset page, also in a tab that is signed in. *)
OpenResetLink(t) ==
    \E l \in inbox : Leave(t, ResetPage(l, tab[t].signedIn))

(* A load starts the page afresh: the reset page has taken its token out *)
(* of the address, the others forget their step.                         *)
Reload(t) ==
    /\ tab[t].page # "app"
    /\ Leave(t, IF tab[t].page = "reset"
                THEN [Page("reset") EXCEPT !.step = "expired",
                                           !.signedIn = tab[t].signedIn]
                ELSE Page(tab[t].page))

-----------------------------------------------------------------------------
(* The provider and its users elsewhere. *)

CodeExpires(a) ==
    /\ a \in liveCodes
    /\ liveCodes' = liveCodes \ {a}
    /\ UNCHANGED <<accounts, verified, password, codes, links, liveLinks,
                   req, mail, tab>>

LinkExpires(l) ==
    /\ l \in liveLinks
    /\ liveLinks' = liveLinks \ {l}
    /\ UNCHANGED <<accounts, verified, password, codes, liveCodes, links,
                   req, mail, tab>>

GoogleSignIn(a) ==
    /\ a \notin verified
    /\ accounts' = accounts \cup {a}
    /\ verified' = verified \cup {a}
    /\ UNCHANGED <<password, codes, liveCodes, links, liveLinks,
                   req, mail, tab>>

Visitor(t) ==
    \/ SignIn(t) \/ SignUp(t) \/ VerifyEmail(t) \/ ResendVerification(t)
    \/ ForgotPassword(t) \/ ResetPassword(t)
    \/ UseAnotherEmail(t) \/ FollowLink(t) \/ SignOut(t)
    \/ OpenResetLink(t) \/ Reload(t)

Script(t) ==
    \/ OnAnswer(t) \/ OnResent(t) \/ CooldownEnds(t)
    \/ FormTimesOut(t) \/ ResendTimesOut(t)

Handler(r) ==
    \/ Created(r) \/ SignUpRefused(r)
    \/ AskedToVerify(r) \/ Authenticated(r) \/ PasswordRefused(r)
    \/ CodeAccepted(r) \/ CodeRefused(r)
    \/ Found(r) \/ FindFailed(r)
    \/ LinkIssued(r) \/ LinkRefused(r)
    \/ ResetConfirmed(r) \/ ResetRefused(r)
    \/ Provision(r) \/ Cancel(r)

Goroutine(j) == SendMail(j) \/ SendVerificationEmail(j)

Next ==
    \/ \E t \in Tab : Visitor(t) \/ Script(t)
    \/ \E r \in Request : Handler(r)
    \/ \E j \in jobs : Goroutine(j)
    \/ \E a \in Address : CodeExpires(a) \/ GoogleSignIn(a)
    \/ \E l \in liveLinks : LinkExpires(l)
    \/ Restart

Spec == Init /\ [][Next]_vars

-----------------------------------------------------------------------------
(* The code step, which asks for a code sent to an address, is shown for   *)
(* addresses that have an account only: an outage or a quota of the        *)
(* provider must not be taken for a taken address.                         *)
CodeStepHasAnAccount ==
    \A t \in Tab : tab[t].step = "verify" => tab[t].to \in accounts

(* The mails of the platform go to account holders only: nobody is told   *)
(* of an account, or sent a link, for an address that has none.           *)
MailsOnlyToHolders == \A j \in jobs : j.to \in accounts

Replies(r, reply) ==
    /\ req[r].call # "answered"
    /\ req'[r].call = "answered"
    /\ req'[r].reply = reply

(* A visitor is told that a password, a code or a link is no good only     *)
(* when the provider found it so, whatever else failed on the way.         *)
RefusalsAreTrue ==
    [][\A r \in Request :
        /\ Replies(r, "invalid_credentials") => ~Matches(req[r].to, req[r].pw)
        /\ Replies(r, "invalid_code") =>
               \/ req[r].token # "genuine"
               \/ ~CodeIsLive(req[r].to, req[r].number)
        /\ Replies(r, "invalid_reset_token") => ~LinkIsLive(req[r].to, req[r].number)
        /\ Replies(r, "weak") => req[r].pw \notin Strong]_vars

(* A form acts on the answer to its own last request only: answers to a    *)
(* form that was left, or to a request that timed out, change no page,     *)
(* however late they come and whatever the visitor asked for since.        *)
AnswersFitTheirForm ==
    \A t \in Tab :
        /\ tab[t].waiting # NoRequest =>
               LET q == req[tab[t].waiting] IN
               /\ tab[t].step \in {"form", "verify"}
               /\ q.kind = (IF tab[t].step = "verify" THEN "verify"
                                                      ELSE tab[t].page)
               /\ q.kind \in {"verify", "reset"} => q.to = tab[t].to
        /\ tab[t].resending # NoRequest =>
               LET q == req[tab[t].resending] IN
               /\ tab[t].step = "verify"
               /\ q.kind = "resend"
               /\ q.to = tab[t].to

(* A session starts for the holder of an account whose address is verified *)
(* by then, by whichever of the four ways to one: a decoy's code step, a   *)
(* verification that failed half way and a reset's second sign-in come to  *)
(* none otherwise (SignInWithPassword, SignUp, VerifyEmail, ResetPassword).*)
SessionsAreEarned ==
    \A r \in Request :
        req[r].reply = "session" => req[r].to \in accounts \cap verified

(* A reset link works once: the password of an account that is there       *)
(* changes only when one of its live links is spent, and a link that was   *)
(* spent or expired is never good again, whatever is retried, resent or    *)
(* lost (ResetPassword, ForgotPassword).                                   *)
LinksWorkOnce ==
    [][/\ \A a \in accounts :
              password'[a] # password[a] =>
                  \E l \in liveLinks \ liveLinks' : l.to = a
       /\ \A l \in Link \ liveLinks :
              l.n <= links[l.to] => l \notin liveLinks']_vars

=============================================================================
