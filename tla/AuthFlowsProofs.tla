-------------------------- MODULE AuthFlowsProofs ---------------------------
(***************************************************************************)
(* Proofs about AuthFlows, for any tabs, requests, addresses and           *)
(* passwords.  That the code step has an account follows from what the     *)
(* handlers answer (Fits: a pending answer is about an account holder)     *)
(* and from a form hearing its own answers only, which needs in turn that  *)
(* no request is heard by two forms (OwnRequests).                         *)
(***************************************************************************)
EXTENDS AuthFlows, TLAPS

(* What a handler's step says of its request, A being the account holders. *)
Fits(q, A) ==
    /\ q.call = "create" => q.to \in Address
    /\ q.call = "find" => q.kind = "resend"
    /\ q.call = "issue" => q.kind = "forgot"
    /\ q.call = "confirm" => q.kind = "reset"
    /\ q.reply = "accepted" => q.kind \in {"forgot", "resend"}
    /\ q.reply = "invalid_reset_token" => q.kind = "reset"
    /\ q.reply = "pending" => q.to \in A

RequestsFit == \A r \in Request : Fits(req[r], accounts)

(* What a tab shows fits the requests R it waits for. *)
TabFits(s, R, A) ==
    /\ s.step = "verify" => s.to \in A
    /\ s.waiting # NoRequest =>
           /\ s.step \in {"form", "verify"}
           /\ R[s.waiting].kind = (IF s.step = "verify" THEN "verify" ELSE s.page)
           /\ R[s.waiting].kind \in {"verify", "reset"} => R[s.waiting].to = s.to
    /\ s.resending # NoRequest =>
           /\ s.step = "verify"
           /\ R[s.resending].kind = "resend"
           /\ R[s.resending].to = s.to

TabsFit == \A t \in Tab : TabFits(tab[t], req, accounts)

WaitsFor(t) == {tab[t].waiting, tab[t].resending} \ {NoRequest}

(* No request is heard by the forms of two tabs. *)
OwnRequests == \A t, u \in Tab : t # u => WaitsFor(t) \cap WaitsFor(u) = {}

IInv ==
    /\ TypeOK
    /\ RequestsFit
    /\ TabsFit
    /\ OwnRequests
    /\ MailsOnlyToHolders

-----------------------------------------------------------------------------
(* The service never changes whose request it is and whom it is about. *)
LEMMA ServiceStep ==
    ASSUME IInv,
           req' \in [Request -> RequestState],
           \A r \in Request : /\ req'[r].kind = req[r].kind
                              /\ req'[r].to = req[r].to
                              /\ Fits(req'[r], accounts'),
           accounts \subseteq accounts', tab' = tab
    PROVE  RequestsFit' /\ TabsFit' /\ OwnRequests'
<1>1. RequestsFit'
    BY DEF RequestsFit
<1>2. TabsFit'
    <2> SUFFICES ASSUME NEW t \in Tab
                 PROVE  TabFits(tab[t], req', accounts')
        BY DEF TabsFit
    <2>1. TabFits(tab[t], req, accounts)
        BY DEF IInv, TabsFit
    <2>2. tab[t] \in TabState
        BY DEF IInv, TypeOK
    <2> QED BY <2>1, <2>2 DEF TabFits, TabState
<1>3. OwnRequests'
    BY DEF IInv, OwnRequests, WaitsFor
<1> QED BY <1>1, <1>2, <1>3

(* A step of tab t, which may put a free request to use, or free its own. *)
LEMMA TabStep ==
    ASSUME IInv, NEW t \in Tab,
           req' \in [Request -> RequestState],
           tab' \in [Tab -> TabState],
           \A u \in Tab \ {t} : tab'[u] = tab[u],
           \A u \in Tab \ {t} : \A r \in WaitsFor(u) :
               req'[r] = req[r] /\ r \notin {tab'[t].waiting, tab'[t].resending},
           TabFits(tab'[t], req', accounts), accounts' = accounts
    PROVE  TabsFit' /\ OwnRequests'
<1>1. TabsFit'
    <2> SUFFICES ASSUME NEW u \in Tab
                 PROVE  TabFits(tab'[u], req', accounts)
        BY DEF TabsFit
    <2>1. CASE u = t
        BY <2>1
    <2>2. CASE u # t
        <3>1. TabFits(tab[u], req, accounts)
            BY DEF IInv, TabsFit
        <3>2. tab[u] \in TabState
            BY DEF IInv, TypeOK
        <3> QED BY <2>2, <3>1, <3>2 DEF TabFits, TabState, WaitsFor
    <2> QED BY <2>1, <2>2
<1>2. OwnRequests'
    BY DEF IInv, OwnRequests, WaitsFor
<1> QED BY <1>1, <1>2

(* A form that waits waits for a request of its kind, which is not free. *)
LEMMA WaitedIsUsed ==
    ASSUME IInv, NEW t \in Tab, NEW r \in WaitsFor(t)
    PROVE  r \in Request /\ req[r].kind # "none"
<1>1. TabFits(tab[t], req, accounts) /\ tab[t] \in TabState
    BY DEF IInv, TypeOK, TabsFit
<1> QED BY <1>1 DEF TabFits, TabState, WaitsFor

-----------------------------------------------------------------------------
(* What a handler does to its request. *)
Moves(r) ==
    /\ req' \in [Request -> RequestState]
    /\ \A s \in Request \ {r} : req'[s] = req[s]
    /\ req'[r].kind = req[r].kind
    /\ req'[r].to = req[r].to
    /\ Fits(req'[r], accounts')

LEMMA GoesMoves ==
    ASSUME IInv, NEW r \in Request, NEW call \in {"password", "provision"},
           Goes(r, call), accounts \subseteq accounts'
    PROVE  Moves(r)
<1>1. req \in [Request -> RequestState] /\ Fits(req[r], accounts)
    BY DEF IInv, TypeOK, RequestsFit
<1>2. /\ req' = [req EXCEPT ![r] = [req[r] EXCEPT !.call = call]]
      /\ [req[r] EXCEPT !.call = call] \in RequestState
    BY <1>1 DEF Goes, RequestState, Call
<1> QED BY <1>1, <1>2 DEF Moves, Fits, RequestState

LEMMA AnswersMoves ==
    ASSUME IInv, NEW r \in Request, NEW reply \in Reply, Answers(r, reply),
           reply # "pending",
           reply = "accepted" => req[r].kind \in {"forgot", "resend"},
           reply = "invalid_reset_token" => req[r].kind = "reset"
    PROVE  Moves(r)
<1>1. req \in [Request -> RequestState]
    BY DEF IInv, TypeOK
<1>2. Answered(r, reply, "none") \in RequestState
    BY <1>1 DEF Answered, Free, RequestState, Token
<1> QED BY <1>1, <1>2 DEF Answers, Moves, Fits, Answered, Free

LEMMA AnswersPendingMoves ==
    ASSUME IInv, NEW r \in Request, NEW token \in Token,
           AnswersPending(r, token), req[r].to \in accounts'
    PROVE  Moves(r)
<1>1. req \in [Request -> RequestState]
    BY DEF IInv, TypeOK
<1>2. Answered(r, "pending", token) \in RequestState
    BY <1>1 DEF Answered, Free, RequestState, Reply
<1> QED BY <1>1, <1>2 DEF AnswersPending, Moves, Fits, Answered, Free

(* The rest of the invariant follows from what moved. *)
LEMMA MovesKeeps ==
    ASSUME IInv, NEW r \in Request, Moves(r), accounts \subseteq accounts',
           tab' = tab, TypeOK', MailsOnlyToHolders'
    PROVE  IInv'
<1>1. \A s \in Request : /\ req'[s].kind = req[s].kind /\ req'[s].to = req[s].to
                         /\ Fits(req'[s], accounts')
    BY DEF Moves, IInv, RequestsFit, Fits
<1>2. RequestsFit' /\ TabsFit' /\ OwnRequests'
    BY <1>1, ServiceStep DEF Moves
<1> QED BY <1>2 DEF IInv

(* Faults and refusals change nothing but the request. *)
LEMMA AnswersAlone ==
    ASSUME IInv, NEW r \in Request, Moves(r), UNCHANGED <<provider, mail, tab>>
    PROVE  IInv'
<1>1. TypeOK'
    BY DEF IInv, TypeOK, Moves, provider, mail
<1>2. MailsOnlyToHolders'
    BY DEF IInv, MailsOnlyToHolders, provider, mail
<1> QED BY <1>1, <1>2, MovesKeeps DEF provider

(* Every step of a handler keeps the invariant. *)
LEMMA HandlerKeeps ==
    ASSUME IInv, NEW r \in Request, Handler(r)
    PROVE  IInv'
<1> USE DEF Reply, Token
<1>0. /\ TypeOK /\ MailsOnlyToHolders
      /\ Fits(req[r], accounts)
    BY DEF IInv, RequestsFit
<1>1. CASE Created(r)
    <2>1. accounts \subseteq accounts'
        BY <1>1 DEF Created
    <2>2. Moves(r)
        BY <1>1, <2>1, GoesMoves, AnswersMoves DEF Created
    <2>3. req[r].to \in Address
        BY <1>0, <1>1 DEF Created, Fits
    <2>4. TypeOK'
        BY <1>0, <1>1, <2>2, <2>3, StrongAssumption DEF Created, TypeOK, Moves, mail
    <2>5. MailsOnlyToHolders'
        BY <1>0, <1>1 DEF Created, MailsOnlyToHolders, mail
    <2> QED BY <1>1, <2>1, <2>2, <2>4, <2>5, MovesKeeps DEF Created
<1>2. CASE SignUpRefused(r)
    <2>0. PICK v \in CreateRefusals(req[r].to, req[r].pw) \cup Faults :
              \/ ~ProviderRefusal(v) /\ Answers(r, "unavailable") /\ UNCHANGED mail
              \/ ProviderRefusal(v) /\ v = "weak" /\ Answers(r, "weak") /\ UNCHANGED mail
              \/ /\ ProviderRefusal(v) /\ v # "weak"
                 /\ SendAsync([kind |-> "exists", to |-> req[r].to, n |-> 0])
                 /\ AnswersPending(r, "decoy")
        BY <1>2 DEF SignUpRefused
    <2>1. UNCHANGED <<provider, tab>>
        BY <1>2 DEF SignUpRefused
    <2>2. CASE UNCHANGED mail /\ (Answers(r, "unavailable") \/ Answers(r, "weak"))
        BY <2>1, <2>2, AnswersMoves, AnswersAlone
    <2>3. CASE /\ ProviderRefusal(v) /\ v # "weak"
               /\ SendAsync([kind |-> "exists", to |-> req[r].to, n |-> 0])
               /\ AnswersPending(r, "decoy")
        <3>1. req[r].to \in accounts
            BY <2>3 DEF CreateRefusals, ProviderRefusal
        <3>2. Moves(r)
            BY <2>1, <2>3, <3>1, AnswersPendingMoves DEF provider
        <3>3. [kind |-> "exists", to |-> req[r].to, n |-> 0] \in Mail
            BY <1>0, <3>1, BoundsAssumption DEF TypeOK, Mail
        <3>4. TypeOK'
            BY <1>0, <2>1, <2>3, <3>2, <3>3 DEF TypeOK, Moves, provider, SendAsync
        <3>5. MailsOnlyToHolders'
            BY <1>0, <2>1, <2>3, <3>1 DEF MailsOnlyToHolders, provider, SendAsync
        <3> QED BY <2>1, <3>2, <3>4, <3>5, MovesKeeps DEF provider
    <2> QED BY <2>0, <2>2, <2>3
<1>3. CASE AskedToVerify(r)
    <2>1. accounts' = accounts /\ tab' = tab /\ UNCHANGED mail
        BY <1>3 DEF AskedToVerify
    <2>2. Moves(r)
        BY <1>3, <2>1, AnswersPendingMoves, AnswersMoves DEF AskedToVerify, Matches
    <2>3. req[r].to \in Address
        BY <1>0, <1>3 DEF AskedToVerify, Matches, TypeOK
    <2>4. TypeOK'
        BY <1>0, <1>3, <2>2, <2>3, BoundsAssumption
           DEF AskedToVerify, NewCode, TypeOK, Moves, mail
    <2>5. MailsOnlyToHolders'
        BY <1>0, <2>1 DEF MailsOnlyToHolders, mail
    <2> QED BY <2>1, <2>2, <2>4, <2>5, MovesKeeps
<1>4. CASE Authenticated(r)
    BY <1>4, GoesMoves, AnswersAlone DEF Authenticated, provider
<1>5. CASE PasswordRefused(r)
    <2>1. Answers(r, "unavailable") \/ Answers(r, "invalid_credentials")
        BY <1>5 DEF PasswordRefused, PasswordAuthError
    <2> QED BY <1>5, <2>1, AnswersMoves, AnswersAlone DEF PasswordRefused
<1>6. CASE CodeAccepted(r)
    <2>1. accounts' = accounts /\ tab' = tab /\ UNCHANGED mail
        BY <1>6 DEF CodeAccepted
    <2>2. Moves(r)
        BY <1>6, <2>1, GoesMoves, AnswersMoves DEF CodeAccepted
    <2>3. req[r].to \in Address
        BY <1>0, <1>6 DEF CodeAccepted, CodeIsLive, TypeOK
    <2>4. TypeOK'
        BY <1>0, <1>6, <2>2, <2>3 DEF CodeAccepted, TypeOK, Moves, mail
    <2>5. MailsOnlyToHolders'
        BY <1>0, <2>1 DEF MailsOnlyToHolders, mail
    <2> QED BY <2>1, <2>2, <2>4, <2>5, MovesKeeps
<1>7. CASE CodeRefused(r)
    <2>1. Answers(r, "unavailable") \/ Answers(r, "invalid_code")
        BY <1>7 DEF CodeRefused, VerificationError
    <2> QED BY <1>7, <2>1, AnswersMoves, AnswersAlone DEF CodeRefused
<1>8. CASE Found(r)
    <2>1. UNCHANGED <<provider, tab>>
        BY <1>8 DEF Found
    <2>2. Moves(r)
        BY <1>0, <1>8, AnswersMoves DEF Found, Fits
    <2>3. CASE /\ req[r].to \in accounts \ verified
               /\ SendAsync([kind |-> "code", to |-> req[r].to, n |-> 0])
        <3>1. [kind |-> "code", to |-> req[r].to, n |-> 0] \in Mail
            BY <1>0, <2>3, BoundsAssumption DEF TypeOK, Mail
        <3>2. TypeOK'
            BY <1>0, <2>1, <2>2, <2>3, <3>1 DEF TypeOK, Moves, provider, SendAsync
        <3>3. MailsOnlyToHolders'
            BY <1>0, <2>1, <2>3 DEF MailsOnlyToHolders, provider, SendAsync
        <3> QED BY <2>1, <2>2, <3>2, <3>3, MovesKeeps DEF provider
    <2>4. CASE UNCHANGED mail
        BY <2>1, <2>2, <2>4, AnswersAlone
    <2> QED BY <1>8, <2>3, <2>4 DEF Found
<1>9. CASE FindFailed(r)
    BY <1>9, AnswersMoves, AnswersAlone DEF FindFailed
<1>10. CASE LinkIssued(r)
    <2> DEFINE l == [to |-> req[r].to, n |-> links[req[r].to] + 1]
    <2>1. accounts' = accounts /\ tab' = tab
        BY <1>10 DEF LinkIssued
    <2>2. Moves(r)
        BY <1>0, <1>10, AnswersMoves DEF LinkIssued, Fits
    <2>3. req[r].to \in Address /\ l \in Link
        BY <1>0, <1>10, BoundsAssumption DEF LinkIssued, TypeOK, Link
    <2>4. \/ SendAsync([kind |-> "link", to |-> l.to, n |-> l.n])
          \/ UNCHANGED mail
        BY <1>10 DEF LinkIssued
    <2>5. [kind |-> "link", to |-> l.to, n |-> l.n] \in Mail
        BY <2>3, BoundsAssumption DEF Link, Mail
    <2>6. jobs' \subseteq Mail /\ inbox' \subseteq Link
        BY <1>0, <2>4, <2>5 DEF TypeOK, SendAsync, mail
    <2>7. TypeOK'
        BY <1>0, <1>10, <2>2, <2>3, <2>6, BoundsAssumption
           DEF LinkIssued, TypeOK, Moves, Link
    <2>8. MailsOnlyToHolders'
        BY <1>0, <1>10, <2>1, <2>4 DEF LinkIssued, MailsOnlyToHolders, SendAsync, mail
    <2> QED BY <2>1, <2>2, <2>7, <2>8, MovesKeeps
<1>11. CASE LinkRefused(r)
    <2>1. Answers(r, "accepted") \/ Answers(r, "unavailable")
        BY <1>11 DEF LinkRefused
    <2>2. Moves(r)
        BY <1>0, <1>11, <2>1, AnswersMoves DEF LinkRefused, Fits
    <2> QED BY <1>11, <2>2, AnswersAlone DEF LinkRefused
<1>12. CASE ResetConfirmed(r)
    <2>1. accounts' = accounts /\ tab' = tab /\ UNCHANGED mail
        BY <1>12 DEF ResetConfirmed
    <2>2. Moves(r)
        BY <1>12, <2>1, GoesMoves, AnswersMoves DEF ResetConfirmed
    <2>3. req[r].to \in Address
        BY <1>0, <1>12 DEF ResetConfirmed, LinkIsLive, TypeOK, Link
    <2>4. TypeOK'
        BY <1>0, <1>12, <2>2, <2>3, StrongAssumption DEF ResetConfirmed, TypeOK, Moves, mail
    <2>5. MailsOnlyToHolders'
        BY <1>0, <2>1 DEF MailsOnlyToHolders, mail
    <2> QED BY <2>1, <2>2, <2>4, <2>5, MovesKeeps
<1>13. CASE ResetRefused(r)
    <2>1. \/ Answers(r, "unavailable") \/ Answers(r, "weak")
          \/ Answers(r, "invalid_reset_token")
        BY <1>13 DEF ResetRefused, ResetPasswordError
    <2>2. Moves(r)
        BY <1>0, <1>13, <2>1, AnswersMoves DEF ResetRefused, Fits
    <2> QED BY <1>13, <2>2, AnswersAlone DEF ResetRefused
<1>14. CASE Provision(r)
    <2>1. Moves(r)
        BY <1>14, AnswersMoves DEF Provision
    <2> QED BY <1>14, <2>1, AnswersAlone DEF Provision
<1>15. CASE Cancel(r)
    <2>1. Free \in RequestState
        BY DEF Free, RequestState
    <2>2. req' \in [Request -> RequestState] /\ tab' = tab /\ accounts' = accounts
        BY <1>0, <1>15, <2>1 DEF Cancel, TypeOK, provider
    <2>3. RequestsFit'
        BY <1>15, <2>2 DEF Cancel, IInv, RequestsFit, Fits, Free, TypeOK
    <2>4. TabsFit'
        <3> SUFFICES ASSUME NEW t \in Tab
                     PROVE  TabFits(tab[t], req', accounts)
            BY <2>2 DEF TabsFit
        <3>1. TabFits(tab[t], req, accounts) /\ tab[t] \in TabState
            BY DEF IInv, TabsFit, TypeOK
        <3>2. r \notin {tab[t].waiting, tab[t].resending}
            BY <1>15 DEF Cancel, Heard
        <3> QED BY <1>0, <1>15, <3>1, <3>2 DEF Cancel, TypeOK, TabFits, TabState
    <2>5. OwnRequests'
        BY <2>2 DEF IInv, OwnRequests, WaitsFor
    <2>6. TypeOK'
        BY <1>0, <1>15, <2>2 DEF Cancel, TypeOK, provider, mail
    <2>7. MailsOnlyToHolders'
        BY <1>0, <1>15 DEF Cancel, MailsOnlyToHolders, provider, mail
    <2> QED BY <2>3, <2>4, <2>5, <2>6, <2>7 DEF IInv
<1> QED BY <1>1, <1>2, <1>3, <1>4, <1>5, <1>6, <1>7, <1>8, <1>9, <1>10,
           <1>11, <1>12, <1>13, <1>14, <1>15 DEF Handler

-----------------------------------------------------------------------------
(* A step of a page changes neither the provider nor the mails. *)
LEMMA PageKeeps ==
    ASSUME IInv, NEW t \in Tab, UNCHANGED <<provider, mail>>,
           req' \in [Request -> RequestState],
           tab' \in [Tab -> TabState],
           \A u \in Tab \ {t} : tab'[u] = tab[u],
           \A u \in Tab \ {t} : \A r \in WaitsFor(u) :
               req'[r] = req[r] /\ r \notin {tab'[t].waiting, tab'[t].resending},
           TabFits(tab'[t], req', accounts), RequestsFit'
    PROVE  IInv'
<1>1. TabsFit' /\ OwnRequests'
    BY TabStep DEF provider
<1>2. TypeOK' /\ MailsOnlyToHolders'
    BY DEF IInv, TypeOK, MailsOnlyToHolders, provider, mail
<1> QED BY <1>1, <1>2 DEF IInv

(* The visitor submits a form, to which a free request goes. *)
LEMMA SubmitKeeps ==
    ASSUME IInv, NEW t \in Tab, NEW r \in Request, NEW q \in RequestState,
           req[r].kind = "none", req' = [req EXCEPT ![r] = q],
           \/ /\ tab' = [tab EXCEPT ![t].waiting = r]
              /\ tab[t].step \in {"form", "verify"}
              /\ q.kind = (IF tab[t].step = "verify" THEN "verify" ELSE tab[t].page)
              /\ q.kind \in {"verify", "reset"} => q.to = tab[t].to
           \/ /\ tab' = [tab EXCEPT ![t].resending = r]
              /\ tab[t].step = "verify"
              /\ q.kind = "resend"
              /\ q.to = tab[t].to,
           Fits(q, accounts),
           UNCHANGED <<provider, mail>>
    PROVE  IInv'
<1>1. /\ req \in [Request -> RequestState] /\ tab \in [Tab -> TabState]
      /\ TabFits(tab[t], req, accounts)
    BY DEF IInv, TypeOK, TabsFit
<1>3. req' \in [Request -> RequestState]
    BY <1>1
<1>4. tab' \in [Tab -> TabState] /\ \A u \in Tab \ {t} : tab'[u] = tab[u]
    BY <1>1 DEF TabState
<1>5. \A u \in Tab : r \notin WaitsFor(u)
    BY WaitedIsUsed
<1>6. RequestsFit'
    BY <1>1, <1>3 DEF IInv, RequestsFit, provider
<1>7. \A u \in Tab \ {t} : \A p \in WaitsFor(u) :
          req'[p] = req[p] /\ p \notin {tab'[t].waiting, tab'[t].resending}
    <2> SUFFICES ASSUME NEW u \in Tab \ {t}, NEW p \in WaitsFor(u)
                 PROVE  req'[p] = req[p] /\ p \notin {tab'[t].waiting, tab'[t].resending}
        OBVIOUS
    <2>1. p \in Request /\ p # r
        BY <1>5, WaitedIsUsed
    <2>2. p \notin WaitsFor(t)
        BY DEF IInv, OwnRequests
    <2>3. {tab'[t].waiting, tab'[t].resending} \subseteq {r, tab[t].waiting, tab[t].resending}
        BY <1>1 DEF TabState
    <2> QED BY <1>1, <2>1, <2>2, <2>3, NoneAssumption DEF WaitsFor
<1>8. TabFits(tab'[t], req', accounts)
    BY <1>1, <1>3, <1>5, NoneAssumption DEF TabFits, TabState, WaitsFor
<1> QED BY <1>3, <1>4, <1>6, <1>7, <1>8, PageKeeps

(* A page is left, or a button comes back: the requests stay as they are. *)
LEMMA LeaveKeeps ==
    ASSUME IInv, NEW t \in Tab, NEW s \in TabState,
           tab' = [tab EXCEPT ![t] = s],
           s.waiting \in {tab[t].waiting, NoRequest},
           s.resending \in {tab[t].resending, NoRequest},
           TabFits(s, req, accounts),
           UNCHANGED <<provider, mail, req>>
    PROVE  IInv'
<1>1. req \in [Request -> RequestState] /\ tab \in [Tab -> TabState] /\ RequestsFit
    BY DEF IInv, TypeOK
<1>2. RequestsFit'
    BY <1>1 DEF RequestsFit, provider
<1>3. \A u \in Tab \ {t} : \A r \in WaitsFor(u) :
          req'[r] = req[r] /\ r \notin {tab'[t].waiting, tab'[t].resending}
    BY <1>1 DEF IInv, OwnRequests, WaitsFor
<1> QED BY <1>1, <1>2, <1>3, PageKeeps

(* A form deals with its answer, and the request is over. *)
LEMMA SettleKeeps ==
    ASSUME IInv, NEW t \in Tab, NEW r \in WaitsFor(t), NEW s \in TabState,
           Settle(t, r, s),
           s.waiting \in {tab[t].waiting, NoRequest} \ {r},
           s.resending \in {tab[t].resending, NoRequest} \ {r},
           TabFits(s, req, accounts)
    PROVE  IInv'
<1>1. req \in [Request -> RequestState] /\ tab \in [Tab -> TabState] /\ RequestsFit
    BY DEF IInv, TypeOK
<1>2. r \in Request
    BY WaitedIsUsed
<1>3. /\ req' = [req EXCEPT ![r] = Free] /\ tab' = [tab EXCEPT ![t] = s]
      /\ UNCHANGED <<provider, mail>>
    BY DEF Settle
<1>4. req' \in [Request -> RequestState]
    BY <1>1, <1>3 DEF Free, RequestState, Token
<1>5. RequestsFit'
    BY <1>1, <1>3 DEF RequestsFit, Fits, Free, provider
<1>6. \A u \in Tab \ {t} : \A q \in WaitsFor(u) :
          req'[q] = req[q] /\ q \notin {tab'[t].waiting, tab'[t].resending}
    <2> SUFFICES ASSUME NEW u \in Tab \ {t}, NEW q \in WaitsFor(u)
                 PROVE  req'[q] = req[q] /\ q \notin {tab'[t].waiting, tab'[t].resending}
        OBVIOUS
    <2>1. q \in Request /\ q \notin WaitsFor(t)
        BY WaitedIsUsed DEF IInv, OwnRequests
    <2> QED BY <1>1, <1>3, <2>1, NoneAssumption DEF WaitsFor
<1>7. TabFits(tab'[t], req', accounts)
    BY <1>1, <1>2, <1>3 DEF TabFits, TabState
<1> QED BY <1>1, <1>3, <1>4, <1>5, <1>6, <1>7, PageKeeps

-----------------------------------------------------------------------------
(* A page that is opened waits for nothing. *)
LEMMA PageIsIdle ==
    ASSUME NEW p \in {"signIn", "signUp", "forgot", "reset", "app"}
    PROVE  /\ Page(p) \in TabState
           /\ Page(p).step = "form"
           /\ Page(p).waiting = NoRequest /\ Page(p).resending = NoRequest
BY BoundsAssumption DEF Page, TabState, Token

(* So does the app. *)
LEMMA AppIsIdle ==
    /\ App \in TabState /\ App.step = "form"
    /\ App.waiting = NoRequest /\ App.resending = NoRequest
BY PageIsIdle DEF App, TabState

(* And a reset page opened by a link. *)
LEMMA ResetPageIsIdle ==
    ASSUME NEW in \in BOOLEAN, NEW l \in Link
    PROVE  /\ ResetPage(l, in) \in TabState /\ ResetPage(l, in).step = "form"
           /\ ResetPage(l, in).waiting = NoRequest
           /\ ResetPage(l, in).resending = NoRequest
<1>1. l.to \in Address /\ l.n \in 0..MaxLinks
    BY BoundsAssumption DEF Link
<1> QED BY <1>1, PageIsIdle DEF ResetPage, TabState

LEMMA VisitorKeeps ==
    ASSUME IInv, NEW t \in Tab, Visitor(t)
    PROVE  IInv'
<1> DEFINE s == tab[t]
<1>1. /\ req \in [Request -> RequestState] /\ tab \in [Tab -> TabState]
      /\ s \in TabState /\ TabFits(s, req, accounts)
    BY DEF IInv, TypeOK, TabsFit
<1>2. \A p \in {"signIn", "signUp", "forgot", "reset"} :
          Page(p) \in TabState /\ TabFits(Page(p), req, accounts)
    BY BoundsAssumption, NoneAssumption DEF Page, TabState, Token, TabFits
<1>3. App \in TabState /\ TabFits(App, req, accounts)
    BY AppIsIdle DEF TabFits
<1>4. ASSUME NEW p \in {Page("signIn"), Page("signUp"), Page("forgot"), App}, Leave(t, p)
      PROVE  IInv'
    <2>1. p \in TabState /\ TabFits(p, req, accounts)
        BY <1>2, <1>3, <1>4
    <2>2. p.waiting = NoRequest /\ p.resending = NoRequest
        BY <1>4, PageIsIdle, AppIsIdle
    <2> QED BY <1>4, <2>1, <2>2, LeaveKeeps DEF Leave
<1>5. CASE SignIn(t)
    <2>1. PICK a \in Address, pw \in Password : Submit(t, NewRequest("signIn", "password", a, pw, 0, "none"))
        BY <1>5 DEF SignIn
    <2> DEFINE q == NewRequest("signIn", "password", a, pw, 0, "none")
    <2>2. PICK r \in Request :
              /\ req[r].kind = "none"
              /\ req' = [req EXCEPT ![r] = q]
              /\ tab' = [tab EXCEPT ![t].waiting = r]
        BY <2>1 DEF Submit
    <2>3. s.step = "form" /\ s.page = "signIn"
        BY <1>1, <1>5, BoundsAssumption DEF SignIn
    <2>4. q \in RequestState
        BY <2>3 DEF NewRequest, RequestState, Kind, Call, Token
    <2>5. q.kind = "signIn" /\ q.to = a /\ Fits(q, accounts)
        BY <2>3 DEF NewRequest, Fits
    <2>6. UNCHANGED <<provider, mail>>
        BY <2>1 DEF Submit
    <2> HIDE DEF q
    <2> QED BY <1>5, <2>2, <2>3, <2>4, <2>5, <2>6, SubmitKeeps DEF SignIn
<1>6. CASE SignUp(t)
    <2>1. PICK a \in Address, pw \in Password : Submit(t, NewRequest("signUp", "create", a, pw, 0, "none"))
        BY <1>6 DEF SignUp
    <2> DEFINE q == NewRequest("signUp", "create", a, pw, 0, "none")
    <2>2. PICK r \in Request :
              /\ req[r].kind = "none"
              /\ req' = [req EXCEPT ![r] = q]
              /\ tab' = [tab EXCEPT ![t].waiting = r]
        BY <2>1 DEF Submit
    <2>3. s.step = "form" /\ s.page = "signUp"
        BY <1>1, <1>6, BoundsAssumption DEF SignUp
    <2>4. q \in RequestState
        BY <2>3 DEF NewRequest, RequestState, Kind, Call, Token
    <2>5. q.kind = "signUp" /\ q.to = a /\ Fits(q, accounts)
        BY <2>3 DEF NewRequest, Fits
    <2>6. UNCHANGED <<provider, mail>>
        BY <2>1 DEF Submit
    <2> HIDE DEF q
    <2> QED BY <1>6, <2>2, <2>3, <2>4, <2>5, <2>6, SubmitKeeps DEF SignUp
<1>7. CASE VerifyEmail(t)
    <2>1. PICK c \in 0..codes[s.to] : Submit(t, NewRequest("verify", "code", s.to, NoPassword, c, s.token))
        BY <1>7 DEF VerifyEmail
    <2> DEFINE q == NewRequest("verify", "code", s.to, NoPassword, c, s.token)
    <2>2. PICK r \in Request :
              /\ req[r].kind = "none"
              /\ req' = [req EXCEPT ![r] = q]
              /\ tab' = [tab EXCEPT ![t].waiting = r]
        BY <2>1 DEF Submit
    <2>3. s.step = "verify" /\ s.to \in Address /\ c \in Nat /\ s.token \in Token
        BY <1>1, <1>7, BoundsAssumption DEF VerifyEmail, TabFits, IInv, TypeOK, TabState
    <2>4. q \in RequestState
        BY <2>3 DEF NewRequest, RequestState, Kind, Call, Token
    <2>5. q.kind = "verify" /\ q.to = s.to /\ Fits(q, accounts)
        BY <2>3 DEF NewRequest, Fits
    <2>6. UNCHANGED <<provider, mail>>
        BY <2>1 DEF Submit
    <2> HIDE DEF q
    <2> QED BY <1>7, <2>2, <2>3, <2>4, <2>5, <2>6, SubmitKeeps DEF VerifyEmail
<1>8. CASE ForgotPassword(t)
    <2>1. PICK a \in Address : Submit(t, NewRequest("forgot", "issue", a, NoPassword, 0, "none"))
        BY <1>8 DEF ForgotPassword
    <2> DEFINE q == NewRequest("forgot", "issue", a, NoPassword, 0, "none")
    <2>2. PICK r \in Request :
              /\ req[r].kind = "none"
              /\ req' = [req EXCEPT ![r] = q]
              /\ tab' = [tab EXCEPT ![t].waiting = r]
        BY <2>1 DEF Submit
    <2>3. s.step = "form" /\ s.page = "forgot"
        BY <1>1, <1>8, BoundsAssumption DEF ForgotPassword
    <2>4. q \in RequestState
        BY <2>3 DEF NewRequest, RequestState, Kind, Call, Token
    <2>5. q.kind = "forgot" /\ q.to = a /\ Fits(q, accounts)
        BY <2>3 DEF NewRequest, Fits
    <2>6. UNCHANGED <<provider, mail>>
        BY <2>1 DEF Submit
    <2> HIDE DEF q
    <2> QED BY <1>8, <2>2, <2>3, <2>4, <2>5, <2>6, SubmitKeeps DEF ForgotPassword
<1>9. CASE ResetPassword(t)
    <2>1. PICK pw \in Password : Submit(t, NewRequest("reset", "confirm", s.to, pw, s.link, "none"))
        BY <1>9 DEF ResetPassword
    <2> DEFINE q == NewRequest("reset", "confirm", s.to, pw, s.link, "none")
    <2>2. PICK r \in Request :
              /\ req[r].kind = "none"
              /\ req' = [req EXCEPT ![r] = q]
              /\ tab' = [tab EXCEPT ![t].waiting = r]
        BY <2>1 DEF Submit
    <2>3. s.step = "form" /\ s.page = "reset" /\ s.to \in Address \cup {NoAddress} /\ s.link \in Nat
        BY <1>1, <1>9, BoundsAssumption DEF ResetPassword, TabState
    <2>4. q \in RequestState
        BY <2>3 DEF NewRequest, RequestState, Kind, Call, Token
    <2>5. q.kind = "reset" /\ q.to = s.to /\ Fits(q, accounts)
        BY <2>3 DEF NewRequest, Fits
    <2>6. UNCHANGED <<provider, mail>>
        BY <2>1 DEF Submit
    <2> HIDE DEF q
    <2> QED BY <1>9, <2>2, <2>3, <2>4, <2>5, <2>6, SubmitKeeps DEF ResetPassword
<1>10. CASE ResendVerification(t)
    <2> DEFINE q == NewRequest("resend", "find", s.to, NoPassword, 0, "none")
    <2>2. PICK r \in Request :
              /\ req[r].kind = "none"
              /\ req' = [req EXCEPT ![r] = q]
              /\ tab' = [tab EXCEPT ![t].resending = r]
        BY <1>10 DEF ResendVerification
    <2>3. s.step = "verify" /\ s.to \in Address \cup {NoAddress}
        BY <1>1, <1>10, BoundsAssumption DEF ResendVerification, TabState
    <2>4. q \in RequestState
        BY <2>3 DEF NewRequest, RequestState, Kind, Call, Token
    <2>5. q.kind = "resend" /\ q.to = s.to /\ Fits(q, accounts)
        BY <2>3 DEF NewRequest, Fits
    <2>6. UNCHANGED <<provider, mail>>
        BY <1>10 DEF ResendVerification
    <2> HIDE DEF q
    <2> QED BY <1>10, <2>2, <2>3, <2>4, <2>5, <2>6, SubmitKeeps DEF ResendVerification
<1>11. CASE UseAnotherEmail(t)
    <2>1. s.page \in {"signIn", "signUp", "forgot", "reset", "app"}
        BY <1>1 DEF TabState
    <2>2. Page(s.page) \in TabState /\ TabFits(Page(s.page), req, accounts)
        BY <2>1, BoundsAssumption, NoneAssumption DEF Page, TabState, Token, TabFits
    <2> QED BY <1>11, <2>2, LeaveKeeps DEF UseAnotherEmail, Leave, Page
<1>12. CASE FollowLink(t)
    BY <1>4, <1>12 DEF FollowLink
<1>13. CASE SignOut(t)
    BY <1>4, <1>13 DEF SignOut
<1>14. CASE OpenResetLink(t)
    <2>1. PICK l \in inbox : Leave(t, ResetPage(l, s.signedIn))
        BY <1>14 DEF OpenResetLink
    <2>2. l \in Link
        BY DEF IInv, TypeOK
    <2>3. s.signedIn \in BOOLEAN
        BY <1>1 DEF TabState
    <2> DEFINE p == ResetPage(l, s.signedIn)
    <2>4. /\ p \in TabState /\ p.step = "form"
          /\ p.waiting = NoRequest /\ p.resending = NoRequest
        BY <2>2, <2>3, ResetPageIsIdle
    <2>5. TabFits(p, req, accounts)
        BY <2>4 DEF TabFits
    <2> HIDE DEF p
    <2> QED BY <2>1, <2>4, <2>5, LeaveKeeps DEF Leave, p
<1>15. CASE Reload(t)
    <2> DEFINE p == [Page("reset") EXCEPT !.step = "expired", !.signedIn = s.signedIn]
    <2>1. /\ p \in TabState
          /\ p.step = "expired" /\ p.waiting = NoRequest /\ p.resending = NoRequest
        BY <1>1, PageIsIdle DEF TabState
    <2>2. CASE Leave(t, p)
        <3>1. TabFits(p, req, accounts)
            BY <2>1 DEF TabFits
        <3> HIDE DEF p
        <3> QED BY <2>1, <2>2, <3>1, LeaveKeeps DEF Leave
    <2>3. CASE s.page \in {"signIn", "signUp", "forgot"} /\ Leave(t, Page(s.page))
        BY <1>4, <2>3
    <2> QED BY <1>1, <1>15, <2>2, <2>3 DEF Reload, TabState
<1> QED BY <1>5, <1>6, <1>7, <1>8, <1>9, <1>10, <1>11, <1>12, <1>13, <1>14, <1>15
           DEF Visitor

LEMMA ScriptKeeps ==
    ASSUME IInv, NEW t \in Tab, Script(t)
    PROVE  IInv'
<1> DEFINE s == tab[t]
           r == s.waiting
<1>1. /\ req \in [Request -> RequestState] /\ tab \in [Tab -> TabState]
      /\ s \in TabState /\ TabFits(s, req, accounts)
    BY DEF IInv, TypeOK, TabsFit
<1>2. CASE OnAnswer(t)
    <2>1. /\ r \in Request /\ r \in WaitsFor(t) /\ Fits(req[r], accounts)
        BY <1>1, <1>2 DEF OnAnswer, WaitsFor, TabState, IInv, RequestsFit
    <2>2. s.resending # r
        BY <1>1, <2>1 DEF TabFits, TabState, WaitsFor
    <2>3. Stays(t) \in TabState /\ TabFits(Stays(t), req, accounts)
        BY <1>1 DEF Stays, TabState, TabFits
    <2>4. CASE Settle(t, r, App)
        <3>1. TabFits(App, req, accounts)
            BY AppIsIdle DEF TabFits
        <3> QED BY <2>1, <2>4, <3>1, AppIsIdle, SettleKeeps DEF WaitsFor
    <2>5. CASE /\ req[r].reply = "pending"
               /\ Settle(t, r, VerifyStep(s.page, req[r].to, req[r].token))
        <3> DEFINE v == VerifyStep(s.page, req[r].to, req[r].token)
        <3>1. req[r].to \in accounts /\ req[r] \in RequestState
            BY <1>1, <2>1, <2>5 DEF Fits
        <3>2. s.page \in {"signIn", "signUp", "forgot", "reset", "app"}
            BY <1>1 DEF TabState
        <3>3. /\ v \in TabState /\ v.step = "verify" /\ v.to = req[r].to
              /\ v.waiting = NoRequest /\ v.resending = NoRequest
            <4>1. req[r].to \in Address \cup {NoAddress} /\ req[r].token \in Token
                BY <3>1 DEF RequestState
            <4> DEFINE p == Page(s.page)
            <4>2. p \in TabState /\ p.waiting = NoRequest /\ p.resending = NoRequest
                BY <3>2, PageIsIdle
            <4>3. v = [p EXCEPT !.step = "verify", !.to = req[r].to,
                                !.token = req[r].token]
                BY DEF VerifyStep
            <4> HIDE DEF p, v
            <4> QED BY <4>1, <4>2, <4>3 DEF TabState
        <3>4. TabFits(v, req, accounts)
            BY <3>1, <3>3 DEF TabFits
        <3> HIDE DEF v
        <3> QED BY <2>1, <2>5, <3>3, <3>4, SettleKeeps DEF WaitsFor, v
    <2>6. CASE /\ req[r].reply \in {"accepted", "invalid_reset_token"}
               /\ \E step \in {"sent", "expired"} :
                      Settle(t, r, [Stays(t) EXCEPT !.step = step])
        <3>1. PICK step \in {"sent", "expired"} :
                  Settle(t, r, [Stays(t) EXCEPT !.step = step])
            BY <2>6
        <3>2. s.step # "verify" /\ s.resending = NoRequest
            BY <1>1, <2>1, <2>6 DEF Fits, TabFits, TabState, WaitsFor
        <3>3. /\ [Stays(t) EXCEPT !.step = step] \in TabState
              /\ TabFits([Stays(t) EXCEPT !.step = step], req, accounts)
            BY <1>1, <3>2 DEF Stays, TabState, TabFits
        <3> QED BY <1>1, <2>1, <3>1, <3>2, <3>3, SettleKeeps DEF Stays, WaitsFor, TabState
    <2>7. CASE Settle(t, r, Stays(t))
        BY <1>1, <2>1, <2>2, <2>3, <2>7, SettleKeeps DEF Stays, WaitsFor, TabState
    <2> QED BY <1>2, <2>4, <2>5, <2>6, <2>7 DEF OnAnswer
<1>3. CASE OnResent(t)
    <2> DEFINE q == s.resending
               n == [s EXCEPT !.resending = NoRequest,
                              !.cooling = req[q].reply = "accepted"]
    <2>1. q \in WaitsFor(t) /\ Settle(t, q, n)
        BY <1>3 DEF OnResent, WaitsFor
    <2>2. s.waiting # q
        BY <1>1, <2>1 DEF TabFits, TabState, WaitsFor
    <2>3. n \in TabState /\ TabFits(n, req, accounts)
        BY <1>1 DEF TabState, TabFits
    <2>4. n.waiting = s.waiting /\ n.resending = NoRequest
        BY <1>1 DEF TabState
    <2> QED BY <2>1, <2>2, <2>3, <2>4, SettleKeeps DEF WaitsFor
<1>4. CASE CooldownEnds(t)
    <2>1. /\ [s EXCEPT !.cooling = FALSE] \in TabState
          /\ TabFits([s EXCEPT !.cooling = FALSE], req, accounts)
        BY <1>1 DEF TabState, TabFits
    <2> QED BY <1>1, <1>4, <2>1, LeaveKeeps DEF CooldownEnds, TabState
<1>5. CASE FormTimesOut(t)
    <2>1. /\ [s EXCEPT !.waiting = NoRequest] \in TabState
          /\ TabFits([s EXCEPT !.waiting = NoRequest], req, accounts)
        BY <1>1 DEF TabState, TabFits
    <2> QED BY <1>1, <1>5, <2>1, LeaveKeeps DEF FormTimesOut, TabState
<1>6. CASE ResendTimesOut(t)
    <2>1. /\ [s EXCEPT !.resending = NoRequest] \in TabState
          /\ TabFits([s EXCEPT !.resending = NoRequest], req, accounts)
        BY <1>1 DEF TabState, TabFits
    <2> QED BY <1>1, <1>6, <2>1, LeaveKeeps DEF ResendTimesOut, TabState
<1> QED BY <1>2, <1>3, <1>4, <1>5, <1>6 DEF Script

(* The provider, a restart, and the goroutines. *)
LEMMA OthersKeep ==
    ASSUME IInv,
           \/ \E j \in jobs : Goroutine(j)
           \/ \E a \in Address : CodeExpires(a) \/ GoogleSignIn(a)
           \/ \E l \in liveLinks : LinkExpires(l)
           \/ Restart
           \/ UNCHANGED vars
    PROVE  IInv'
<1>1. /\ req \in [Request -> RequestState] /\ TypeOK /\ MailsOnlyToHolders
      /\ \A r \in Request : Fits(req[r], accounts)
    BY DEF IInv, TypeOK, RequestsFit
<1>2. CASE Restart
    <2>1. \A r \in Request :
              /\ req'[r] \in RequestState
              /\ req'[r].kind = req[r].kind /\ req'[r].to = req[r].to
              /\ Fits(req'[r], accounts')
        <3> SUFFICES ASSUME NEW r \in Request
                     PROVE  /\ req'[r] \in RequestState
                            /\ req'[r].kind = req[r].kind /\ req'[r].to = req[r].to
                            /\ Fits(req'[r], accounts')
            OBVIOUS
        <3>1. accounts' = accounts
            BY <1>2 DEF Restart, provider
        <3>2. CASE req'[r] = req[r]
            BY <1>1, <3>1, <3>2
        <3>3. CASE req'[r] = Answered(r, "unavailable", "none")
            <4>1. Answered(r, "unavailable", "none") \in RequestState
                BY <1>1 DEF Answered, Free, RequestState, Reply, Token
            <4>2. /\ req'[r].kind = req[r].kind /\ req'[r].to = req[r].to
                  /\ req'[r].call = "answered" /\ req'[r].reply = "unavailable"
                BY <3>3 DEF Answered, Free
            <4> QED BY <3>3, <4>1, <4>2 DEF Fits
        <3> QED BY <1>2, <3>2, <3>3 DEF Restart
    <2>2. req' \in [Request -> RequestState]
        BY <1>2, <2>1 DEF Restart
    <2>3. RequestsFit' /\ TabsFit' /\ OwnRequests'
        BY <1>2, <2>1, <2>2, ServiceStep DEF Restart, provider
    <2>4. TypeOK' /\ MailsOnlyToHolders'
        BY <1>1, <1>2, <2>2 DEF Restart, TypeOK, MailsOnlyToHolders, provider
    <2> QED BY <2>3, <2>4 DEF IInv
<1>3. CASE UNCHANGED <<req, tab>> /\ accounts \subseteq accounts'
           /\ TypeOK' /\ MailsOnlyToHolders'
    <2>1. \A r \in Request : Fits(req[r], accounts')
        BY <1>1, <1>3 DEF Fits
    <2>2. RequestsFit' /\ TabsFit' /\ OwnRequests'
        BY <1>1, <1>3, <2>1, ServiceStep
    <2> QED BY <1>3, <2>2 DEF IInv
<1>4. CASE \E j \in jobs : Goroutine(j)
    <2>1. PICK j \in jobs : SendMail(j) \/ SendVerificationEmail(j)
        BY <1>4 DEF Goroutine
    <2>2. j \in Mail
        BY <1>1 DEF TypeOK
    <2>3. CASE SendMail(j)
        <3>1. j.kind = "link" => [to |-> j.to, n |-> j.n] \in Link
            BY <2>2, BoundsAssumption DEF Mail, Link
        <3>2. jobs' \subseteq jobs /\ inbox' \subseteq Link
            BY <1>1, <2>3, <3>1 DEF SendMail, TypeOK
        <3>3. UNCHANGED <<provider, req, tab>>
            BY <2>3 DEF SendMail
        <3>4. TypeOK' /\ MailsOnlyToHolders'
            BY <1>1, <3>2, <3>3 DEF TypeOK, MailsOnlyToHolders, provider
        <3> QED BY <1>3, <3>3, <3>4 DEF provider
    <2>4. CASE SendVerificationEmail(j)
        <3>1. j.to \in Address
            BY <2>2, BoundsAssumption DEF Mail
        <3> QED BY <1>1, <1>3, <2>4, <3>1, BoundsAssumption
                DEF SendVerificationEmail, NewCode, TypeOK, MailsOnlyToHolders
    <2> QED BY <2>1, <2>3, <2>4
<1>5. CASE \E a \in Address : CodeExpires(a) \/ GoogleSignIn(a)
    BY <1>1, <1>3, <1>5
       DEF CodeExpires, GoogleSignIn, TypeOK, MailsOnlyToHolders, mail
<1>6. CASE \E l \in liveLinks : LinkExpires(l)
    BY <1>1, <1>3, <1>6 DEF LinkExpires, TypeOK, MailsOnlyToHolders, mail
<1>7. CASE UNCHANGED vars
    BY <1>1, <1>3, <1>7 DEF vars, provider, mail, TypeOK, MailsOnlyToHolders
<1> QED BY <1>2, <1>4, <1>5, <1>6, <1>7

-----------------------------------------------------------------------------
LEMMA InitEstablishes == Init => IInv
<1> SUFFICES ASSUME Init PROVE IInv
    OBVIOUS
<1>1. TypeOK
    <2>1. Free \in RequestState
        BY DEF Free, RequestState, Token
    <2>2. Page("signIn") \in TabState
        BY PageIsIdle
    <2> QED BY <2>1, <2>2, BoundsAssumption DEF Init, TypeOK
<1>2. RequestsFit
    BY DEF Init, RequestsFit, Fits, Free
<1>3. TabsFit
    BY PageIsIdle DEF Init, TabsFit, TabFits
<1>4. OwnRequests
    BY PageIsIdle DEF Init, OwnRequests, WaitsFor
<1>5. MailsOnlyToHolders
    BY DEF Init, MailsOnlyToHolders
<1> QED BY <1>1, <1>2, <1>3, <1>4, <1>5 DEF IInv

(* The inductive invariant: whatever the visitors, the handlers, the       *)
(* goroutines and the provider do, requests and pages fit together.        *)
THEOREM InductiveInvariant == Spec => []IInv
<1>1. ASSUME IInv, [Next]_vars PROVE IInv'
    <2>1. CASE \E t \in Tab : Visitor(t) \/ Script(t)
        BY <1>1, <2>1, VisitorKeeps, ScriptKeeps
    <2>2. CASE \E r \in Request : Handler(r)
        BY <1>1, <2>2, HandlerKeeps
    <2>3. CASE \/ \E j \in jobs : Goroutine(j)
               \/ \E a \in Address : CodeExpires(a) \/ GoogleSignIn(a)
               \/ \E l \in liveLinks : LinkExpires(l)
               \/ Restart
               \/ UNCHANGED vars
        BY <1>1, <2>3, OthersKeep
    <2> QED BY <1>1, <2>1, <2>2, <2>3 DEF Next
<1> QED BY <1>1, InitEstablishes, PTL DEF Spec

(* Every variable keeps its type. *)
THEOREM TypeCorrect == Spec => []TypeOK
<1>1. IInv => TypeOK
    BY DEF IInv
<1> QED BY <1>1, InductiveInvariant, PTL

(* The code step is shown for addresses with an account only, whatever     *)
(* calls fail on the way there.                                            *)
THEOREM CodeStepsHaveAccounts == Spec => []CodeStepHasAnAccount
<1>1. IInv => CodeStepHasAnAccount
    BY DEF IInv, TabsFit, TabFits, CodeStepHasAnAccount
<1> QED BY <1>1, InductiveInvariant, PTL

(* Mails of the platform are due to account holders only. *)
THEOREM OnlyHoldersAreMailed == Spec => []MailsOnlyToHolders
<1>1. IInv => MailsOnlyToHolders
    BY DEF IInv
<1> QED BY <1>1, InductiveInvariant, PTL

(* A form waits only for a request it sent itself, for what it shows now. *)
THEOREM FormsHearTheirAnswers == Spec => []AnswersFitTheirForm
<1>1. IInv => AnswersFitTheirForm
    BY DEF IInv, TabsFit, TabFits, AnswersFitTheirForm
<1> QED BY <1>1, InductiveInvariant, PTL

-----------------------------------------------------------------------------
(* What an answer of request r may say of a password, a code or a link. *)
Truly(r) ==
    /\ Replies(r, "invalid_credentials") => ~Matches(req[r].to, req[r].pw)
    /\ Replies(r, "invalid_code") =>
           \/ req[r].token # "genuine"
           \/ ~CodeIsLive(req[r].to, req[r].number)
    /\ Replies(r, "invalid_reset_token") => ~LinkIsLive(req[r].to, req[r].number)
    /\ Replies(r, "weak") => req[r].pw \notin Strong

(* A step that answers something else says nothing of the kind. *)
LEMMA OtherReplies ==
    ASSUME NEW r \in Request,
           \/ req'[r].call # "answered"
           \/ req'[r] = req[r]
           \/ req'[r].reply \in {"session", "pending", "accepted", "unavailable"}
    PROVE  Truly(r)
BY DEF Truly, Replies

LEMMA AnswersSays ==
    ASSUME TypeOK, NEW r \in Request, NEW reply, Answers(r, reply)
    PROVE  req'[r].reply = reply
BY DEF Answers, Answered, Free, TypeOK

(* A handler answers truly. *)
LEMMA HandlerIsTrue ==
    ASSUME TypeOK, NEW r \in Request, Handler(r)
    PROVE  Truly(r)
<1> USE AnswersSays, OtherReplies
<1>0. req \in [Request -> RequestState]
    BY DEF TypeOK
<1>1. ASSUME NEW call \in Call, Goes(r, call) PROVE Truly(r)
    BY <1>0, <1>1 DEF Goes, Call, RequestState
<1>2. ASSUME NEW token, AnswersPending(r, token) PROVE Truly(r)
    <2>1. req'[r].reply = "pending"
        BY <1>0, <1>2 DEF AnswersPending, Answered, Free
    <2> QED BY <2>1
<1>3. ASSUME NEW reply \in {"session", "accepted", "unavailable"}, Answers(r, reply)
      PROVE  Truly(r)
    BY <1>3
<1>4. CASE Created(r)
    BY <1>1, <1>3, <1>4 DEF Created, Call
<1>5. CASE SignUpRefused(r)
    <2>1. CASE Answers(r, "unavailable") \/ AnswersPending(r, "decoy")
        BY <1>2, <1>3, <2>1
    <2>2. CASE Answers(r, "weak") /\ req[r].pw \notin Strong
        BY <2>2 DEF Truly, Replies
    <2> QED BY <1>5, <2>1, <2>2 DEF SignUpRefused, CreateRefusals, Faults
<1>6. CASE AskedToVerify(r)
    BY <1>2, <1>3, <1>6 DEF AskedToVerify
<1>7. CASE Authenticated(r)
    BY <1>1, <1>7 DEF Authenticated, Call
<1>8. CASE PasswordRefused(r)
    <2>1. CASE Answers(r, "unavailable")
        BY <1>3, <2>1
    <2>2. CASE Answers(r, "invalid_credentials") /\ ~Matches(req[r].to, req[r].pw)
        BY <2>2 DEF Truly, Replies
    <2> QED BY <1>8, <2>1, <2>2
            DEF PasswordRefused, PasswordAuthError, ProviderRefusal
<1>9. CASE CodeAccepted(r)
    BY <1>1, <1>3, <1>9 DEF CodeAccepted, Call
<1>10. CASE CodeRefused(r)
    <2>1. CASE Answers(r, "unavailable")
        BY <1>3, <2>1
    <2>2. CASE /\ Answers(r, "invalid_code")
               /\ ~(/\ req[r].token = "genuine"
                    /\ CodeIsLive(req[r].to, req[r].number))
        BY <2>2 DEF Truly, Replies
    <2> QED BY <1>10, <2>1, <2>2 DEF CodeRefused, VerificationError, ProviderRefusal
<1>11. CASE Found(r) \/ FindFailed(r) \/ LinkIssued(r) \/ LinkRefused(r)
    BY <1>3, <1>11 DEF Found, FindFailed, LinkIssued, LinkRefused
<1>12. CASE ResetConfirmed(r)
    BY <1>1, <1>3, <1>12 DEF ResetConfirmed, Call
<1>13. CASE ResetRefused(r)
    <2>1. CASE Answers(r, "unavailable")
        BY <1>3, <2>1
    <2>2. CASE Answers(r, "weak") /\ req[r].pw \notin Strong
        BY <2>2 DEF Truly, Replies
    <2>3. CASE /\ Answers(r, "invalid_reset_token")
               /\ ~LinkIsLive(req[r].to, req[r].number)
        BY <2>3 DEF Truly, Replies
    <2> QED BY <1>13, <2>1, <2>2, <2>3
            DEF ResetRefused, ResetPasswordError, ProviderRefusal, Faults
<1>14. CASE Provision(r)
    BY <1>3, <1>14 DEF Provision
<1>15. CASE Cancel(r)
    BY <1>0, <1>15 DEF Cancel, Free
<1> QED BY <1>4, <1>5, <1>6, <1>7, <1>8, <1>9, <1>10, <1>11, <1>12, <1>13, <1>14,
           <1>15 DEF Handler

(* A visitor is told that a password, a code or a link is no good only     *)
(* when the provider found it so.                                          *)
THEOREM RefusalsHold == Spec => RefusalsAreTrue
<1>1. ASSUME TypeOK, [Next]_vars, NEW r \in Request
      PROVE  Truly(r)
    <2>0. req \in [Request -> RequestState]
        BY <1>1 DEF TypeOK
    <2>1. ASSUME NEW q, NEW state, state.call # "answered",
                 req' = [req EXCEPT ![q] = state]
          PROVE  Truly(r)
        BY <2>0, <2>1, OtherReplies
    <2>2. ASSUME NEW q \in Request, q # r, Handler(q) PROVE Truly(r)
        <3>1. req'[r] = req[r]
            BY <2>0, <2>2 DEF Handler, Created, SignUpRefused, AskedToVerify,
               Authenticated, PasswordRefused, CodeAccepted, CodeRefused, Found,
               FindFailed, LinkIssued, LinkRefused, ResetConfirmed, ResetRefused,
               Provision, Cancel, Goes, Answers, AnswersPending
        <3> QED BY <3>1, OtherReplies
    <2>3. CASE \E q \in Request : Handler(q)
        BY <1>1, <2>2, <2>3, HandlerIsTrue
    <2>4. ASSUME NEW t \in Tab, NEW kind, NEW to, NEW pw, NEW number, NEW token,
                 NEW call \in Call, Submit(t, NewRequest(kind, call, to, pw, number, token))
          PROVE  Truly(r)
        <3>1. PICK q \in Request :
                  req' = [req EXCEPT ![q] = NewRequest(kind, call, to, pw, number, token)]
            BY <2>4 DEF Submit
        <3>2. NewRequest(kind, call, to, pw, number, token).call # "answered"
            BY DEF NewRequest, Call
        <3> QED BY <2>1, <3>1, <3>2
    <2>5. CASE \E t \in Tab : ResendVerification(t)
        <3>1. PICK t \in Tab, q \in Request :
                  req' = [req EXCEPT ![q] =
                      NewRequest("resend", "find", tab[t].to, NoPassword, 0, "none")]
            BY <2>5 DEF ResendVerification
        <3>2. NewRequest("resend", "find", tab[t].to, NoPassword, 0, "none").call # "answered"
            BY DEF NewRequest
        <3> QED BY <2>1, <3>1, <3>2
    <2>6. CASE req' = req
        BY <2>6, OtherReplies
    <2>7. ASSUME NEW t \in Tab, NEW q, NEW state, Settle(t, q, state)
          PROVE  Truly(r)
        BY <2>1, <2>7 DEF Settle, Free
    <2>8. CASE \E t \in Tab : Visitor(t)
        BY <2>4, <2>5, <2>6, <2>8
           DEF Visitor, SignIn, SignUp, VerifyEmail, ForgotPassword, ResetPassword,
               UseAnotherEmail, FollowLink, SignOut, OpenResetLink, Reload, Leave, Call
    <2>9. CASE \E t \in Tab : Script(t)
        BY <2>6, <2>7, <2>9
           DEF Script, OnAnswer, OnResent, CooldownEnds, FormTimesOut, ResendTimesOut
    <2>10. CASE Restart
        <3>1. \/ req'[r] = req[r]
              \/ req'[r].reply = "unavailable"
            BY <2>10 DEF Restart, Answered, Free
        <3> QED BY <3>1, OtherReplies
    <2>11. CASE \/ \E j \in jobs : Goroutine(j)
                \/ \E a \in Address : CodeExpires(a) \/ GoogleSignIn(a)
                \/ \E l \in liveLinks : LinkExpires(l)
                \/ UNCHANGED vars
        BY <2>6, <2>11 DEF Goroutine, SendMail, SendVerificationEmail, CodeExpires,
           GoogleSignIn, LinkExpires, vars
    <2> QED BY <1>1, <2>3, <2>8, <2>9, <2>10, <2>11 DEF Next
<1>2. TypeOK /\ [Next]_vars => [\A r \in Request : Truly(r)]_vars
    BY <1>1
<1> QED BY <1>2, TypeCorrect, PTL DEF Spec, RefusalsAreTrue, Truly

-----------------------------------------------------------------------------
(* Whose sessions start *)

\* What is verified, and what can verify, belongs to an account.
HoldersOnly ==
    /\ verified \subseteq accounts
    /\ liveCodes \subseteq accounts
    /\ \A l \in liveLinks : l.to \in accounts

\* A request that is about to start a session, or did, is for a verified address.
Earned(q, V) == q.call = "provision" \/ q.reply = "session" => q.to \in V

AllEarned == \A r \in Request : Earned(req[r], verified)

(* The pages touch nothing of the provider's. *)
LEMMA PagesLeaveTheProvider ==
    ASSUME NEW t \in Tab, Visitor(t) \/ Script(t)
    PROVE  UNCHANGED provider
BY DEF Visitor, Script, SignIn, SignUp, VerifyEmail, ResendVerification, ForgotPassword,
   ResetPassword, UseAnotherEmail, FollowLink, SignOut, OpenResetLink, Reload, Submit,
   Leave, OnAnswer, OnResent, Settle, CooldownEnds, FormTimesOut, ResendTimesOut

(* Most handlers leave it alone too. *)
LEMMA HandlersOfTheProvider ==
    ASSUME NEW r \in Request, Handler(r)
    PROVE  \/ UNCHANGED provider
           \/ Created(r) \/ AskedToVerify(r) \/ CodeAccepted(r)
           \/ LinkIssued(r) \/ ResetConfirmed(r)
BY DEF Handler, SignUpRefused, Authenticated, PasswordRefused, CodeRefused, Found,
   FindFailed, LinkRefused, ResetRefused, Provision, Cancel

LEMMA HoldersStep ==
    ASSUME IInv, HoldersOnly, [Next]_vars
    PROVE  HoldersOnly' /\ accounts \subseteq accounts' /\ verified \subseteq verified'
<1> USE DEF HoldersOnly
<1>1. CASE UNCHANGED provider
    BY <1>1 DEF provider
<1>2. ASSUME NEW r \in Request, Handler(r)
      PROVE  HoldersOnly' /\ accounts \subseteq accounts' /\ verified \subseteq verified'
    <2>1. CASE Created(r)
        BY <2>1 DEF Created
    <2>2. CASE AskedToVerify(r)
        BY <2>2 DEF AskedToVerify, NewCode, Matches
    <2>3. CASE CodeAccepted(r)
        BY <2>3 DEF CodeAccepted, CodeIsLive
    <2>4. CASE LinkIssued(r)
        BY <2>4 DEF LinkIssued
    <2>5. CASE ResetConfirmed(r)
        BY <2>5 DEF ResetConfirmed, LinkIsLive
    <2> QED BY <1>1, <1>2, <2>1, <2>2, <2>3, <2>4, <2>5, HandlersOfTheProvider
<1>3. ASSUME NEW j \in jobs, Goroutine(j)
      PROVE  HoldersOnly' /\ accounts \subseteq accounts' /\ verified \subseteq verified'
    <2>1. j.to \in accounts
        BY DEF IInv, MailsOnlyToHolders
    <2>2. CASE SendMail(j)
        BY <1>1, <2>2 DEF SendMail
    <2>3. CASE SendVerificationEmail(j)
        BY <2>1, <2>3 DEF SendVerificationEmail, NewCode
    <2> QED BY <1>3, <2>2, <2>3 DEF Goroutine
<1>4. ASSUME NEW a \in Address, CodeExpires(a) \/ GoogleSignIn(a)
      PROVE  HoldersOnly' /\ accounts \subseteq accounts' /\ verified \subseteq verified'
    BY <1>4 DEF CodeExpires, GoogleSignIn
<1>5. ASSUME NEW l \in liveLinks, LinkExpires(l)
      PROVE  HoldersOnly' /\ accounts \subseteq accounts' /\ verified \subseteq verified'
    BY <1>5 DEF LinkExpires
<1>6. CASE Restart \/ UNCHANGED vars
    BY <1>1, <1>6 DEF Restart, vars
<1> QED BY <1>1, <1>2, <1>3, <1>4, <1>5, <1>6, PagesLeaveTheProvider DEF Next

(* A handler starts a session for the holder of a verified address. *)
LEMMA HandlerEarns ==
    ASSUME TypeOK, AllEarned, NEW r \in Request, Handler(r), verified \subseteq verified'
    PROVE  Earned(req'[r], verified')
<1>0. req \in [Request -> RequestState] /\ Earned(req[r], verified)
    BY DEF TypeOK, AllEarned
<1>1. CASE Goes(r, "password")
    <2>1. req'[r] = [req[r] EXCEPT !.call = "password"]
        BY <1>0, <1>1 DEF Goes
    <2>2. req'[r].call = "password" /\ req'[r].reply = req[r].reply /\ req'[r].to = req[r].to
        BY <1>0, <2>1 DEF RequestState
    <2> QED BY <1>0, <2>2 DEF Earned
<1>2. CASE Goes(r, "provision") /\ req[r].to \in verified'
    <2>1. req'[r].to = req[r].to
        BY <1>0, <1>2 DEF Goes, RequestState
    <2> QED BY <1>2, <2>1 DEF Earned
<1>3. ASSUME NEW reply \in Reply, NEW token, req' = [req EXCEPT ![r] = Answered(r, reply, token)],
             reply # "session" \/ req[r].to \in verified'
      PROVE  Earned(req'[r], verified')
    <2>1. req'[r] = Answered(r, reply, token)
        BY <1>0, <1>3
    <2>2. req'[r].call = "answered" /\ req'[r].reply = reply /\ req'[r].to = req[r].to
        BY <2>1 DEF Answered, Free
    <2> QED BY <1>3, <2>2 DEF Earned
<1>4. CASE Created(r)
    BY <1>1, <1>3, <1>4 DEF Created, Answers, Reply
<1>5. CASE SignUpRefused(r)
    BY <1>3, <1>5 DEF SignUpRefused, Answers, AnswersPending, Reply
<1>6. CASE AskedToVerify(r)
    BY <1>3, <1>6 DEF AskedToVerify, Answers, AnswersPending, Reply
<1>7. CASE Authenticated(r)
    BY <1>2, <1>7 DEF Authenticated, provider
<1>8. CASE PasswordRefused(r)
    BY <1>3, <1>8 DEF PasswordRefused, PasswordAuthError, Answers, Reply
<1>9. CASE CodeAccepted(r)
    BY <1>2, <1>3, <1>9 DEF CodeAccepted, Answers, Reply
<1>10. CASE CodeRefused(r)
    BY <1>3, <1>10 DEF CodeRefused, VerificationError, Answers, Reply
<1>11. CASE Found(r) \/ FindFailed(r) \/ LinkIssued(r)
    BY <1>3, <1>11 DEF Found, FindFailed, LinkIssued, Answers, Reply
<1>12. CASE LinkRefused(r)
    BY <1>3, <1>12 DEF LinkRefused, Answers, Reply
<1>13. CASE ResetConfirmed(r)
    BY <1>1, <1>3, <1>13 DEF ResetConfirmed, Answers, Reply
<1>14. CASE ResetRefused(r)
    <2>1. PICK v : Answers(r, ResetPasswordError(v))
        BY <1>14 DEF ResetRefused
    <2>2. ResetPasswordError(v) \in {"unavailable", "weak", "invalid_reset_token"}
        BY DEF ResetPasswordError
    <2> QED BY <1>3, <2>1, <2>2 DEF Answers, Reply
<1>15. CASE Provision(r)
    BY <1>0, <1>3, <1>15 DEF Provision, Earned, Answers, Reply, provider
<1>16. CASE Cancel(r)
    <2>1. req'[r] = Free
        BY <1>0, <1>16 DEF Cancel
    <2> QED BY <2>1 DEF Free, Earned
<1> QED BY <1>4, <1>5, <1>6, <1>7, <1>8, <1>9, <1>10, <1>11, <1>12, <1>13, <1>14,
           <1>15, <1>16 DEF Handler

LEMMA EarnedStep ==
    ASSUME TypeOK, AllEarned, [Next]_vars, verified \subseteq verified'
    PROVE  AllEarned'
<1> SUFFICES ASSUME NEW r \in Request PROVE Earned(req'[r], verified')
    BY DEF AllEarned
<1>0. req \in [Request -> RequestState] /\ Earned(req[r], verified)
    BY DEF TypeOK, AllEarned
<1>1. CASE req'[r] = req[r]
    BY <1>0, <1>1 DEF Earned
<1>2. ASSUME NEW q, NEW state, req' = [req EXCEPT ![q] = state],
             state.call # "provision", state.reply # "session"
      PROVE  Earned(req'[r], verified')
    BY <1>0, <1>1, <1>2 DEF Earned
<1>3. ASSUME NEW q \in Request, Handler(q) PROVE Earned(req'[r], verified')
    <2>1. CASE q = r
        BY <1>3, <2>1, HandlerEarns
    <2>2. CASE q # r
        <3>1. req'[r] = req[r]
            BY <1>0, <1>3, <2>2 DEF Handler, Created, SignUpRefused, AskedToVerify,
               Authenticated, PasswordRefused, CodeAccepted, CodeRefused, Found,
               FindFailed, LinkIssued, LinkRefused, ResetConfirmed, ResetRefused,
               Provision, Cancel, Goes, Answers, AnswersPending
        <3> QED BY <1>1, <3>1
    <2> QED BY <2>1, <2>2
<1>4. ASSUME NEW kind, NEW to, NEW pw, NEW number, NEW token, NEW q,
             NEW call \in Call \ {"provision"},
             req' = [req EXCEPT ![q] = NewRequest(kind, call, to, pw, number, token)]
      PROVE  Earned(req'[r], verified')
    <2> DEFINE new == NewRequest(kind, call, to, pw, number, token)
    <2>1. new.call # "provision" /\ new.reply # "session"
        BY <1>4 DEF NewRequest, Call
    <2>2. req' = [req EXCEPT ![q] = new]
        BY <1>4
    <2> HIDE DEF new
    <2> QED BY <1>2, <2>1, <2>2
<1>5. ASSUME NEW t \in Tab, Visitor(t) PROVE Earned(req'[r], verified')
    BY <1>1, <1>4, <1>5
       DEF Visitor, SignIn, SignUp, VerifyEmail, ResendVerification, ForgotPassword,
           ResetPassword, UseAnotherEmail, FollowLink, SignOut, OpenResetLink, Reload,
           Leave, Submit, Call
<1>6. ASSUME NEW t \in Tab, NEW q, NEW state, Settle(t, q, state)
      PROVE  Earned(req'[r], verified')
    <2>1. Free.call # "provision" /\ Free.reply # "session"
        BY DEF Free
    <2>2. req' = [req EXCEPT ![q] = Free]
        BY <1>6 DEF Settle
    <2> QED BY <1>2, <2>1, <2>2
<1>7. ASSUME NEW t \in Tab, Script(t) PROVE Earned(req'[r], verified')
    BY <1>1, <1>6, <1>7
       DEF Script, OnAnswer, OnResent, CooldownEnds, FormTimesOut, ResendTimesOut
<1>8. CASE Restart
    <2>1. \/ req'[r] = req[r]
          \/ req'[r].reply = "unavailable" /\ req'[r].call = "answered"
        BY <1>8 DEF Restart, Answered, Free
    <2> QED BY <1>1, <2>1 DEF Earned
<1>9. CASE \/ \E j \in jobs : Goroutine(j)
           \/ \E a \in Address : CodeExpires(a) \/ GoogleSignIn(a)
           \/ \E l \in liveLinks : LinkExpires(l)
           \/ UNCHANGED vars
    BY <1>1, <1>9 DEF Goroutine, SendMail, SendVerificationEmail, CodeExpires,
       GoogleSignIn, LinkExpires, vars
<1> QED BY <1>3, <1>5, <1>7, <1>8, <1>9 DEF Next

(* Nobody is answered with a session but the holder of a verified address. *)
THEOREM SessionsAreForHolders == Spec => []SessionsAreEarned
<1>1. Init => HoldersOnly /\ AllEarned
    BY DEF Init, HoldersOnly, AllEarned, Earned, Free
<1>2. IInv /\ HoldersOnly /\ AllEarned /\ [Next]_vars => HoldersOnly' /\ AllEarned'
    BY HoldersStep, EarnedStep DEF IInv
<1>3. HoldersOnly /\ AllEarned => SessionsAreEarned
    BY DEF HoldersOnly, AllEarned, Earned, SessionsAreEarned
<1> QED BY <1>1, <1>2, <1>3, InductiveInvariant, PTL DEF Spec

-----------------------------------------------------------------------------
(* A reset link sets one password at most. *)
THEOREM LinksAreSpent == Spec => LinksWorkOnce
<1> DEFINE Once ==
        /\ \A a \in accounts :
               password'[a] # password[a] => \E l \in liveLinks \ liveLinks' : l.to = a
        /\ \A l \in Link \ liveLinks : l.n <= links[l.to] => l \notin liveLinks'
<1>1. ASSUME TypeOK, [Next]_vars PROVE Once
    <2>1. CASE UNCHANGED <<password, links>> /\ liveLinks' \subseteq liveLinks
        BY <2>1
    <2>2. ASSUME NEW r \in Request, Handler(r) PROVE Once
        <3>1. CASE Created(r)
            BY <1>1, <3>1 DEF Created, TypeOK
        <3>2. CASE LinkIssued(r)
            <4>1. req[r].to \in Address
                BY <1>1, <3>2 DEF LinkIssued, TypeOK
            <4>2. links[req[r].to] \in Nat
                BY <1>1, <4>1, BoundsAssumption DEF TypeOK
            <4>3. ~ (links[req[r].to] + 1 <= links[req[r].to])
                BY <4>2
            <4> QED BY <3>2, <4>3 DEF LinkIssued
        <3>3. CASE ResetConfirmed(r)
            <4> DEFINE l == [to |-> req[r].to, n |-> req[r].number]
            <4>1. l \in liveLinks \ liveLinks' /\ l.to = req[r].to
                BY <3>3 DEF ResetConfirmed, LinkIsLive
            <4>2. \A a \in Address \ {req[r].to} : password'[a] = password[a]
                BY <1>1, <3>3 DEF ResetConfirmed, TypeOK
            <4>3. accounts \subseteq Address /\ liveLinks' \subseteq liveLinks
                BY <1>1, <3>3 DEF ResetConfirmed, TypeOK
            <4> HIDE DEF l
            <4> QED BY <4>1, <4>2, <4>3
        <3>4. CASE AskedToVerify(r) \/ CodeAccepted(r) \/ UNCHANGED provider
            BY <2>1, <3>4 DEF AskedToVerify, CodeAccepted, provider
        <3> QED BY <2>2, <3>1, <3>2, <3>3, <3>4, HandlersOfTheProvider
    <2>3. CASE \/ \E j \in jobs : Goroutine(j)
               \/ \E a \in Address : CodeExpires(a) \/ GoogleSignIn(a)
               \/ \E l \in liveLinks : LinkExpires(l)
               \/ Restart
               \/ UNCHANGED vars
        BY <2>1, <2>3 DEF Goroutine, SendMail, SendVerificationEmail, CodeExpires,
           GoogleSignIn, LinkExpires, Restart, vars, provider
    <2>4. CASE \E t \in Tab : Visitor(t) \/ Script(t)
        BY <2>1, <2>4, PagesLeaveTheProvider DEF provider
    <2> QED BY <1>1, <2>2, <2>3, <2>4 DEF Next
<1>2. TypeOK /\ [Next]_vars => [Once]_vars
    BY <1>1
<1> QED BY <1>2, TypeCorrect, PTL DEF Spec, LinksWorkOnce

=============================================================================
