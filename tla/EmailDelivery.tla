--------------------------- MODULE EmailDelivery ----------------------------
(***************************************************************************)
(* Emailing a generated agreement: TemplateDeliveryService.Email, of which *)
(* PublicSOWConfiguratorService.Email is the same protocol over a map of   *)
(* its own, ResendMailer.Send, and Resend as Send uses it.                 *)
(*                                                                         *)
(* The first request with an idempotency key leads: it generates the       *)
(* document and posts it.  Requests that come with the same key meanwhile  *)
(* follow, and get the leader's result, or conflict when they ask for      *)
(* something else.  The recipient and the configuration, which the digest  *)
(* is taken of, are one Content.  A request is one HTTP request: a retry   *)
(* is another request with the same ask.  All happens within the 24 hours  *)
(* for which Resend remembers a key.                                       *)
(***************************************************************************)
EXTENDS Naturals

CONSTANTS
    Request,      \* HTTP requests to POST .../email
    Key,          \* idempotency keys
    NoKey,        \* a message without Idempotency-Key header
    Content,      \* recipient and configuration, the digest's input
    Nobody,       \* no request
    MaxRestarts   \* bound on the restarts of the API

ASSUME NobodyAssumption == Nobody \notin Request
ASSUME NoKeyAssumption == NoKey \notin Key
ASSUME MaxRestartsAssumption == MaxRestarts \in Nat

Ask == [key : Key, content : Content]

VARIABLES
    ask,          \* what each request asks for
    pc,           \* where each request is in Email
    pending,      \* the pending map: who leads the key's entry, or Nobody
    leader,       \* whose entry a follower waits for
    entry,        \* pendingDelivery of a leader: "open", or closed with its err
    wire,         \* messages on their way to Resend
    reply,        \* Resend's answer to a leader's message
    emails,       \* the requests whose message Resend accepted as a new email
    restarts      \* restarts so far

vars ==
    <<ask, pc, pending, leader, entry, wire, reply, emails, restarts>>

service == <<pending, leader, entry>>
resend == <<wire, reply, emails>>

Leading == {"generate", "sending", "sent", "unsent"}
Failed == {"invalid", "conflict", "cancelled", "failed", "gone"}
Answered == {"ok"} \cup Failed

Message == [from : Request, key : Key \cup {NoKey}]

TypeOK ==
    /\ ask \in [Request -> Ask]
    /\ pc \in [Request -> {"new", "wait"} \cup Leading \cup Answered]
    /\ pending \in [Key -> Request \cup {Nobody}]
    /\ leader \in [Request -> Request \cup {Nobody}]
    /\ entry \in [Request -> {"none", "open", "ok", "failed"}]
    /\ wire \subseteq Message
    /\ reply \in [Request -> {"none", "accepted", "rejected"}]
    /\ emails \subseteq Request
    /\ restarts \in Nat

Init ==
    /\ ask \in [Request -> Ask]
    /\ pc = [r \in Request |-> "new"]
    /\ pending = [k \in Key |-> Nobody]
    /\ leader = [r \in Request |-> Nobody]
    /\ entry = [r \in Request |-> "none"]
    /\ wire = {}
    /\ reply = [r \in Request |-> "none"]
    /\ emails = {}
    /\ restarts = 0

Goto(r, from, to) ==
    /\ pc[r] = from
    /\ pc' = [pc EXCEPT ![r] = to]

-----------------------------------------------------------------------------
(* The service *)

\* prepareEmailDelivery finds the acknowledgment, the address, the key or the
\* configuration wanting, or no provider.
Refuse(r) ==
    /\ Goto(r, "new", "invalid")
    /\ UNCHANGED <<ask, service, resend, restarts>>

\* Mutant: begin does not look whether the key is taken.
LeadAlways(r) ==
    LET k == ask[r].key IN
    /\ Goto(r, "new", "generate")
    /\ pending' = [pending EXCEPT ![k] = r]
    /\ entry' = [entry EXCEPT ![r] = "open"]
    /\ UNCHANGED leader

\* begin, under the mutex.
Lead(r) ==
    LET k == ask[r].key IN
    /\ pending[k] = Nobody
    /\ Goto(r, "new", "generate")
    /\ pending' = [pending EXCEPT ![k] = r]
    /\ entry' = [entry EXCEPT ![r] = "open"]
    /\ UNCHANGED leader

SameDigest(r, s) == ask[r].content = ask[s].content

Follow(r) ==
    LET l == pending[ask[r].key] IN
    /\ l # Nobody
    /\ SameDigest(r, l)
    /\ Goto(r, "new", "wait")
    /\ leader' = [leader EXCEPT ![r] = l]
    /\ UNCHANGED <<pending, entry>>

Conflict(r) ==
    LET l == pending[ask[r].key] IN
    /\ l # Nobody
    /\ ~ SameDigest(r, l)
    /\ Goto(r, "new", "conflict")
    /\ UNCHANGED service

Begin(r) ==
    /\ Lead(r) \/ Follow(r) \/ Conflict(r)
    /\ UNCHANGED <<ask, resend, restarts>>

\* Mutant: the follower does not wait for done.
TakeResultAtOnce(r) ==
    /\ pc[r] = "wait"
    /\ Goto(r, "wait", entry[leader[r]])
    /\ UNCHANGED <<ask, service, resend, restarts>>

\* The leader closed the entry's done channel, and its err is there.
TakeResult(r) ==
    /\ pc[r] = "wait"
    /\ entry[leader[r]] # "open"
    /\ Goto(r, "wait", entry[leader[r]])
    /\ UNCHANGED <<ask, service, resend, restarts>>

\* The follower's own client goes away; a select may take this case even when the
\* result is there.
GiveUpWaiting(r) ==
    /\ Goto(r, "wait", "cancelled")
    /\ UNCHANGED <<ask, service, resend, restarts>>

\* Mutant: the message goes without its Idempotency-Key header.
MessageWithoutKey(r) == [from |-> r, key |-> NoKey]

MessageOf(r) == [from |-> r, key |-> ask[r].key]

\* The generator fails, or the leader's client went away before the message left.
GenerateAndPost(r) ==
    /\ \/ /\ Goto(r, "generate", "sending")
          /\ wire' = wire \cup {MessageOf(r)}
       \/ /\ Goto(r, "generate", "unsent")
          /\ UNCHANGED wire
    /\ UNCHANGED <<ask, service, reply, emails, restarts>>

\* Success needs Resend's acceptance, read and with an id.  Everything else is an
\* error: a refusal, an unreadable answer, the client gone or SendTimeout, and the
\* last two leave the message on its way.
SendReturns(r) ==
    /\ \/ /\ reply[r] = "accepted"
          /\ Goto(r, "sending", "sent")
       \/ Goto(r, "sending", "unsent")
    /\ UNCHANGED <<ask, service, resend, restarts>>

\* Mutant: a failed delivery stays in the map.
FinishKeepingFailures(r) ==
    /\ pc[r] \in {"sent", "unsent"}
    /\ LET result == IF pc[r] = "sent" THEN "ok" ELSE "failed" IN
          /\ entry' = [entry EXCEPT ![r] = result]
          /\ pc' = [pc EXCEPT ![r] = result]
    /\ pending' = IF pc[r] = "sent" THEN [pending EXCEPT ![ask[r].key] = Nobody] ELSE pending
    /\ UNCHANGED <<ask, leader, resend, restarts>>

\* Mutant: done is not closed.
FinishSilently(r) ==
    /\ pc[r] \in {"sent", "unsent"}
    /\ pc' = [pc EXCEPT ![r] = IF pc[r] = "sent" THEN "ok" ELSE "failed"]
    /\ pending' = [pending EXCEPT ![ask[r].key] = Nobody]
    /\ UNCHANGED <<ask, leader, entry, resend, restarts>>

\* finish, under the mutex.
Finish(r) ==
    /\ pc[r] \in {"sent", "unsent"}
    /\ LET result == IF pc[r] = "sent" THEN "ok" ELSE "failed" IN
          /\ entry' = [entry EXCEPT ![r] = result]
          /\ pc' = [pc EXCEPT ![r] = result]
    /\ pending' = [pending EXCEPT ![ask[r].key] = Nobody]
    /\ UNCHANGED <<ask, leader, resend, restarts>>

-----------------------------------------------------------------------------
(* The surroundings: Resend and the process *)

\* A remembered key answers like the first time, or is refused for other content.
Accept(m) ==
    LET known == {s \in emails : ask[s].key = m.key} IN
    /\ m \in wire
    /\ wire' = wire \ {m}
    /\ IF known = {}
       THEN /\ emails' = emails \cup {m.from}
            /\ reply' = [reply EXCEPT ![m.from] = "accepted"]
       ELSE /\ UNCHANGED emails
            /\ reply' = [reply EXCEPT ![m.from] =
                            IF \E s \in known : SameDigest(s, m.from)
                            THEN "accepted" ELSE "rejected"]
    /\ UNCHANGED <<ask, pc, service, restarts>>

\* Rate limit, invalid sender, outage, or the message is lost.
Reject(m) ==
    /\ m \in wire
    /\ wire' = wire \ {m}
    /\ reply' = [reply EXCEPT ![m.from] = "rejected"]
    /\ UNCHANGED <<ask, pc, service, emails, restarts>>

\* The pending map is in memory; what was posted is on its way all the same.
Restart ==
    /\ restarts < MaxRestarts
    /\ restarts' = restarts + 1
    /\ pc' = [r \in Request |->
                IF pc[r] \in {"wait"} \cup Leading THEN "gone" ELSE pc[r]]
    /\ pending' = [k \in Key |-> Nobody]
    /\ leader' = [r \in Request |-> Nobody]
    /\ entry' = [r \in Request |-> "none"]
    /\ UNCHANGED <<ask, resend>>

-----------------------------------------------------------------------------

\* What a request does once it was begun, as long as its client stays.
Proceed(r) ==
    \/ TakeResult(r)
    \/ GenerateAndPost(r)
    \/ SendReturns(r)
    \/ Finish(r)

Email(r) ==
    \/ Refuse(r)
    \/ Begin(r)
    \/ Proceed(r)
    \/ GiveUpWaiting(r)

Next ==
    \/ \E r \in Request : Email(r)
    \/ \E m \in wire : Accept(m) \/ Reject(m)
    \/ Restart

Spec == Init /\ [][Next]_vars

\* Goroutines are scheduled, and SendTimeout bounds the wait for Resend.
FairSpec == Spec /\ \A r \in Request : WF_vars(Proceed(r))

-----------------------------------------------------------------------------
(* Properties *)

(* Duplicate submission is suppressed while pending (specs/005, story 3): only  *)
(* the request the pending map names leads its key, so two requests never       *)
(* generate and post for one key at a time, whatever fails, gives up or         *)
(* restarts (begin and finish).                                                 *)
OneLeaderPerKey ==
    \A r \in Request : pc[r] \in Leading => pending[ask[r].key] = r

(* No path out of Email leaves its key occupied: an entry in the pending map    *)
(* has a leader that still runs.  A key left behind would make every later      *)
(* attempt with it wait for ever (begin, finish).                               *)
NoEntryLeaks ==
    \A k \in Key : pending[k] # Nobody =>
        /\ pc[pending[k]] \in Leading
        /\ entry[pending[k]] = "open"

(* A duplicate never waits for nobody: the result it waits for is there, or the  *)
(* request that owes it still runs, with the same ask, and still holds the key,  *)
(* whatever was cancelled, failed, restarted or begun since (begin, finish).     *)
NobodyWaitsInVain ==
    \A r \in Request : pc[r] = "wait" =>
        LET l == leader[r] IN
        /\ l \in Request
        /\ ask[l] = ask[r]
        /\ \/ entry[l] \in {"ok", "failed"}
           \/ pc[l] \in Leading /\ pending[ask[r].key] = l

(* Every duplicate gets an answer: a follower never waits for a leader that     *)
(* finished, failed, or was cancelled without telling it (entry.done).          *)
FollowersAreAnswered ==
    \A r \in Request : pc[r] = "wait" ~> pc[r] \in Answered

(* The services keep the promise of EmailPromise: across duplicates, retries,   *)
(* lost answers, cancelled leaders and restarts, a key makes at most one email, *)
(* and success is told only when an email with the request's own content was    *)
(* accepted for its key, also to a follower and to a retry (Email, begin,       *)
(* deliveryDigest, Send).                                                       *)
Told(r) ==
    CASE pc[r] = "ok" -> "success"
      [] pc[r] \in Failed -> "failure"
      [] OTHER -> "nothing"

Promise == INSTANCE EmailPromise
    WITH mailed <- emails, told <- [r \in Request |-> Told(r)]

KeepsThePromise == Promise!Spec

=============================================================================
