--------------------------- MODULE DeliveryCalls ----------------------------
(***************************************************************************)
(* The calls a delivery dialog makes, and what becomes of them: the part   *)
(* that the dialog of the web application (DeliveryDialog) and the one of  *)
(* the marketing site (SowDialog) have in common.  The API behind the      *)
(* calls is taken for what EmailPromise says of it, which EmailDelivery is *)
(* shown to implement: a key stands for at most one email, success means   *)
(* that an email was accepted for what the call asks, and a call that      *)
(* fails may be mailed all the same, then or later.                        *)
(*                                                                         *)
(* A configuration is all that goes into the document.  An attempt is what *)
(* lies between opening the dialog and closing it.                         *)
(***************************************************************************)
EXTENDS Naturals, Sequences, FiniteSets

CONSTANTS
    Config,        \* configurations, which the user changes
    Complete,      \* those that make a document
    Email,         \* well-formed addresses
    MaxCalls,      \* bound on the calls
    MaxAttempts    \* bound on the attempts

ASSUME CompleteAssumption == Complete \subseteq Config
ASSUME BoundsAssumption == MaxCalls \in Nat /\ MaxAttempts \in Nat

VARIABLES
    sent,       \* the calls made, in order
    out,        \* those the dialog still awaits, by their place in sent
    mailed,     \* those an email was accepted for
    keys,       \* idempotency keys made so far; a key is its number
    attempt,    \* the number of the attempt
    agreed      \* the attempt and configuration last acknowledged

calls == <<sent, out, mailed, keys>>
history == <<attempt, agreed>>

NoKey == 0

Call == [kind : {"download", "email"}, key : Nat, config : Config,
         email : Email, attempt : Nat]

Agreement == [attempt : Nat, config : Config]
NoAgreement == [attempt |-> 0]

CallsTypeOK ==
    /\ sent \in Seq(Call)
    /\ out \subseteq 1..Len(sent)
    /\ mailed \subseteq 1..Len(sent)
    /\ keys \in Nat
    /\ attempt \in Nat
    /\ agreed \in Agreement \cup {NoAgreement}

CallsInit ==
    /\ sent = <<>>
    /\ out = {}
    /\ mailed = {}
    /\ keys = 0
    /\ attempt = 0
    /\ agreed = NoAgreement

\* Mutant: the call is awaited and never made.
AwaitOnly(kind, key, config, email) ==
    /\ Len(sent) < MaxCalls
    /\ out' = out \cup {Len(sent) + 1}
    /\ UNCHANGED <<sent, mailed>>

\* A call leaves.  A download has no key, and its address means nothing.
Post(kind, key, config, email) ==
    /\ Len(sent) < MaxCalls
    /\ sent' = Append(sent, [kind |-> kind, key |-> key, config |-> config,
                             email |-> email, attempt |-> attempt])
    /\ out' = out \cup {Len(sent) + 1}
    /\ UNCHANGED mailed

\* The dialog hears of a call, or that it was lost.
Settle(i) ==
    /\ i \in out
    /\ out' = out \ {i}
    /\ UNCHANGED <<sent, mailed, keys>>

SameAsk(a, b) == a.key = b.key /\ a.config = b.config /\ a.email = b.email

MailedFor(i) == \E j \in mailed : SameAsk(sent[i], sent[j])

\* The API and the provider, at any time after the call left.
Mail(i) ==
    /\ i \in 1..Len(sent) \ mailed
    /\ sent[i].kind = "email"
    /\ \A j \in mailed : sent[j].key # sent[i].key
    /\ mailed' = mailed \cup {i}
    /\ UNCHANGED <<sent, out, keys>>

-----------------------------------------------------------------------------
(* Properties of either dialog *)

(* Rapid repeated clicks make one request in flight (specs/005, stories 2 and 3),  *)
(* also over renders that lag behind and configurations that change meanwhile.     *)
OneCallAtATime == Cardinality(out) <= 1

(* An idempotency key never goes with two contents: the API answers the second     *)
(* with a conflict while the first is pending, and the provider refuses it for a   *)
(* day.  The key survives failures and edits of the address, so that the dialog    *)
(* has to see that what it is about to send is still what the key was made for.    *)
OneKeyOneContent ==
    \A i, j \in 1..Len(sent) :
        /\ sent[i].kind = "email"
        /\ sent[j].kind = "email"
        /\ sent[i].key = sent[j].key
        => SameAsk(sent[i], sent[j])

(* No document is asked for that was not acknowledged: a call goes out only for    *)
(* the configuration, and in the attempt, that the box was last ticked for.  Of    *)
(* the four things that reset the disclaimer in specs/005, story 1, scenario 7,    *)
(* three do: closing, reopening and changing the configuration.  The fourth,       *)
(* completing the delivery, does in the app for a download, which closes the       *)
(* dialog; an accepted email leaves the box ticked, and the next call may go out   *)
(* on the same acknowledgment.                                                     *)
SendsOnlyWhatWasAcknowledged ==
    [][Len(sent') > Len(sent) =>
          LET c == sent'[Len(sent')] IN
              agreed = [attempt |-> c.attempt, config |-> c.config]]_<<sent, agreed>>

=============================================================================
