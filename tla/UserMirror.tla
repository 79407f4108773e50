----------------------------- MODULE UserMirror -----------------------------
(***************************************************************************)
(* What the platform's user records are to the identity provider's         *)
(* accounts, whichever webhook, record fetch or sign-in writes them: a     *)
(* copy that may lag, holds only what the account has been, never goes     *)
(* back in time, and is given up only after the account was deleted.  A    *)
(* deletion leaves no trace, so a late writer may copy a deleted account   *)
(* once more.                                                              *)
(***************************************************************************)
EXTENDS Naturals

CONSTANTS
    User,
    NoRow       \* no record of a user

VARIABLES
    life,       \* provider: "unborn", "alive" or "deleted", per user
    profile,    \* provider: the account's current revision
    row         \* the platform's copy of it, or NoRow

vars == <<life, profile, row>>

Init ==
    /\ life = [u \in User |-> "unborn"]
    /\ profile = [u \in User |-> [rev |-> 0, at |-> 0]]
    /\ row = [u \in User |-> NoRow]

\* The account's next revision; its updated_at never goes back.
Revise(u) ==
    /\ life[u] # "deleted"
    /\ life' = [life EXCEPT ![u] = "alive"]
    /\ \E tick \in {0, 1} :
          profile' = [profile EXCEPT ![u] = [rev |-> @.rev + 1, at |-> @.at + tick]]
    /\ UNCHANGED row

Delete(u) ==
    /\ life[u] = "alive"
    /\ life' = [life EXCEPT ![u] = "deleted"]
    /\ UNCHANGED <<profile, row>>

\* What an account was before its current revision.
Earlier(p) == [rev : 1 .. p.rev - 1, at : 0 .. p.at]

\* The current revision or an earlier one, and no older than what is there.
Copy(u) ==
    /\ life[u] # "unborn"
    /\ \E p \in {profile[u]} \cup Earlier(profile[u]) :
          /\ row[u] # NoRow => p.at >= row[u].at
          /\ row' = [row EXCEPT ![u] = p]
    /\ UNCHANGED <<life, profile>>

Forget(u) ==
    /\ life[u] = "deleted"
    /\ row' = [row EXCEPT ![u] = NoRow]
    /\ UNCHANGED <<life, profile>>

Next == \E u \in User : Revise(u) \/ Delete(u) \/ Copy(u) \/ Forget(u)

Spec == Init /\ [][Next]_vars

=============================================================================
