------------------------------ MODULE SessionUse ----------------------------
(***************************************************************************)
(* What the tabs of one browser may do with the provider's sessions,       *)
(* whatever cookies, refreshes and storage events pass between them: a     *)
(* session comes into use in a tab only by a grant made while it lives,    *)
(* and a session that ended never lives again.  A use may outlive its      *)
(* session, until the tab drops it.                                        *)
(***************************************************************************)

CONSTANTS
    Tab,
    Session

VARIABLES
    life,       \* "unused", "live" or "ended", per session
    inUse       \* the uses: pairs of a tab and a session

vars == <<life, inUse>>

Init ==
    /\ life = [s \in Session |-> "unused"]
    /\ inUse = {}

\* A sign-in, granted to the tab that asked for it, or to none yet.
Begin(s) ==
    /\ life[s] = "unused"
    /\ life' = [life EXCEPT ![s] = "live"]
    /\ \/ UNCHANGED inUse
       \/ \E t \in Tab : inUse' = inUse \cup {<<t, s>>}

Grant(t, s) ==
    /\ life[s] = "live"
    /\ inUse' = inUse \cup {<<t, s>>}
    /\ UNCHANGED life

End(s) ==
    /\ life[s] = "live"
    /\ life' = [life EXCEPT ![s] = "ended"]
    /\ UNCHANGED inUse

Drop ==
    /\ inUse' \in SUBSET inUse
    /\ UNCHANGED life

Next ==
    \/ \E s \in Session : Begin(s) \/ End(s) \/ \E t \in Tab : Grant(t, s)
    \/ Drop

Spec == Init /\ [][Next]_vars

-----------------------------------------------------------------------------
(* What follows *)

(* No tab uses a session that no sign-in began. *)
NoSessionIsInvented == \A u \in inUse : life[u[2]] # "unused"

(* From its end on a session is never live again, and the tabs that use it only *)
(* become fewer.                                                                *)
EndedOnlyLinger ==
    [][\A s \in Session : life[s] = "ended" =>
          /\ life'[s] = "ended"
          /\ \A t \in Tab : <<t, s>> \in inUse' => <<t, s>> \in inUse]_vars

=============================================================================
