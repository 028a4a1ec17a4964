----------------------------- MODULE SipSession -----------------------------
(***************************************************************************)
(* What an INVITE dialog is for: the caller is up only when the callee has *)
(* accepted, the callee accepts once, and who has left does not come back. *)
(* Either side may leave at any time, also without the other's knowledge.  *)
(***************************************************************************)

VARIABLES
    caller, callee,   \* "idle", "trying", "up" or "down"
    accepted          \* has the callee accepted?

Party == {"idle", "trying", "up", "down"}

SessionInit ==
    /\ caller \in {"idle", "trying"}
    /\ callee = "idle"
    /\ accepted = FALSE

Call    == caller = "idle" /\ caller' = "trying" /\ UNCHANGED <<callee, accepted>>
Offered == callee = "idle" /\ callee' = "trying" /\ UNCHANGED <<caller, accepted>>

Accept ==
    /\ callee = "trying"
    /\ callee' = "up"
    /\ accepted' = TRUE
    /\ UNCHANGED caller

Confirmed ==
    /\ caller = "trying"
    /\ accepted
    /\ caller' = "up"
    /\ UNCHANGED <<callee, accepted>>

CallerLeaves == caller # "down" /\ caller' = "down" /\ UNCHANGED <<callee, accepted>>
CalleeLeaves == callee # "down" /\ callee' = "down" /\ UNCHANGED <<caller, accepted>>

SessionNext == Call \/ Offered \/ Accept \/ Confirmed \/ CallerLeaves \/ CalleeLeaves

SessionSpec == SessionInit /\ [][SessionNext]_<<caller, callee, accepted>>

=============================================================================
