------------------------------- MODULE TgLeg -------------------------------
(***************************************************************************)
(* What TgCallEngine promises to CallManager about the Telegram calls of   *)
(* one user: the life of a call as UserCalls takes it for granted.  At     *)
(* most one call is under way; a call that is being set up comes up or     *)
(* ends; one that is being taken down only ends, though its setup may      *)
(* still report success meanwhile; an ended call stays ended.              *)
(***************************************************************************)

CONSTANT Calls

VARIABLE leg    \* "none", "setup", "up", "closing" or "ended" for every call

LegState == {"none", "setup", "up", "closing", "ended"}

LegInit == leg = [c \in Calls |-> "none"]

Become(c, from, to) == leg[c] \in from /\ leg' = [leg EXCEPT ![c] = to]

Start(c) ==
    /\ \A d \in Calls : leg[d] \in {"none", "ended"}
    /\ Become(c, {"none"}, "setup")
ComesUp(c)    == Become(c, {"setup"}, "up")
IsTakenDown(c) == Become(c, {"setup", "up"}, "closing")
Ends(c)       == Become(c, {"setup", "up", "closing"}, "ended")

LegNext == \E c \in Calls : Start(c) \/ ComesUp(c) \/ IsTakenDown(c) \/ Ends(c)

LegSpec == LegInit /\ [][LegNext]_leg

=============================================================================
