-------------------------------- MODULE Line --------------------------------
(***************************************************************************)
(* The line of a SIP account: the registration loop (sip/account.py), the  *)
(* TCP or TLS connection it needs (sip/transport.py), and what the         *)
(* administrator is told of it (alerts.py), against a registrar that       *)
(* refuses, is out of reach or loses the connection, MaxFaults times.      *)
(*                                                                         *)
(* Time passes in steps of five seconds where the registration's lease and *)
(* its refresh are compared; the other delays (2 s after a lost            *)
(* connection, 30 s after a failure, down_after) may take any time.  A     *)
(* message to the administrator is taken to be out before another          *)
(* down_after has passed.                                                  *)
(***************************************************************************)
EXTENDS Integers

CONSTANTS
    Grants,       \* lifetimes the registrar may grant, in steps
    MinExpires,   \* the shortest lifetime the registrar accepts
    Asked,        \* the lifetime the account is configured to ask for
    MaxFaults     \* bound: faults of the registrar and the connection

\* Mutant: the refresh is asked for when the lifetime is over.
WaitMutant(e) == IF e < 2 THEN 2 ELSE e

\* max(10, min(e / 2, e - 15)) seconds, in steps of five, rounded up as the bound that counts.
Wait(e) == LET w == IF (e + 1) \div 2 < e - 3 THEN (e + 1) \div 2 ELSE e - 3 IN IF w < 2 THEN 2 ELSE w

\* A lifetime of ten seconds or less would run out before its refresh.
ASSUME LineAssumption == Grants \subseteq Nat \ 0 .. 2 /\ MaxFaults \in Nat /\ Asked \in Nat /\ MinExpires \in Nat

VARIABLES
    reg,          \* the registration task: where it is, steps left to sleep; the lifetime asked for
    registered,   \* SipAccount.registered
    lease,        \* at the registrar: steps the registration still lives
    conn,         \* the connection: "up" or "down"
    reach,        \* is the registrar in reach?
    faults,       \* faults so far
    stopping,     \* SipAccount._stopping
    alert,        \* Alerts: down since, the timer, reported; messages about to go out
    news          \* the last message the administrator got

lineVars == <<reg, registered, lease, conn, reach, faults, stopping, alert, news>>

-----------------------------------------------------------------------------
LineInit ==
    /\ reg = [pc |-> "ask", left |-> 0, expires |-> Asked]
    /\ registered = FALSE /\ lease = 0 /\ conn = "up" /\ reach = TRUE /\ faults = 0 /\ stopping = FALSE
    /\ alert = [down |-> FALSE, timer |-> "none", reported |-> FALSE, ok |-> FALSE]
    /\ news = "none"

\* Alerts.registration(ok): the timer is cancelled, in the middle of its message too.
AlertUp == alert' = [down |-> FALSE, timer |-> "none", reported |-> FALSE, ok |-> alert.ok \/ alert.reported]
AlertDown == alert' = IF alert.down THEN alert ELSE [alert EXCEPT !.down = TRUE, !.timer = "wait"]

\* on_registration, with the flag it reports.
RegistrationOk == registered' = TRUE /\ AlertUp
RegistrationFails == registered' = FALSE /\ AlertDown

\* The account's loop has slept, or its connection has been gone for two seconds.
Wake ==
    /\ \/ reg.pc = "sleep" /\ reg.left = 0
       \/ reg.pc \in {"delay", "retry"}
    /\ reg' = [reg EXCEPT !.pc = "ask"]
    /\ UNCHANGED <<registered, lease, conn, reach, faults, stopping, alert, news>>

\* send() finds no writer and connects.
Connect ==
    /\ reg.pc = "ask" /\ conn = "down" /\ reach
    /\ conn' = "up"
    /\ UNCHANGED <<reg, registered, lease, reach, faults, stopping, alert, news>>

Granted(e) ==
    /\ reg.pc = "ask" /\ conn = "up" /\ reach
    /\ reg.expires >= MinExpires /\ e <= reg.expires
    /\ lease' = e
    /\ reg' = [reg EXCEPT !.pc = "sleep", !.left = Wait(e)]
    /\ RegistrationOk
    /\ UNCHANGED <<conn, reach, faults, stopping, news>>

\* 423: the lifetime is raised to Min-Expires, and the request sent again.
TooBrief ==
    /\ reg.pc = "ask" /\ conn = "up" /\ reach /\ reg.expires < MinExpires
    /\ reg' = [reg EXCEPT !.expires = MinExpires]
    /\ UNCHANGED <<registered, lease, conn, reach, faults, stopping, alert, news>>

\* No answer, no connection, or a refusal: again in 30 seconds.
AskFails ==
    /\ reg.pc = "ask"
    /\ \/ ~reach /\ UNCHANGED faults
       \/ reach /\ faults < MaxFaults /\ faults' = faults + 1
    /\ reg' = [reg EXCEPT !.pc = "retry"]
    /\ RegistrationFails
    /\ UNCHANGED <<lease, conn, reach, stopping, news>>

\* Mutant: the registration task is cancelled and not started again.
ConnectionLostMutant ==
    /\ conn = "up" /\ faults < MaxFaults /\ reg.pc # "off"
    /\ conn' = "down" /\ faults' = faults + 1
    /\ reg' = IF stopping THEN reg ELSE [reg EXCEPT !.pc = "off"]
    /\ RegistrationFails
    /\ UNCHANGED <<lease, reach, stopping, news>>

\* The read loop ends: _on_transport_lost cancels the registration task and starts it again.
ConnectionLost ==
    /\ conn = "up" /\ faults < MaxFaults /\ reg.pc # "off"
    /\ conn' = "down" /\ faults' = faults + 1
    /\ reg' = IF stopping THEN reg ELSE [reg EXCEPT !.pc = "delay"]
    /\ RegistrationFails
    /\ UNCHANGED <<lease, reach, stopping, news>>

\* The network to the registrar comes and goes; the registrar keeps what it has granted.
ReachChanges ==
    /\ ~reach \/ faults < MaxFaults
    /\ reach' = ~reach /\ faults' = IF reach THEN faults + 1 ELSE faults
    /\ UNCHANGED <<reg, registered, lease, conn, stopping, alert, news>>

Tick ==
    /\ reg.pc = "sleep" => reg.left > 0
    /\ lease > 0
    /\ lease' = lease - 1
    /\ reg' = IF reg.pc = "sleep" THEN [reg EXCEPT !.left = @ - 1] ELSE reg
    /\ UNCHANGED <<registered, conn, reach, faults, stopping, alert, news>>

\* stop(): the task is cancelled; a registered account says goodbye before the connection closes.
LineStop ==
    /\ ~stopping /\ stopping' = TRUE
    /\ reg' = [reg EXCEPT !.pc = "leave"]
    /\ UNCHANGED <<registered, lease, conn, reach, faults, alert, news>>

Left ==
    /\ reg.pc = "leave"
    /\ reg' = [reg EXCEPT !.pc = "off"]
    /\ lease' = IF registered /\ conn = "up" /\ reach THEN 0 ELSE lease
    /\ conn' = "down"
    /\ IF conn = "up" THEN RegistrationFails ELSE UNCHANGED <<registered, alert>>
    /\ UNCHANGED <<reach, faults, stopping, news>>

\* _report_down: the line has been down for down_after; the message is written and sent.
ReportDown ==
    /\ alert.timer = "wait" /\ ~alert.ok
    /\ alert' = [alert EXCEPT !.timer = "send", !.reported = TRUE]
    /\ UNCHANGED <<reg, registered, lease, conn, reach, faults, stopping, news>>

SayDown ==
    /\ alert.timer = "send"
    /\ alert' = [alert EXCEPT !.timer = "none"] /\ news' = "down"
    /\ UNCHANGED <<reg, registered, lease, conn, reach, faults, stopping>>

SayOk ==
    /\ alert.ok
    /\ alert' = [alert EXCEPT !.ok = FALSE] /\ news' = "ok"
    /\ UNCHANGED <<reg, registered, lease, conn, reach, faults, stopping>>

LineSystem ==
    \/ Wake \/ Connect \/ TooBrief \/ Tick \/ Left \/ ReportDown \/ SayDown \/ SayOk
    \/ \E e \in Grants : Granted(e)
    \/ ~reach /\ AskFails

LineNext == LineSystem \/ AskFails \/ ConnectionLost \/ ReachChanges \/ LineStop

\* Sleeps end, requests are answered or time out, and messages get sent.
LineFairness ==
    /\ WF_lineVars(Wake) /\ WF_lineVars(Connect) /\ WF_lineVars(\E e \in Grants : Granted(e))
    /\ WF_lineVars(TooBrief) /\ WF_lineVars(Tick) /\ WF_lineVars(~reach /\ AskFails)
    /\ WF_lineVars(ReportDown) /\ WF_lineVars(SayDown) /\ WF_lineVars(SayOk) /\ WF_lineVars(Left)

LineSpec == LineInit /\ [][LineNext]_lineVars /\ LineFairness

-----------------------------------------------------------------------------
(* Properties *)

\* While the loop sleeps as registered, the registrar still holds the registration: it is renewed
\* before it runs out, whatever lifetime was granted; and there is a connection to be called on.
LeaseCovers ==
    /\ reg.pc = "sleep" => registered /\ lease > 0
    /\ registered /\ ~stopping => conn = "up"

\* A line that stays in reach is registered again, for good, and the last word the administrator
\* has of it is not that it is down.
LineSettles == <>[]reach => (<>stopping \/ <>[](registered /\ news # "down"))

=============================================================================
