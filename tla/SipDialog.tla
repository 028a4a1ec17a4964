----------------------------- MODULE SipDialog -----------------------------
(***************************************************************************)
(* One INVITE dialog of SipAccount over UDP (src/sipgram/sip/account.py),  *)
(* placed by the gateway (dir = "out") or by the PBX ("in"): the SipCall,  *)
(* its client and server transactions, the repeats and the deadlines, and  *)
(* the PBX at the other end.                                               *)
(*                                                                         *)
(* A request is identified by who sends it, its method and a number; its   *)
(* answers and its ACK carry the same identity.  A CANCEL has the branch   *)
(* of the INVITE it cancels: _client_txns has one place for the two.  A    *)
(* coroutine in _send_request waits for the future of its own request,     *)
(* whatever stands in the table.                                           *)
(*                                                                         *)
(* The network delivers datagrams in any order and, in a lossy scene,      *)
(* loses them. A repeat of a datagram that is still under way adds nothing *)
(* to it. Deadlines (8 or 32 seconds) are long against the life of a       *)
(* datagram and pass with none under way; "gaveUp" remembers that one      *)
(* passed although copies were still being sent, that is, that every copy  *)
(* or every answer was lost.                                               *)
(*                                                                         *)
(* Media, REFER, INFO, UPDATE and the challenge of a re-INVITE are left    *)
(* out; of the descriptions, only what they say about hold: a 200 is taken *)
(* to name a codec of the offer.                                           *)
(***************************************************************************)
EXTENDS Naturals, FiniteSets

CONSTANTS
    Scenes,       \* the dialogs to be looked at: who calls, does the network lose datagrams,
                  \* and who may send re-INVITEs
    MaxRe,        \* bound: re-INVITEs of the gateway
    MaxRefresh,   \* bound: re-INVITEs of the PBX
    Crowd         \* bound: a repeat is made while fewer datagrams than this are under way

ASSUME BoundsAssumption ==
    /\ Scenes \subseteq [dir : {"out", "in"}, lossy : BOOLEAN, re : SUBSET {"gw", "pbx"}]
    /\ MaxRe \in Nat /\ MaxRefresh \in Nat /\ Crowd \in Nat

VARIABLES
    scene,     \* which dialog this is
    gw,        \* the SipCall and the coroutines of its setup and of its re-INVITE
    last,      \* the last final response to an INVITE of the PBX, its ACK and its timer
    fut,       \* the future each _send_request of the gateway waits for
    table,     \* _client_txns: the request that holds a branch
    armed,     \* requests of the gateway that are being repeated
    cache,     \* _server_txns: the last response to each request of the PBX
    pbx,       \* the other end
    net,       \* datagrams under way
    gaveUp     \* did a deadline pass although repeats or datagrams were under way?

vars == <<scene, gw, last, fut, table, armed, cache, pbx, net, gaveUp>>

dir == scene.dir

Request(by, kind, n) == [by |-> by, kind |-> kind, n |-> n]
Invite(n) == Request("gw", "invite", n)      \* the second one answers a challenge
Bye       == Request("gw", "bye", 1)
Re(n)     == Request("gw", "re", n)
PInvite   == Request("pbx", "invite", 1)
PCancel   == Request("pbx", "cancel", 1)
PBye      == Request("pbx", "bye", 1)
PRe(n)    == Request("pbx", "re", n)

GwInvites == {Invite(1), Invite(2)}
CancelOf(r) == [r EXCEPT !.kind = "cancel"]
GwRequests == GwInvites \cup {CancelOf(r) : r \in GwInvites} \cup {Bye} \cup {Re(n) : n \in 1..MaxRe}
PbxRequests == {PInvite, PCancel, PBye} \cup {PRe(n) : n \in 1..MaxRefresh}
None == Request("none", "none", 0)

Branch(r) == IF r.kind = "cancel" THEN [r EXCEPT !.kind = "invite"] ELSE r
IsInvite(r) == r.kind \in {"invite", "re"}      \* the method is INVITE

Provisional == {"trying", "ringing", "early"}
Failure     == {"challenge", "refused", "cancelled", "pending"}
Final       == {"ok"} \cup Failure
Response    == Provisional \cup Final

Datagram(r, what) == [r |-> r, what |-> what, hold |-> FALSE]
Ask(r)    == Datagram(r, "request")
Offer(r, hold) == [Ask(r) EXCEPT !.hold = hold]
Ack(r)    == Datagram(r, "ack")
Reply(r, c) == Datagram(r, c)
Datagrams == [r : GwRequests \cup PbxRequests, what : Response \cup {"request", "ack"}, hold : BOOLEAN]

CallState == {"none", "new", "calling", "ringing", "early", "connected", "terminated"}
NoFinal == [to |-> None, code |-> "none", timer |-> FALSE]

SipCall == [st : CallState, answered : {"pending", "ok", "failed"},
            flow : {"none", "start", "wait", "done"}, inv : 0..2,
            re : {"idle", "first", "asleep", "second"}, rn : 0..MaxRe, hold : BOOLEAN,
            lastAck : GwRequests \cup {None}]
LastFinal == [to : PbxRequests \cup {None}, code : Final \cup {"none"}, timer : BOOLEAN]

PbxState == {"idle", "calling", "proceeding", "cancelling",    \* it places the call
             "trying", "ringing",                              \* it is called
             "up", "ending", "down"}
Pbx == [st : PbxState, resp : [GwRequests -> Response \cup {"none"}], unacked : SUBSET GwRequests,
        open : SUBSET PbxRequests, held : BOOLEAN, rn : 0..MaxRefresh]

TypeOK ==
    /\ scene \in Scenes
    /\ gw \in SipCall
    /\ last \in LastFinal
    /\ fut \in [GwRequests -> {"none", "open", "over"} \cup Final]
    /\ table \in [GwRequests -> GwRequests \cup {None}]
    /\ armed \subseteq GwRequests
    /\ cache \in [PbxRequests -> Response \cup {"none"}]
    /\ pbx \in Pbx
    /\ net \subseteq Datagrams
    /\ gaveUp \in BOOLEAN

Init ==
    /\ scene \in Scenes
    /\ gw = [st |-> IF dir = "out" THEN "new" ELSE "none", answered |-> "pending",
             flow |-> IF dir = "out" THEN "start" ELSE "none", inv |-> 0,
             re |-> "idle", rn |-> 0, hold |-> FALSE, lastAck |-> None]
    /\ last = NoFinal
    /\ fut = [r \in GwRequests |-> "none"]
    /\ table = [r \in GwRequests |-> None]
    /\ armed = {}
    /\ cache = [r \in PbxRequests |-> "none"]
    /\ pbx = [st |-> "idle", resp |-> [r \in GwRequests |-> "none"], unacked |-> {}, open |-> {},
              held |-> FALSE, rn |-> 0]
    /\ net = {}
    /\ gaveUp = FALSE

-----------------------------------------------------------------------------
(* Helpers *)

\* What _terminate does to the call; its timer goes with it.
Ended(g) ==
    IF g.st = "terminated" THEN g
    ELSE [g EXCEPT !.st = "terminated", !.answered = IF @ = "pending" THEN "failed" ELSE @]
TimerOff == last' = [last EXCEPT !.timer = FALSE]

\* The tables after _send_request has begun, and after it has returned: its
\* "finally" takes out whatever stands at the branch.
Opened(t, r)   == [t EXCEPT ![Branch(r)] = r]
Returned(t, r) == [t EXCEPT ![Branch(r)] = None]
Begin(r) ==
    /\ fut' = [fut EXCEPT ![r] = "open"]
    /\ table' = Opened(table, r)
    /\ armed' = armed \cup {r}
Return(r) ==
    /\ fut' = [fut EXCEPT ![r] = "over"]
    /\ table' = Returned(table, r)
    /\ armed' = armed \ {r, table[Branch(r)]}
\* One request returns and the coroutine sends the next.
ReturnThenBegin(r, s) ==
    /\ fut' = [fut EXCEPT ![r] = "over", ![s] = "open"]
    /\ table' = Opened(Returned(table, r), s)
    /\ armed' = (armed \ {r, table[Branch(r)]}) \cup {s}

Send(ms) == net' = net \cup ms
Repeat(m) == m \notin net /\ Cardinality(net) < Crowd /\ Send({m})
Answers(m, ms) == net' = (net \ {m}) \cup ms

clients == <<fut, table, armed>>

-----------------------------------------------------------------------------
(* A call of the gateway: _invite_flow *)

FlowStart ==
    /\ gw.flow = "start"
    /\ gw' = [gw EXCEPT !.flow = "wait", !.inv = 1, !.st = IF @ = "terminated" THEN @ ELSE "calling"]
    /\ Begin(Invite(1))
    /\ Send({Ask(Invite(1))})
    /\ UNCHANGED <<scene, last, cache, pbx, gaveUp>>

\* The request the flow waits for has got the answer c.
FlowGets(c) == gw.flow = "wait" /\ fut[Invite(gw.inv)] = c

FlowChallenged ==
    /\ FlowGets("challenge")
    /\ gw.inv = 1
    /\ gw' = [gw EXCEPT !.inv = 2]
    /\ ReturnThenBegin(Invite(1), Invite(2))
    /\ Send({Ask(Invite(2))})
    /\ UNCHANGED <<scene, last, cache, pbx, gaveUp>>

FlowFails ==
    /\ \E c \in Failure : FlowGets(c) /\ (c = "challenge" => gw.inv = 2)
    /\ gw' = [Ended(gw) EXCEPT !.flow = "done"]
    /\ Return(Invite(gw.inv))
    /\ TimerOff
    /\ UNCHANGED <<scene, cache, pbx, net, gaveUp>>

FlowUpMutant ==
    /\ FlowGets("ok")
    /\ gw' = [gw EXCEPT !.flow = "done", !.st = "connected", !.answered = "ok", !.lastAck = Invite(gw.inv)]
    /\ Return(Invite(gw.inv))
    /\ Send({Ack(Invite(gw.inv))})
    /\ UNCHANGED <<scene, last, cache, pbx, gaveUp>>

FlowUp ==
    /\ FlowGets("ok")
    /\ gw.st # "terminated"
    /\ gw' = [gw EXCEPT !.flow = "done", !.st = "connected", !.answered = "ok", !.lastAck = Invite(gw.inv)]
    /\ Return(Invite(gw.inv))
    /\ Send({Ack(Invite(gw.inv))})
    /\ UNCHANGED <<scene, last, cache, pbx, gaveUp>>

FlowTooLateMutant ==
    /\ FlowGets("ok")
    /\ gw.st = "terminated"
    /\ gw' = [gw EXCEPT !.flow = "done", !.lastAck = Invite(gw.inv)]
    /\ Return(Invite(gw.inv))
    /\ Send({Ack(Invite(gw.inv))})
    /\ UNCHANGED <<scene, last, cache, pbx, gaveUp>>

\* The callee was quicker than the hangup: ACK, then _bye_after_cancel.
FlowTooLate ==
    /\ FlowGets("ok")
    /\ gw.st = "terminated"
    /\ gw' = [gw EXCEPT !.flow = "done", !.lastAck = Invite(gw.inv)]
    /\ ReturnThenBegin(Invite(gw.inv), Bye)
    /\ Send({Ack(Invite(gw.inv)), Ask(Bye)})
    /\ UNCHANGED <<scene, last, cache, pbx, gaveUp>>

-----------------------------------------------------------------------------
(* SipCall.hangup *)

HangupNew ==
    /\ dir = "out"
    /\ gw.st = "new"
    /\ gw' = Ended(gw)
    /\ TimerOff
    /\ UNCHANGED <<scene, clients, cache, pbx, net, gaveUp>>

Cancel ==
    /\ dir = "out"
    /\ gw.st \in {"calling", "ringing", "early"}
    /\ gw' = Ended(gw)
    /\ TimerOff
    /\ LET c == CancelOf(Invite(gw.inv)) IN Begin(c) /\ Send({Ask(c)})
    /\ UNCHANGED <<scene, cache, pbx, gaveUp>>

\* Ends a call that is up.
SendBye ==
    /\ gw' = Ended(gw)
    /\ TimerOff
    /\ Begin(Bye)
    /\ Send({Ask(Bye)})

Hangup ==
    /\ gw.st = "connected"
    /\ SendBye
    /\ UNCHANGED <<scene, cache, pbx, gaveUp>>

\* The CANCEL or the BYE is answered; nobody looks at the answer.
HangupReturns(r) ==
    /\ r.kind \in {"cancel", "bye"}
    /\ fut[r] \in Final
    /\ Return(r)
    /\ UNCHANGED <<scene, gw, last, cache, pbx, net, gaveUp>>

-----------------------------------------------------------------------------
(* SipCall.hold and unhold: SipAccount.reinvite *)

SendRe(pc) ==
    /\ gw' = [gw EXCEPT !.re = pc, !.rn = @ + 1]
    /\ Begin(Re(gw.rn + 1))
    /\ Send({Offer(Re(gw.rn + 1), ~gw.hold)})
    /\ UNCHANGED <<scene, last, cache, pbx, gaveUp>>

Reinvite ==
    /\ gw.st = "connected"
    /\ gw.re = "idle"
    /\ "gw" \in scene.re
    /\ gw.rn + 1 < MaxRe
    /\ SendRe("first")

ReinviteAgain == gw.re = "asleep" /\ SendRe("second")

ReGets(c) == gw.re \in {"first", "second"} /\ fut[Re(gw.rn)] = c

ReinviteDone ==
    /\ ReGets("ok")
    /\ gw' = [gw EXCEPT !.re = "idle", !.hold = ~@, !.lastAck = Re(gw.rn)]
    /\ Return(Re(gw.rn))
    /\ Send({Ack(Re(gw.rn))})
    /\ UNCHANGED <<scene, last, cache, pbx, gaveUp>>

ReinviteRefusedHoldMutant ==
    /\ \E c \in Failure :
        /\ ReGets(c)
        /\ gw' = IF c = "pending" /\ gw.re = "first" THEN [gw EXCEPT !.re = "asleep"]
                 ELSE [gw EXCEPT !.re = "idle", !.hold = ~@]
    /\ Return(Re(gw.rn))
    /\ UNCHANGED <<scene, last, cache, pbx, net, gaveUp>>

ReinviteRefusedAgainMutant ==
    /\ \E c \in Failure :
        /\ ReGets(c)
        /\ gw' = [gw EXCEPT !.re = IF c = "pending" THEN "asleep" ELSE "idle"]
    /\ Return(Re(gw.rn))
    /\ UNCHANGED <<scene, last, cache, pbx, net, gaveUp>>

ReinviteRefused ==
    /\ \E c \in Failure :
        /\ ReGets(c)
        /\ gw' = [gw EXCEPT !.re = IF c = "pending" /\ gw.re = "first" THEN "asleep" ELSE "idle"]
    /\ Return(Re(gw.rn))
    /\ UNCHANGED <<scene, last, cache, pbx, net, gaveUp>>

-----------------------------------------------------------------------------
(* Client transactions *)

DeadlineMutant(r) ==
    /\ fut[r] = "open"
    /\ net = {}
    /\ gw' = CASE r.kind = "invite" -> [gw EXCEPT !.flow = "done"]
               [] r.kind = "re" -> [gw EXCEPT !.re = "idle"]
               [] OTHER -> gw
    /\ UNCHANGED last
    /\ Return(r)
    /\ gaveUp' = (gaveUp \/ r \in armed)
    /\ UNCHANGED <<scene, cache, pbx, net>>

\* The deadline of a request passes before an answer has come.
Deadline(r) ==
    /\ fut[r] = "open"
    /\ net = {}
    /\ gw' = CASE r.kind = "invite" -> [Ended(gw) EXCEPT !.flow = "done"]
               [] r.kind = "re" -> [gw EXCEPT !.re = "idle"]
               [] OTHER -> gw
    /\ IF r.kind = "invite" THEN TimerOff ELSE UNCHANGED last
    /\ Return(r)
    /\ gaveUp' = (gaveUp \/ r \in armed)
    /\ UNCHANGED <<scene, cache, pbx, net>>

\* The timer set for r repeats what now stands at its branch.
Retransmit(r) ==
    LET s == table[Branch(r)] IN
    /\ r \in armed
    /\ s # None
    /\ fut[s] = "open"
    /\ Repeat(Offer(s, s.kind = "re" /\ ~gw.hold))
    /\ UNCHANGED <<scene, gw, last, clients, cache, pbx, gaveUp>>

\* A response to a request no longer waited for: only a repeated 2xx matters.
StrayResponse(m) ==
    /\ table[Branch(m.r)] = None
    /\ LET again == IsInvite(m.r) /\ m.what = "ok" /\ gw.st # "terminated" /\ gw.lastAck # None
       IN Answers(m, IF again THEN {Ack(gw.lastAck)} ELSE {})
    /\ UNCHANGED <<gw, fut, armed>>

ProvisionalResponse(m) ==
    LET t == table[Branch(m.r)] IN
    /\ t # None
    /\ m.what \in Provisional
    /\ armed' = armed \ {t}
    /\ gw' = IF t.kind # "invite" \/ gw.st = "terminated" THEN gw
             ELSE CASE m.what = "early" -> [gw EXCEPT !.st = "early"]
                    [] m.what = "ringing" /\ gw.st = "calling" -> [gw EXCEPT !.st = "ringing"]
                    [] OTHER -> gw
    /\ Answers(m, {})
    /\ UNCHANGED fut

\* The transaction found at the branch is taken to be the one answered.
FinalResponse(m) ==
    LET t == table[Branch(m.r)] IN
    /\ t # None
    /\ m.what \in Final
    /\ Answers(m, IF IsInvite(m.r) /\ IsInvite(t) /\ m.what \in Failure THEN {Ack(t)} ELSE {})
    /\ fut' = [fut EXCEPT ![t] = IF @ = "open" THEN m.what ELSE @]
    /\ UNCHANGED <<gw, armed>>

HandleResponse(m) ==
    /\ m \in net
    /\ m.r.by = "gw"
    /\ m.what \in Response
    /\ StrayResponse(m) \/ ProvisionalResponse(m) \/ FinalResponse(m)
    /\ UNCHANGED <<scene, last, table, cache, pbx, gaveUp>>

-----------------------------------------------------------------------------
(* Server transactions: requests of the PBX *)

\* _send_response: the response is kept for repeats of the request.
Respond(r, c, more) ==
    /\ cache' = [cache EXCEPT ![r] = c]
    /\ Send({Reply(r, c)} \cup more)
RespondTo(m, c) ==
    /\ cache' = [cache EXCEPT ![m.r] = c]
    /\ Answers(m, {Reply(m.r, c)})
\* _send_final
SendFinal(r, c, timer) == last' = [to |-> r, code |-> c, timer |-> timer]

\* A request m of the kind k arrives for the first time.
Arrives(m, k) == m \in net /\ m.what = "request" /\ m.r.by = "pbx" /\ m.r.kind = k /\ cache[m.r] = "none"

Repeated(m) ==
    /\ m \in net
    /\ m.what = "request"
    /\ m.r.by = "pbx"
    /\ cache[m.r] # "none"
    /\ Answers(m, {Reply(m.r, cache[m.r])})
    /\ UNCHANGED <<scene, gw, last, clients, cache, pbx, gaveUp>>

\* The call is made, or refused for want of a port or of a common codec.
HandleNewInvite(m) ==
    /\ Arrives(m, "invite")
    /\ \/ /\ RespondTo(m, "trying")
          /\ gw' = [gw EXCEPT !.st = "new"]
       \/ /\ cache' = [cache EXCEPT ![m.r] = "refused"]
          /\ Answers(m, {Reply(m.r, "trying"), Reply(m.r, "refused")})
          /\ UNCHANGED gw
    /\ UNCHANGED <<scene, last, clients, pbx, gaveUp>>

Ringing ==
    /\ dir = "in"
    /\ gw.st \in {"new", "ringing"}
    /\ gw' = [gw EXCEPT !.st = "ringing"]
    /\ Respond(PInvite, "ringing", {})
    /\ UNCHANGED <<scene, last, clients, pbx, gaveUp>>

AnswerMutant ==
    /\ dir = "in"
    /\ gw.st \notin {"none", "connected"}
    /\ gw' = [gw EXCEPT !.st = "connected"]
    /\ SendFinal(PInvite, "ok", TRUE)
    /\ Respond(PInvite, "ok", {})
    /\ UNCHANGED <<scene, clients, pbx, gaveUp>>

Answer ==
    /\ dir = "in"
    /\ gw.st \notin {"none", "connected", "terminated"}
    /\ gw' = [gw EXCEPT !.st = "connected"]
    /\ SendFinal(PInvite, "ok", TRUE)
    /\ Respond(PInvite, "ok", {})
    /\ UNCHANGED <<scene, clients, pbx, gaveUp>>

\* reject and redirect: _terminate stops the timer _send_final has set.
Reject ==
    /\ dir = "in"
    /\ gw.st \notin {"none", "connected", "terminated"}
    /\ gw' = Ended(gw)
    /\ SendFinal(PInvite, "refused", FALSE)
    /\ Respond(PInvite, "refused", {})
    /\ UNCHANGED <<scene, clients, pbx, gaveUp>>

RetransmitFinalMutant ==
    /\ last.timer
    /\ Repeat(Reply(last.to, last.code))
    /\ TimerOff
    /\ UNCHANGED <<scene, gw, clients, cache, pbx, gaveUp>>

RetransmitFinal ==
    /\ last.timer
    /\ Repeat(Reply(last.to, last.code))
    /\ UNCHANGED <<scene, gw, last, clients, cache, pbx, gaveUp>>

\* No ACK in time: the call is hung up.
NoAck ==
    /\ last.timer
    /\ net = {}
    /\ SendBye
    /\ gaveUp' = TRUE
    /\ UNCHANGED <<scene, cache, pbx>>

\* Any ACK of the dialog counts; it finds no call when the call has ended.
HandleAck(m) ==
    /\ m \in net
    /\ m.what = "ack"
    /\ m.r.by = "pbx"
    /\ last' = IF gw.st \in {"none", "terminated"} THEN last ELSE [last EXCEPT !.timer = FALSE]
    /\ gw' = IF gw.st # "terminated" /\ last.code = "ok" THEN [gw EXCEPT !.st = "connected"] ELSE gw
    /\ Answers(m, {})
    /\ UNCHANGED <<scene, clients, cache, pbx, gaveUp>>

HandleCancel(m) ==
    /\ Arrives(m, "cancel")
    /\ IF gw.st \in {"new", "ringing"}
       THEN /\ cache' = [cache EXCEPT ![m.r] = "ok", ![PInvite] = "cancelled"]
            /\ Answers(m, {Reply(m.r, "ok"), Reply(PInvite, "cancelled")})
            /\ gw' = Ended(gw)
            /\ TimerOff
       ELSE RespondTo(m, "refused") /\ UNCHANGED <<gw, last>>
    /\ UNCHANGED <<scene, clients, pbx, gaveUp>>

HandleBye(m) ==
    /\ Arrives(m, "bye")
    /\ RespondTo(m, IF gw.st = "terminated" THEN "refused" ELSE "ok")
    /\ gw' = Ended(gw)
    /\ TimerOff
    /\ UNCHANGED <<scene, clients, pbx, gaveUp>>

HandleReinvite(m) ==
    /\ Arrives(m, "re")
    /\ gw.st # "terminated"
    /\ IF gw.st # "connected" \/ gw.re # "idle"
       THEN RespondTo(m, "pending") /\ UNCHANGED last
       ELSE RespondTo(m, "ok") /\ SendFinal(m.r, "ok", TRUE)
    /\ UNCHANGED <<scene, gw, clients, pbx, gaveUp>>

\* An INVITE of a dialog that has ended is taken for a new call, as its
\* Call-ID is no longer known.  The second SipCall is not followed.
ReinviteAsNew(m) ==
    /\ Arrives(m, "re")
    /\ gw.st = "terminated"
    /\ RespondTo(m, "trying")
    /\ UNCHANGED <<scene, gw, last, clients, pbx, gaveUp>>

-----------------------------------------------------------------------------
(* The PBX calling.  It repeats a request until it is answered. *)

mine == <<scene, gw, last, clients, cache, gaveUp>>

PAsk(r, g) ==
    /\ pbx' = [g EXCEPT !.open = @ \cup {r}]
    /\ Send({Ask(r)})
    /\ UNCHANGED mine

PbxCalls   == dir = "in" /\ pbx.st = "idle" /\ PAsk(PInvite, [pbx EXCEPT !.st = "calling"])
PbxCancels == pbx.st = "proceeding" /\ PAsk(PCancel, [pbx EXCEPT !.st = "cancelling"])
PbxHangsUp == pbx.st = "up" /\ PAsk(PBye, [pbx EXCEPT !.st = "ending"])

PbxReinvites ==
    /\ pbx.st = "up"
    /\ "pbx" \in scene.re
    /\ pbx.rn < MaxRefresh
    /\ \A r \in pbx.open \cup pbx.unacked : ~IsInvite(r)
    /\ PAsk(PRe(pbx.rn + 1), [pbx EXCEPT !.rn = @ + 1])

PbxRepeats ==
    /\ \E r \in pbx.open : Repeat(Ask(r))
    /\ UNCHANGED <<mine, pbx>>

\* A CANCEL that was answered, and no final response to the INVITE.
PbxGivesUpCall ==
    /\ pbx.st = "cancelling"
    /\ pbx.open = {}
    /\ net = {}
    /\ pbx' = [pbx EXCEPT !.st = "down"]
    /\ UNCHANGED <<mine, net>>

PbxHears(m) ==
    /\ m \in net
    /\ m.r.by = "pbx"
    /\ m.what \in Response
    /\ LET p == [pbx EXCEPT !.open = @ \ {m.r}]
           late == m.r = PInvite /\ m.what = "ok" /\ pbx.st = "cancelling"
       IN /\ Answers(m, (IF IsInvite(m.r) /\ m.what \in Final /\ pbx.st # "down" THEN {Ack(m.r)} ELSE {})
                        \cup (IF late THEN {Ask(PBye)} ELSE {}))
          /\ pbx' = CASE late -> [p EXCEPT !.st = "ending", !.open = @ \cup {PBye}]
                      [] m.r = PInvite /\ m.what \in Provisional /\ pbx.st = "calling" -> [p EXCEPT !.st = "proceeding"]
                      [] m.r = PInvite /\ m.what = "ok" /\ pbx.st \in {"calling", "proceeding"} -> [p EXCEPT !.st = "up"]
                      [] m.r = PInvite /\ m.what \in Failure -> [p EXCEPT !.st = "down"]
                      [] m.r = PBye -> [p EXCEPT !.st = "down"]
                      [] OTHER -> p
    /\ UNCHANGED mine

-----------------------------------------------------------------------------
(* The PBX called.  It repeats a final response to an INVITE until the ACK. *)

PAnswers(m, r, c, g) ==
    /\ pbx' = [g EXCEPT !.resp[r] = c, !.unacked = IF IsInvite(r) /\ c \in Final THEN @ \cup {r} ELSE @]
    /\ net' = (net \ m) \cup {Reply(r, c)}
    /\ UNCHANGED mine

PbxInvited(m) ==
    /\ m.r \in GwInvites
    /\ \/ m.r = Invite(1) /\ PAnswers({m}, m.r, "challenge", pbx)
       \/ pbx.st = "idle" /\ PAnswers({m}, m.r, "trying", [pbx EXCEPT !.st = "trying"])

PbxCancelled(m) ==
    LET inv == Branch(m.r) IN
    /\ m.r.kind = "cancel"
    /\ IF pbx.resp[inv] \in Provisional
       THEN /\ pbx' = [pbx EXCEPT !.st = "down", !.resp[m.r] = "ok", !.resp[inv] = "cancelled",
                                  !.unacked = @ \cup {inv}]
            /\ Answers(m, {Reply(m.r, "ok"), Reply(inv, "cancelled")})
            /\ UNCHANGED mine
       ELSE PAnswers({m}, m.r, "ok", pbx)

PbxByed(m) ==
    /\ m.r = Bye
    /\ IF pbx.st \in {"calling", "proceeding", "cancelling", "up"}
       THEN PAnswers({m}, m.r, "ok", [pbx EXCEPT !.st = "down", !.unacked = {}, !.open = {}])
       ELSE PAnswers({m}, m.r, "ok", pbx)

PbxReinvited(m) ==
    /\ m.r.kind = "re"
    /\ IF pbx.st # "up" THEN PAnswers({m}, m.r, "refused", pbx)
       ELSE IF \E r \in pbx.open \cup pbx.unacked : IsInvite(r) THEN PAnswers({m}, m.r, "pending", pbx)
       ELSE PAnswers({m}, m.r, "ok", [pbx EXCEPT !.held = m.hold])

PbxIsAsked(m) ==
    /\ m \in net
    /\ m.what = "request"
    /\ m.r.by = "gw"
    /\ IF pbx.resp[m.r] # "none"
       THEN Answers(m, {Reply(m.r, pbx.resp[m.r])}) /\ UNCHANGED <<mine, pbx>>
       ELSE PbxInvited(m) \/ PbxCancelled(m) \/ PbxByed(m) \/ PbxReinvited(m)

\* The INVITE it is working on.
Serving == CHOOSE r \in GwInvites : pbx.resp[r] \in Provisional

PbxRings(c) ==
    /\ pbx.st = "trying"
    /\ PAnswers({}, Serving, c, [pbx EXCEPT !.st = "ringing"])
PbxPicksUp == pbx.st \in {"trying", "ringing"} /\ PAnswers({}, Serving, "ok", [pbx EXCEPT !.st = "up"])
PbxRefuses == pbx.st \in {"trying", "ringing"} /\ PAnswers({}, Serving, "refused", [pbx EXCEPT !.st = "down"])

PbxAcked(m) ==
    /\ m \in net
    /\ m.what = "ack"
    /\ m.r.by = "gw"
    /\ pbx' = [pbx EXCEPT !.unacked = @ \ {m.r}]
    /\ Answers(m, {})
    /\ UNCHANGED mine

PbxRepeatsFinal ==
    /\ \E r \in pbx.unacked : Repeat(Reply(r, pbx.resp[r]))
    /\ UNCHANGED <<mine, pbx>>

\* A final response is not ACKed in time; a call that stands on it is hung up.
PbxMissesAck(r) ==
    /\ r \in pbx.unacked
    /\ net = {}
    /\ IF pbx.resp[r] = "ok" /\ pbx.st = "up"
       THEN PAsk(PBye, [pbx EXCEPT !.st = "ending", !.unacked = @ \ {r}])
       ELSE pbx' = [pbx EXCEPT !.unacked = @ \ {r}] /\ UNCHANGED <<mine, net>>

-----------------------------------------------------------------------------
(* The network, and the whole *)

Lose ==
    /\ scene.lossy
    /\ \E m \in net : Answers(m, {})
    /\ UNCHANGED <<mine, pbx>>

\* Nothing is under way and nobody repeats, waits or owes anything.
Rest ==
    /\ net = {}
    /\ gw.flow # "start" /\ gw.re = "idle" /\ ~last.timer
    /\ \A r \in GwRequests : fut[r] \in {"none", "over"}
    /\ pbx.open = {} /\ pbx.unacked = {}

Over == Rest /\ pbx.st \in {"idle", "down"} /\ gw.st \in {"none", "terminated"} /\ UNCHANGED vars

Gateway ==
    \/ FlowStart \/ FlowChallenged \/ FlowFails \/ FlowUp \/ FlowTooLate
    \/ HangupNew \/ Cancel \/ Hangup \/ \E r \in GwRequests : HangupReturns(r)
    \/ Reinvite \/ ReinviteAgain \/ ReinviteDone \/ ReinviteRefused
    \/ \E r \in GwRequests : Deadline(r) \/ Retransmit(r)
    \/ Ringing \/ Answer \/ Reject \/ RetransmitFinal \/ NoAck

Delivery ==
    \E m \in net :
        \/ HandleResponse(m) \/ Repeated(m) \/ HandleNewInvite(m) \/ HandleAck(m) \/ HandleCancel(m)
        \/ HandleBye(m) \/ HandleReinvite(m) \/ ReinviteAsNew(m)
        \/ PbxHears(m) \/ PbxIsAsked(m) \/ PbxAcked(m)

Peer ==
    \/ PbxCalls \/ PbxCancels \/ PbxHangsUp \/ PbxReinvites \/ PbxRepeats \/ PbxGivesUpCall
    \/ \E c \in {"ringing", "early"} : PbxRings(c)
    \/ PbxPicksUp \/ PbxRefuses \/ PbxRepeatsFinal \/ \E r \in GwRequests : PbxMissesAck(r)

Next == Gateway \/ Delivery \/ Peer \/ Lose \/ Over

Spec == Init /\ [][Next]_vars

(***************************************************************************)
(* The network does not keep a datagram for ever, coroutines whose future  *)
(* is set go on, and deadlines pass: the clock does not wait for a chain   *)
(* of repeats to end, hence strong fairness.  Nothing is asked of users,   *)
(* of the PBX or of repeats.                                               *)
(***************************************************************************)
Fairness ==
    /\ WF_vars(Delivery)
    /\ WF_vars(FlowStart \/ FlowChallenged \/ FlowFails \/ FlowUp \/ FlowTooLate)
    /\ \A r \in GwInvites : SF_vars(Deadline(r))
    /\ SF_vars(NoAck)

FairSpec == Spec /\ Fairness

-----------------------------------------------------------------------------
(* Properties *)

\* When all has come to rest the gateway has a call that is up exactly if the
\* PBX has, unless every copy of a request was lost: through lost and late
\* datagrams, a CANCEL or a BYE that crosses the 200, a call hung up while its
\* ACK is missing, and the 200 of a call that was cancelled a moment before.
AgreeAtRest == Rest /\ ~gaveUp => (pbx.st = "up" <=> gw.st = "connected")

\* "INVITE/ACK/BYE/CANCEL in both directions" (README.md:593): the final
\* response to an INVITE that was cancelled is ACKed like any other, once it
\* has arrived and every coroutine that can go on has done so.
CancelledIsAcked ==
    /\ net = {}
    /\ \E r \in GwInvites : fut[CancelOf(r)] # "none"
    /\ \A r \in GwRequests : fut[r] \notin Final
    => pbx.unacked = {}

\* Hold is where the gateway thinks it is: SipCall.local_hold tells what the
\* PBX was told last, also after re-INVITEs that crossed and were refused.
HoldAgrees == Rest /\ ~gaveUp /\ gw.st = "connected" => (pbx.held <=> gw.hold)

\* A request of the PBX has one final response: a call that was answered is
\* not refused or cancelled afterwards, nor the other way round.
OneFinal == [][\A r \in PbxRequests : cache[r] \in Final => cache'[r] = cache[r]]_vars

\* invite: "Await call.answered for the 200 OK (raises CallError on failure)":
\* the one who waits learns the outcome whatever the network does.
InviteSettles == dir = "out" ~> gw.answered # "pending"

\* An answer that the PBX never learns of does not leave the gateway talking
\* to nobody: the final response is repeated until the ACK, or the call ends.
AnswerIsHeard ==
    LET alone == gw.st = "connected" /\ pbx.st \in {"calling", "proceeding", "cancelling"}
    IN alone ~> ~alone

GwSide  == CASE gw.st = "none" -> "idle"
             [] gw.st = "connected" -> "up"
             [] gw.st = "terminated" -> "down"
             [] OTHER -> "trying"
PbxSide == CASE pbx.st \in {"idle", "up"} -> pbx.st
             [] pbx.st \in {"ending", "down"} -> "down"
             [] OTHER -> "trying"

Session == INSTANCE SipSession WITH
    caller <- IF dir = "out" THEN GwSide ELSE PbxSide,
    callee <- IF dir = "out" THEN PbxSide ELSE GwSide,
    accepted <- IF dir = "out" THEN \E r \in GwInvites : pbx.resp[r] = "ok" ELSE cache[PInvite] = "ok"

\* The dialog is a session: nobody is up before the callee has accepted, and
\* who has left stays away, whatever arrives late or twice.
SessionSpec == Session!SessionSpec

=============================================================================
