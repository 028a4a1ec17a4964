--------------------------- MODULE SipDialogProofs ---------------------------
(***************************************************************************)
(* Proofs about SipDialog, for every number of re-INVITEs and of refreshes *)
(* and every set of scenes.                                                *)
(*                                                                         *)
(* DialogInv is the invariant that the others stand on.  Its parts say     *)
(* where the coroutines of a call are (FlowInv, ReInv, HangupInv), what    *)
(* stands in the table of client transactions (TableInv), that a datagram  *)
(* on the wire says what its sender remembers (NetInv), and what the two   *)
(* ends have answered each other for the state they are in (RespInv,       *)
(* CalledInv, AskInv, AnswerInv, LastInv).  They need each other: that the *)
(* PBX is up after it accepted an INVITE of ours rests on the wire, the    *)
(* wire on what the PBX remembers, and what a coroutine returns on both.   *)
(* From it come the types, the single final answer and the refinement of   *)
(* SipSession.                                                             *)
(*                                                                         *)
(* AgreeInv follows a difference between the two ends until it is mended:  *)
(* wherever one is up and the other is not, a 200 is not ACKed yet, a BYE  *)
(* is under way, or the timer of a final response runs.  HoldInv does the  *)
(* same for hold: the two ends differ only while a re-INVITE that the PBX  *)
(* has accepted is waited for.                                             *)
(*                                                                         *)
(* Of the lemmas about an action, those that end in Keeps say that it      *)
(* preserves DialogInv, in Moves that it is one of the few kinds of steps  *)
(* that ...Agrees are about, in Steady that it leaves alone what HoldInv   *)
(* is about, and in Sides what it is in terms of the session.              *)
(***************************************************************************)
EXTENDS SipDialog, TLAPS

Live    == {"open"} \cup Final
Pending == gw.re \in {"first", "second"}

\* The coroutine of a call: where it is, what it has sent, what the call may be.
FlowInv ==
    /\ dir = "out" <=> gw.flow # "none"
    /\ gw.flow = "start" => gw.st \in {"new", "terminated"} /\ gw.inv = 0
    /\ gw.flow = "wait" => gw.st \in {"calling", "ringing", "early", "terminated"} /\ gw.inv \in {1, 2}
    /\ gw.flow = "done" => gw.st \in {"connected", "terminated"}
    /\ gw.flow = "none" => gw.st \in {"none", "new", "ringing", "connected", "terminated"} /\ gw.inv = 0
    /\ gw.st = "none" => dir = "in"
    /\ \A r \in GwInvites : /\ fut[r] \in Live <=> gw.flow = "wait" /\ gw.inv = r.n
                            /\ fut[r] # "none" <=> r.n <= gw.inv
    /\ gw.lastAck.kind = "invite" => gw.flow = "done"

\* A CANCEL belongs to a call placed and ended, a BYE to one that was up and has ended.
HangupInv ==
    /\ \A r \in GwRequests : r.kind = "cancel" /\ fut[r] # "none" =>
        dir = "out" /\ gw.st = "terminated" /\ fut[Branch(r)] # "none"
    /\ fut[Bye] # "none" => gw.st = "terminated" /\ gw.flow \in {"none", "done"}
    /\ fut[Bye] = "open" => Bye \in armed

\* re-INVITEs are sent one after the other.
ReInv ==
    /\ gw.re # "idle" => gw.rn >= 1
    /\ gw.re \in {"first", "asleep"} => gw.rn < MaxRe
    /\ gw.rn > 0 => gw.st \in {"connected", "terminated"} /\ gw.flow \in {"none", "done"}
    /\ \A r \in GwRequests : r.kind = "re" =>
        /\ fut[r] \in Live <=> Pending /\ r.n = gw.rn
        /\ fut[r] # "none" <=> r.n <= gw.rn
        /\ fut[r] = "open" => r \in armed

\* A request stands at its own branch, while its coroutine waits; a CANCEL takes the place of its INVITE.
TableInv ==
    /\ \A b \in GwRequests : table[b] # None => Branch(table[b]) = b /\ fut[table[b]] \in Live
    /\ \A r \in GwInvites : table[r] = r => fut[CancelOf(r)] = "none"
    /\ gw.lastAck # None => IsInvite(gw.lastAck) /\ fut[gw.lastAck] = "over"

\* Nothing is under way of a request not yet sent; a response says what the
\* other end remembers, and only a final response to an INVITE is ACKed.
GwDatagram(m) ==
    /\ fut[m.r] # "none"
    /\ m.what \in Final => pbx.resp[m.r] = m.what
    /\ m.what \in Provisional => pbx.resp[m.r] # "none" /\ m.r \in GwInvites
    /\ m.what = "ack" => pbx.resp[m.r] \in Final
PbxDatagram(m) ==
    /\ m.what \in Final => cache[m.r] = m.what
    /\ m.what \in Provisional => cache[m.r] # "none"
    /\ m.what = "ack" => cache[m.r] \in Final
NetInv ==
    /\ \A m \in net : m.r \in GwRequests => GwDatagram(m)
    /\ \A m \in net : m.r \in PbxRequests => PbxDatagram(m)

\* What the PBX has answered to requests of the gateway.
RespInv ==
    /\ \A r \in GwRequests :
        /\ pbx.resp[r] # "none" => fut[r] # "none"
        /\ fut[r] \in Final /\ r.kind # "cancel" => pbx.resp[r] = fut[r]
        /\ pbx.resp[r] \in Provisional => r \in GwInvites
        /\ r \in pbx.unacked => pbx.resp[r] \in Final /\ IsInvite(r)
    /\ fut[Invite(2)] # "none" => pbx.resp[Invite(1)] = "challenge"
    /\ pbx.resp[Bye] # "none" => pbx.st \in {"ending", "down"}
    /\ gw.lastAck # None => pbx.resp[gw.lastAck] \in Final

\* The PBX called.
CalledInv == dir = "out" =>
    /\ pbx.st \notin {"calling", "proceeding", "cancelling"}
    /\ pbx.st = "idle" <=> \A r \in GwInvites : pbx.resp[r] \in {"none", "challenge"}
    /\ pbx.st \in {"trying", "ringing"} <=> \E r \in GwInvites : pbx.resp[r] \in Provisional
    /\ pbx.st \in {"up", "ending"} => \E r \in GwInvites : pbx.resp[r] = "ok"
    /\ gw.st = "connected" \/ fut[Bye] # "none" \/ gw.rn > 0 => \E r \in GwInvites : pbx.resp[r] = "ok"

\* What the PBX has asked, and when.
Asked(r) == cache[r] # "none" \/ r \in pbx.open \/ \E m \in net : m.r = r
MayAsk(r) ==
    /\ pbx.st # "idle"
    /\ r.kind \in {"invite", "cancel"} => dir = "in"
    /\ r.kind = "bye" => pbx.st \in {"ending", "down"}
    /\ r.kind = "re" => pbx.st \in {"up", "ending", "down"} /\ r.n <= pbx.rn
    /\ r.kind \in {"bye", "re"} /\ dir = "in" => cache[PInvite] = "ok"
AskInv ==
    /\ \A r \in PbxRequests : Asked(r) => MayAsk(r)
    /\ cache[PBye] # "none" => gw.st = "terminated"

\* The gateway called.
AnswerInv == dir = "in" =>
    /\ pbx.st \notin {"trying", "ringing"}
    /\ gw.st \in {"new", "ringing"} => cache[PInvite] \in Provisional
    /\ gw.st = "connected" \/ fut[Bye] # "none" \/ gw.rn > 0 => cache[PInvite] = "ok"
    /\ gw.st = "none" => cache[PInvite] \in {"none", "refused"}
    /\ gw.st = "terminated" => cache[PInvite] \in Final
    /\ pbx.st \in {"up", "ending"} => cache[PInvite] = "ok"

\* The timer of a final response runs while the call is up.
LastInv ==
    /\ last.to # None => last.to \in PbxRequests
    /\ last.to.kind = "invite" => dir = "in"
    /\ last.code = "ok" => gw.st \in {"connected", "terminated"}
    /\ last.timer => last.to # None /\ last.code = "ok" /\ cache[last.to] = "ok" /\ gw.st = "connected"

DialogInv ==
    /\ TypeOK /\ FlowInv /\ HangupInv /\ ReInv /\ TableInv /\ NetInv
    /\ RespInv /\ CalledInv /\ AskInv /\ AnswerInv /\ LastInv

\* When the gateway has heard the 200, or has stopped waiting for it, it is up or sends a BYE.
Followed(r) == fut[r] = "over" /\ (gaveUp \/ gw.st = "connected" \/ fut[Bye] # "none")
ByeUnderWay == fut[Bye] = "open"
AgreeInv ==
    /\ \A r \in GwInvites : pbx.resp[r] = "ok" /\ pbx.st = "up" => r \in pbx.unacked \/ Followed(r)
    /\ \A m \in net : m.what = "ack" /\ m.r \in GwInvites /\ pbx.resp[m.r] = "ok" /\ pbx.st = "up" => Followed(m.r)
    /\ fut[Bye] = "over" => gaveUp \/ pbx.st \in {"ending", "down"}
    /\ dir = "out" /\ pbx.st = "up" /\ gw.st = "terminated" /\ ~gaveUp =>
        ByeUnderWay \/ \E r \in GwInvites : pbx.resp[r] = "ok" /\ r \in pbx.unacked
    /\ dir = "in" /\ cache[PInvite] = "ok" /\ pbx.st \in {"calling", "proceeding", "up"}
          /\ gw.st = "terminated" /\ ~gaveUp => ByeUnderWay
    /\ \A r \in GwInvites : pbx.resp[r] = "ok" => pbx.st = "up" \/ PBye \in pbx.open \/ gw.st = "terminated"
    /\ dir = "in" /\ gw.st = "connected" =>
        \/ pbx.st = "up" \/ PBye \in pbx.open
        \/ last.timer /\ pbx.st \notin {"up", "ending"} /\ \A m \in net : m.what = "ack" => m.r \notin PbxRequests
    /\ \A m \in net : m.what = "ack" /\ m.r \in PbxRequests => IsInvite(m.r)

\* A re-INVITE the PBX has taken and the gateway does not know of yet is the one it waits for.
HoldInv ==
    /\ ~gaveUp => (pbx.held <=> IF Pending /\ pbx.resp[Re(gw.rn)] = "ok" THEN ~gw.hold ELSE gw.hold)
    /\ ~gaveUp => \A r \in GwRequests : r.kind = "re" /\ fut[r] = "over" => pbx.resp[r] # "none"
    /\ \A m \in net : m.what = "request" /\ m.r \in GwRequests /\ m.r.kind = "re" /\ Pending /\ m.r.n = gw.rn
          => m.hold = ~gw.hold

-----------------------------------------------------------------------------
(* The requests *)

LEMMA GwNames ==
  /\ Bye \in GwRequests /\ Bye.kind = "bye"
  /\ \A n \in {1, 2} : Invite(n) \in GwInvites /\ Invite(n).kind = "invite" /\ Invite(n).n = n
  /\ \A k \in 1..MaxRe : Re(k) \in GwRequests /\ Re(k).kind = "re" /\ Re(k).n = k
  /\ \A r \in GwInvites : /\ r \in GwRequests /\ r.kind = "invite" /\ r.n \in {1, 2} /\ r = Invite(r.n)
                          /\ CancelOf(r) \in GwRequests /\ CancelOf(r).kind = "cancel" /\ Branch(CancelOf(r)) = r
  /\ \A r \in GwRequests :
      /\ r.by = "gw" /\ r.n \in Nat /\ r.kind \in {"invite", "cancel", "bye", "re"}
      /\ r.kind = "invite" => r \in GwInvites
      /\ r.kind = "bye" => r = Bye
      /\ r.kind = "re" => r.n \in 1..MaxRe /\ r = Re(r.n)
      /\ Branch(r) \in GwRequests /\ Branch(r).kind # "cancel"
      /\ r.kind = "cancel" => Branch(r) \in GwInvites /\ r = CancelOf(Branch(r))
      /\ r.kind # "cancel" => Branch(r) = r
  <1>1. Bye \in GwRequests /\ Bye.kind = "bye" BY DEF Bye, Request, GwRequests
  <1>2. \A n \in {1, 2} : Invite(n) \in GwInvites /\ Invite(n).kind = "invite" /\ Invite(n).n = n /\ Invite(n).by = "gw"
    BY DEF Invite, Request, GwInvites
  <1>3. \A k \in 1..MaxRe : Re(k) \in GwRequests /\ Re(k).kind = "re" /\ Re(k).n = k /\ Re(k).by = "gw"
    BY DEF Re, Request, GwRequests
  <1>4. ASSUME NEW n \in {1, 2}
        PROVE  CancelOf(Invite(n)) = [by |-> "gw", kind |-> "cancel", n |-> n]
    BY DEF CancelOf, Invite, Request
  <1>5. ASSUME NEW n \in {1, 2}
        PROVE  Branch(CancelOf(Invite(n))) = Invite(n)
    BY <1>4 DEF Branch, Invite, Request
  <1>6. \A r \in GwInvites : r.n \in {1, 2} /\ r = Invite(r.n)
    BY <1>2 DEF GwInvites
  <1>7. \A r \in GwInvites : /\ r \in GwRequests /\ r.kind = "invite" /\ r.by = "gw"
                          /\ CancelOf(r) \in GwRequests /\ CancelOf(r).kind = "cancel" /\ CancelOf(r).by = "gw"
                          /\ CancelOf(r).n \in {1, 2} /\ Branch(CancelOf(r)) = r
    BY <1>2, <1>4, <1>5, <1>6 DEF GwRequests
  <1>8. ASSUME NEW r \in GwRequests
        PROVE  r \in GwInvites \/ (\E i \in GwInvites : r = CancelOf(i)) \/ r = Bye \/ \E k \in 1..MaxRe : r = Re(k)
    BY DEF GwRequests
  <1>9. Bye.by = "gw" /\ Bye.n = 1 BY DEF Bye, Request
  <1>10. ASSUME NEW r \in GwRequests, r.kind # "cancel" PROVE Branch(r) = r BY <1>10 DEF Branch
  <1>11. ASSUME NEW r \in GwRequests
         PROVE  r.by = "gw" /\ r.n \in Nat /\ r.kind \in {"invite", "cancel", "bye", "re"}
    BY <1>1, <1>2, <1>3, <1>6, <1>7, <1>8, <1>9
  <1>12. ASSUME NEW r \in GwRequests
         PROVE  /\ r.kind = "invite" => r \in GwInvites
                /\ r.kind = "bye" => r = Bye
                /\ r.kind = "re" => r.n \in 1..MaxRe /\ r = Re(r.n)
                /\ r.kind = "cancel" => \E i \in GwInvites : r = CancelOf(i)
    BY <1>1, <1>3, <1>7, <1>8
  <1>13. ASSUME NEW r \in GwRequests
         PROVE  /\ Branch(r) \in GwRequests /\ Branch(r).kind # "cancel"
                /\ r.kind = "cancel" => Branch(r) \in GwInvites /\ r = CancelOf(Branch(r))
    BY <1>7, <1>10, <1>12
  <1> HIDE DEF GwInvites, GwRequests
  <1> QED BY <1>1, <1>2, <1>3, <1>6, <1>7, <1>10, <1>11, <1>12, <1>13

LEMMA PbxNames ==
  /\ PInvite \in PbxRequests /\ PInvite.kind = "invite"
  /\ PCancel \in PbxRequests /\ PCancel.kind = "cancel"
  /\ PBye \in PbxRequests /\ PBye.kind = "bye"
  /\ \A k \in 1..MaxRefresh : PRe(k) \in PbxRequests /\ PRe(k).kind = "re" /\ PRe(k).n = k
  /\ \A r \in PbxRequests :
      /\ r.by = "pbx" /\ r.kind \in {"invite", "cancel", "bye", "re"} /\ r.n \in Nat
      /\ r.kind = "invite" => r = PInvite
      /\ r.kind = "cancel" => r = PCancel
      /\ r.kind = "bye" => r = PBye
      /\ r.kind = "re" => r.n \in 1..MaxRefresh /\ r = PRe(r.n)
  <1>1. PInvite.kind = "invite" /\ PInvite.by = "pbx" /\ PInvite.n = 1 BY DEF PInvite, Request
  <1>2. PCancel.kind = "cancel" /\ PCancel.by = "pbx" /\ PCancel.n = 1 BY DEF PCancel, Request
  <1>3. PBye.kind = "bye" /\ PBye.by = "pbx" /\ PBye.n = 1 BY DEF PBye, Request
  <1>4. \A k : PRe(k).kind = "re" /\ PRe(k).by = "pbx" /\ PRe(k).n = k BY DEF PRe, Request
  <1> QED BY <1>1, <1>2, <1>3, <1>4 DEF PbxRequests

\* The two sides do not share a request, and neither sends "None".
LEMMA Apart ==
  /\ \A r \in GwRequests : r \notin PbxRequests /\ r # None
  /\ \A r \in PbxRequests : r \notin GwRequests /\ r # None
  /\ None.by = "none" /\ None.kind = "none"
  <1>1. None.by = "none" /\ None.kind = "none" BY DEF None, Request
  <1> QED BY <1>1, GwNames, PbxNames

LEMMA NetNames ==
  ASSUME net \subseteq Datagrams, NEW m \in net
  PROVE  /\ m.r.by = "gw" <=> m.r \in GwRequests
         /\ m.r.by = "pbx" <=> m.r \in PbxRequests
         /\ m.r \in GwRequests \/ m.r \in PbxRequests
         /\ m.what \in Response \cup {"request", "ack"} /\ m.hold \in BOOLEAN
  <1>1. m.r \in GwRequests \/ m.r \in PbxRequests BY DEF Datagrams
  <1>2. m.what \in Response \cup {"request", "ack"} /\ m.hold \in BOOLEAN BY DEF Datagrams
  <1> QED BY <1>1, <1>2, GwNames, PbxNames

LEMMA Codes ==
  /\ "none" \notin Response /\ "request" \notin Response /\ "ack" \notin Response
  /\ "open" \notin Response /\ "over" \notin Response
  /\ Provisional \cap Final = {} /\ Response = Provisional \cup Final /\ "ok" \in Final /\ "ok" \notin Failure
  /\ Failure \subseteq Final /\ Final = {"ok"} \cup Failure
  /\ Final \subseteq Live /\ "open" \in Live /\ "none" \notin Live /\ "over" \notin Live
  /\ "trying" \in Provisional /\ "ringing" \in Provisional /\ "early" \in Provisional
  /\ "challenge" \in Failure /\ "refused" \in Failure /\ "cancelled" \in Failure /\ "pending" \in Failure
  BY DEF Response, Provisional, Final, Failure, Live

LEMMA NewReply ==
  ASSUME NEW r \in GwRequests \cup PbxRequests, NEW c \in Response
  PROVE  Reply(r, c) \in Datagrams /\ Reply(r, c).r = r /\ Reply(r, c).what = c
  <1>1. c \in Response \cup {"request", "ack"} OBVIOUS
  <1> QED BY <1>1 DEF Datagram, Datagrams, Reply

-----------------------------------------------------------------------------
(* What the helpers change *)

ClientType ==
    /\ fut \in [GwRequests -> {"none", "open", "over"} \cup Final]
    /\ table \in [GwRequests -> GwRequests \cup {None}]
    /\ armed \subseteq GwRequests

LEMMA BeginFrame ==
  ASSUME ClientType, NEW r \in GwRequests, Begin(r)
  PROVE  /\ ClientType'
         /\ fut'[r] = "open" /\ \A q \in GwRequests \ {r} : fut'[q] = fut[q]
         /\ table'[Branch(r)] = r /\ \A b \in GwRequests \ {Branch(r)} : table'[b] = table[b]
         /\ armed' = armed \cup {r}
  BY GwNames DEF ClientType, Begin, Opened

LEMMA ReturnFrame ==
  ASSUME ClientType, NEW r \in GwRequests, Return(r)
  PROVE  /\ ClientType'
         /\ fut'[r] = "over" /\ \A q \in GwRequests \ {r} : fut'[q] = fut[q]
         /\ table'[Branch(r)] = None /\ \A b \in GwRequests \ {Branch(r)} : table'[b] = table[b]
         /\ armed' = armed \ {r, table[Branch(r)]}
  BY GwNames DEF ClientType, Return, Returned

LEMMA ReturnThenBeginFrame ==
  ASSUME ClientType, NEW r \in GwRequests, NEW s \in GwRequests \ {r}, r.kind # "cancel", s.kind # "cancel",
         ReturnThenBegin(r, s)
  PROVE  /\ ClientType'
         /\ fut'[r] = "over" /\ fut'[s] = "open" /\ \A q \in GwRequests \ {r, s} : fut'[q] = fut[q]
         /\ table'[r] = None /\ table'[s] = s /\ \A b \in GwRequests \ {r, s} : table'[b] = table[b]
         /\ armed' = (armed \ {r, table[r]}) \cup {s}
  <1>1. Branch(r) = r /\ Branch(s) = s BY GwNames
  <1> QED BY <1>1 DEF ClientType, ReturnThenBegin, Opened, Returned

LEMMA EndedFrame ==
  ASSUME gw \in SipCall
  PROVE  /\ Ended(gw) \in SipCall /\ Ended(gw).st = "terminated"
         /\ Ended(gw).flow = gw.flow /\ Ended(gw).inv = gw.inv /\ Ended(gw).re = gw.re /\ Ended(gw).rn = gw.rn
         /\ Ended(gw).hold = gw.hold /\ Ended(gw).lastAck = gw.lastAck
  BY DEF Ended, SipCall, CallState

-----------------------------------------------------------------------------
(* The gateway as a server *)

\* The call moves on while its coroutines stay where they are.
CallMoves ==
    /\ gw' \in SipCall
    /\ gw'.flow = gw.flow /\ gw'.inv = gw.inv /\ gw'.re = gw.re /\ gw'.rn = gw.rn
    /\ gw'.hold = gw.hold /\ gw'.lastAck = gw.lastAck
    /\ \/ gw'.st \in {gw.st, "terminated"}
       \/ dir = "in" /\ gw.st \in {"none", "new", "ringing"} /\ gw'.st \in {"new", "ringing", "connected"}

\* A request is answered in place of a provisional response or of none, and
\* what is sent is the answer that is kept.
CacheGrows == \A r \in PbxRequests : cache'[r] # cache[r] => cache[r] \notin Final /\ cache'[r] # "none" /\ Asked(r)
FromCache(m) ==
    /\ m.r \in PbxRequests /\ m.what \in Response /\ Asked(m.r) /\ cache'[m.r] # "none"
    /\ m.what \in Final => m.what = cache'[m.r]
ServerStep ==
    /\ UNCHANGED <<scene, clients, pbx, gaveUp>>
    /\ CallMoves
    /\ last' \in LastFinal
    /\ cache' \in [PbxRequests -> Response \cup {"none"}]
    /\ CacheGrows
    /\ net' \subseteq Datagrams
    /\ \A m \in net' : m \in net \/ FromCache(m)

LEMMA ServerKeeps ==
  ASSUME DialogInv, ServerStep
  PROVE  /\ TypeOK' /\ FlowInv' /\ HangupInv' /\ ReInv' /\ TableInv' /\ NetInv' /\ RespInv' /\ CalledInv'
         /\ \A r \in PbxRequests : Asked(r)' => Asked(r)
         /\ \A r \in PbxRequests : cache[r] # "none" => cache'[r] # "none"
         /\ \A r \in PbxRequests : cache[r] \in Final => cache'[r] = cache[r]
  <1>1. TypeOK' BY DEF ServerStep, CallMoves, DialogInv, TypeOK, clients
  <1>2. gw \in SipCall /\ scene \in Scenes BY DEF DialogInv, TypeOK
  <1>3. scene' = scene /\ dir' = dir /\ fut' = fut /\ table' = table /\ armed' = armed /\ pbx' = pbx
    BY DEF ServerStep, dir, clients
  <1>4. FlowInv' BY <1>2, <1>3 DEF ServerStep, CallMoves, DialogInv, FlowInv, SipCall
  <1>5. HangupInv' BY <1>2, <1>3 DEF ServerStep, CallMoves, DialogInv, HangupInv, FlowInv
  <1>6. ReInv' BY <1>2, <1>3 DEF ServerStep, CallMoves, DialogInv, ReInv, FlowInv, Pending
  <1>7. TableInv' BY <1>2, <1>3 DEF ServerStep, CallMoves, DialogInv, TableInv
  <1>8. \A r \in PbxRequests : cache[r] # "none" => cache'[r] # "none" BY DEF ServerStep, CacheGrows
  <1>9. \A r \in PbxRequests : cache[r] \in Final => cache'[r] = cache[r] BY DEF ServerStep, CacheGrows
  <1>10. NetInv'
    <2>1. ASSUME NEW m \in net', m.r \in GwRequests PROVE GwDatagram(m)'
      <3>1. m \in net BY <2>1, Apart DEF ServerStep, FromCache
      <3> QED BY <1>3, <2>1, <3>1 DEF DialogInv, NetInv, GwDatagram
    <2>2. ASSUME NEW m \in net', m.r \in PbxRequests PROVE PbxDatagram(m)'
      <3>1. CASE m \in net BY <1>8, <1>9, <2>2, <3>1, Codes DEF DialogInv, NetInv, PbxDatagram
      <3>2. CASE m \notin net BY <2>2, <3>2, Codes DEF ServerStep, FromCache, PbxDatagram
      <3> QED BY <3>1, <3>2
    <2> QED BY <2>1, <2>2 DEF NetInv
  <1>11. RespInv' BY <1>3 DEF DialogInv, RespInv, ServerStep, CallMoves
  <1>12. CalledInv' BY <1>2, <1>3, BoundsAssumption DEF ServerStep, CallMoves, DialogInv, CalledInv, FlowInv, dir
  <1>13. \A r \in PbxRequests : Asked(r)' => Asked(r) BY <1>3 DEF ServerStep, CacheGrows, FromCache, Asked
  <1> QED BY <1>1, <1>4, <1>5, <1>6, <1>7, <1>8, <1>9, <1>10, <1>11, <1>12, <1>13

\* What the lemmas on the single steps have to show beside ServerStep.
ServerRest == AnswerInv' /\ LastInv' /\ (cache[PBye] = "none" /\ cache'[PBye] # "none" => gw'.st = "terminated")

LEMMA ServerInv ==
  ASSUME DialogInv, ServerStep, ServerRest
  PROVE  DialogInv'
  <1>1. AskInv'
    <2>1. scene' = scene /\ dir' = dir /\ fut' = fut /\ pbx' = pbx BY DEF ServerStep, dir, clients
    <2>2. cache[PInvite] = "ok" => cache'[PInvite] = "ok" BY ServerKeeps, PbxNames, Codes
    <2>3. cache[PBye] # "none" => gw.st = "terminated" BY DEF DialogInv, AskInv, MayAsk
    <2>4. gw.st = "terminated" => gw'.st = "terminated" BY DEF ServerStep, CallMoves
    <2>5. cache'[PBye] # "none" => gw'.st = "terminated" BY <2>3, <2>4 DEF ServerRest
    <2>6. \A r \in PbxRequests : Asked(r)' => Asked(r) BY ServerKeeps
    <2> QED BY <2>1, <2>2, <2>5, <2>6 DEF DialogInv, AskInv, MayAsk
  <1> QED BY <1>1, ServerKeeps DEF ServerRest, DialogInv

LEMMA CacheFrame ==
  ASSUME cache \in [PbxRequests -> Response \cup {"none"}], NEW r \in PbxRequests, NEW c, cache' = [cache EXCEPT ![r] = c]
  PROVE  cache'[r] = c /\ \A q \in PbxRequests \ {r} : cache'[q] = cache[q]
  OBVIOUS

\* A request that has just arrived has been asked and is answered by c.
LEMMA RespondToFrame ==
  ASSUME DialogInv, NEW k, NEW m, Arrives(m, k), NEW c \in Response, RespondTo(m, c)
  PROVE  /\ m \in net /\ m.r \in PbxRequests /\ m.r.kind = k /\ Asked(m.r) /\ cache[m.r] = "none"
         /\ cache' \in [PbxRequests -> Response \cup {"none"}]
         /\ cache'[m.r] = c /\ \A q \in PbxRequests \ {m.r} : cache'[q] = cache[q]
         /\ CacheGrows
         /\ net' \subseteq Datagrams
         /\ \A d \in net' : d \in net \/ FromCache(d)
  <1>1. net \subseteq Datagrams /\ cache \in [PbxRequests -> Response \cup {"none"}] BY DEF DialogInv, TypeOK
  <1>2. m \in net /\ m.r.by = "pbx" /\ m.r.kind = k /\ cache[m.r] = "none" BY DEF Arrives
  <1>3. m.r \in PbxRequests BY <1>1, <1>2, NetNames
  <1>4. Asked(m.r) BY <1>2 DEF Asked
  <1>5. cache' = [cache EXCEPT ![m.r] = c] /\ net' = (net \ {m}) \cup {Reply(m.r, c)} BY DEF RespondTo, Answers
  <1>6. cache'[m.r] = c /\ \A q \in PbxRequests \ {m.r} : cache'[q] = cache[q] BY <1>1, <1>3, <1>5, CacheFrame
  <1>7. Reply(m.r, c) \in Datagrams /\ Reply(m.r, c).r = m.r /\ Reply(m.r, c).what = c BY <1>3, NewReply
  <1>8. cache' \in [PbxRequests -> Response \cup {"none"}] BY <1>1, <1>3, <1>5
  <1>9. c # "none" /\ "none" \notin Final BY Codes
  <1>10. CacheGrows BY <1>2, <1>4, <1>6, <1>9 DEF CacheGrows
  <1>11. \A d \in net' : d \in net \/ FromCache(d) BY <1>3, <1>4, <1>5, <1>6, <1>7, <1>9 DEF FromCache
  <1> QED BY <1>1, <1>2, <1>3, <1>4, <1>5, <1>6, <1>7, <1>8, <1>10, <1>11

LEMMA StillCall ==
  ASSUME DialogInv, UNCHANGED gw
  PROVE  CallMoves
  BY DEF CallMoves, DialogInv, TypeOK

LEMMA EndedCall ==
  ASSUME DialogInv, gw' = Ended(gw)
  PROVE  CallMoves /\ gw'.st = "terminated"
  BY EndedFrame DEF CallMoves, DialogInv, TypeOK

LEMMA ReachedCall ==
  ASSUME DialogInv, dir = "in", gw.st \in {"none", "new", "ringing"}, NEW s \in {"new", "ringing", "connected"},
         gw' = [gw EXCEPT !.st = s]
  PROVE  CallMoves /\ gw'.st = s
  BY DEF CallMoves, DialogInv, TypeOK, SipCall, CallState

LEMMA LastOff ==
  ASSUME DialogInv, TimerOff
  PROVE  last' \in LastFinal /\ last'.to = last.to /\ last'.code = last.code /\ last'.timer = FALSE
  BY DEF TimerOff, DialogInv, TypeOK, LastFinal

LEMMA RepeatedKeeps ==
  ASSUME DialogInv, NEW m \in net, Repeated(m)
  PROVE  DialogInv' /\ CacheGrows
  <1>1. net \subseteq Datagrams /\ cache \in [PbxRequests -> Response \cup {"none"}] BY DEF DialogInv, TypeOK
  <1>2. m.r \in PbxRequests /\ cache[m.r] \in Response BY <1>1, NetNames DEF Repeated
  <1>3. UNCHANGED <<scene, gw, last, clients, cache, pbx, gaveUp>> /\ net' = (net \ {m}) \cup {Reply(m.r, cache[m.r])}
    BY DEF Repeated, Answers
  <1>4. CacheGrows BY <1>3 DEF CacheGrows
  <1>5. ServerStep BY <1>1, <1>2, <1>3, <1>4, NewReply, StillCall, Codes DEF ServerStep, FromCache, Asked, DialogInv, TypeOK
  <1>6. ServerRest BY <1>3 DEF ServerRest, DialogInv, AnswerInv, LastInv, dir, clients
  <1> QED BY <1>4, <1>5, <1>6, ServerInv

LEMMA RetransmitFinalKeeps ==
  ASSUME DialogInv, RetransmitFinal
  PROVE  DialogInv' /\ CacheGrows
  <1>1. net \subseteq Datagrams /\ cache \in [PbxRequests -> Response \cup {"none"}] /\ last \in LastFinal
    BY DEF DialogInv, TypeOK
  <1>2. last.to \in PbxRequests /\ last.code = "ok" /\ cache[last.to] = "ok" BY DEF RetransmitFinal, DialogInv, LastInv
  <1>3. UNCHANGED <<scene, gw, last, clients, cache, pbx, gaveUp>> /\ net' = net \cup {Reply(last.to, last.code)}
    BY DEF RetransmitFinal, Repeat, Send
  <1>4. CacheGrows BY <1>3 DEF CacheGrows
  <1>5. ServerStep BY <1>1, <1>2, <1>3, <1>4, NewReply, StillCall, Codes DEF ServerStep, FromCache, Asked, DialogInv, TypeOK
  <1>6. ServerRest BY <1>3 DEF ServerRest, DialogInv, AnswerInv, LastInv, dir, clients
  <1> QED BY <1>4, <1>5, <1>6, ServerInv

\* The INVITE is not answered while there is no call, nor finally before the call is answered or over.
LEMMA Callee ==
  ASSUME DialogInv
  PROVE  /\ dir \in {"out", "in"}
         /\ Asked(PInvite) => dir = "in"
         /\ dir = "in" /\ cache[PInvite] = "none" => gw.st = "none" /\ cache[PBye] = "none"
         /\ dir = "in" /\ gw.st \notin {"none", "connected", "terminated"} =>
              gw.st \in {"new", "ringing"} /\ cache[PInvite] \in Provisional /\ Asked(PInvite) /\ cache[PBye] = "none"
         /\ last.timer => last.to \in PbxRequests /\ cache[last.to] = "ok" /\ gw.st = "connected"
  <1>1. scene \in Scenes /\ gw \in SipCall BY DEF DialogInv, TypeOK
  <1>2. dir \in {"out", "in"} BY <1>1, BoundsAssumption DEF dir
  <1>3. Asked(PInvite) => dir = "in" BY PbxNames DEF DialogInv, AskInv, MayAsk
  <1>4. dir = "in" => gw.st \in {"none", "new", "ringing", "connected", "terminated"} BY DEF DialogInv, FlowInv
  <1>5. cache[PBye] # "none" /\ dir = "in" => cache[PInvite] = "ok" /\ gw.st = "terminated"
    BY PbxNames DEF DialogInv, AskInv, MayAsk, Asked
  <1>6. dir = "in" /\ cache[PInvite] = "none" => gw.st = "none" BY <1>4, Codes DEF DialogInv, AnswerInv
  <1>7. dir = "in" /\ gw.st \in {"new", "ringing"} => cache[PInvite] \in Provisional BY DEF DialogInv, AnswerInv
  <1>8. cache[PInvite] \in Provisional => Asked(PInvite) BY Codes DEF Asked
  <1>9. last.timer => last.to \in PbxRequests /\ cache[last.to] = "ok" /\ gw.st = "connected" BY DEF DialogInv, LastInv
  <1> QED BY <1>2, <1>3, <1>4, <1>5, <1>6, <1>7, <1>8, <1>9

LEMMA HandleNewInviteKeeps ==
  ASSUME DialogInv, NEW m \in net, HandleNewInvite(m)
  PROVE  DialogInv' /\ CacheGrows
  <1>1. net \subseteq Datagrams /\ cache \in [PbxRequests -> Response \cup {"none"}] /\ last \in LastFinal
    BY DEF DialogInv, TypeOK
  <1>2. m.r = PInvite /\ cache[PInvite] = "none" /\ Asked(PInvite)
    BY <1>1, NetNames, PbxNames DEF HandleNewInvite, Arrives, Asked
  <1>3. dir = "in" /\ gw.st = "none" BY <1>2, Callee
  <1>4. UNCHANGED <<scene, last, clients, pbx, gaveUp>> /\ dir' = dir BY DEF HandleNewInvite, dir
  <1>5. PInvite \in PbxRequests /\ PBye \in PbxRequests /\ PInvite # PBye BY PbxNames
  <1>6. fut[Bye] = "none" /\ gw.rn = 0 /\ pbx.st \notin {"up", "ending"}
    <2>1. cache[PInvite] # "ok" BY <1>2, Codes
    <2>2. fut \in [GwRequests -> {"none", "open", "over"} \cup Final] /\ gw.rn \in Nat BY DEF DialogInv, TypeOK, SipCall
    <2> QED BY <1>3, <2>1, <2>2 DEF DialogInv, AnswerInv
  <1>7. pbx.st \notin {"trying", "ringing"} BY <1>3 DEF DialogInv, AnswerInv
  <1>8. CASE RespondTo(m, "trying") /\ gw' = [gw EXCEPT !.st = "new"]
    <2>1. ServerStep /\ CacheGrows /\ cache'[PInvite] = "trying" /\ cache'[PBye] = cache[PBye] /\ gw'.st = "new" /\ gw'.rn = gw.rn
      BY <1>1, <1>2, <1>3, <1>4, <1>5, <1>8, RespondToFrame, ReachedCall, Codes DEF ServerStep, HandleNewInvite, CallMoves
    <2>2. AnswerInv' BY <1>3, <1>4, <1>6, <1>7, <2>1, Codes DEF AnswerInv, clients
    <2>3. LastInv' BY <1>3, <1>4, <2>1, Codes DEF DialogInv, LastInv
    <2> QED BY <2>1, <2>2, <2>3, ServerInv DEF ServerRest
  <1>9. CASE /\ cache' = [cache EXCEPT ![m.r] = "refused"]
             /\ Answers(m, {Reply(m.r, "trying"), Reply(m.r, "refused")})
             /\ UNCHANGED gw
    <2>1. cache'[PInvite] = "refused" /\ \A q \in PbxRequests \ {PInvite} : cache'[q] = cache[q] BY <1>1, <1>2, <1>5, <1>9
    <2>2. CacheGrows BY <1>2, <2>1, Codes DEF CacheGrows
    <2>3. \A d \in net' : d \in Datagrams /\ (d \in net \/ FromCache(d))
      <3>1. "trying" \in Response /\ "refused" \in Response BY Codes
      <3>2. \A d \in net' : d \in net \/ d = Reply(PInvite, "trying") \/ d = Reply(PInvite, "refused")
        BY <1>2, <1>9 DEF Answers
      <3> QED BY <1>1, <1>2, <1>5, <2>1, <3>1, <3>2, NewReply, Codes DEF FromCache
    <2>4. cache' \in [PbxRequests -> Response \cup {"none"}] BY <1>1, <1>2, <1>5, <1>9, Codes
    <2>5. ServerStep BY <1>1, <1>4, <1>9, <2>2, <2>3, <2>4, StillCall DEF ServerStep
    <2>6. AnswerInv' BY <1>3, <1>4, <1>6, <1>7, <1>9, <2>1, Codes DEF AnswerInv, clients
    <2>7. LastInv' BY <1>3, <1>4, <1>9, <2>1, Codes DEF DialogInv, LastInv
    <2> QED BY <1>5, <2>1, <2>2, <2>5, <2>6, <2>7, ServerInv DEF ServerRest
  <1> QED BY <1>8, <1>9 DEF HandleNewInvite

LEMMA RespondFrame ==
  ASSUME DialogInv, NEW c \in Response, Respond(PInvite, c, {}), cache[PInvite] \in Provisional
  PROVE  /\ cache' \in [PbxRequests -> Response \cup {"none"}]
         /\ cache'[PInvite] = c /\ \A q \in PbxRequests \ {PInvite} : cache'[q] = cache[q]
         /\ CacheGrows
         /\ net' \subseteq Datagrams
         /\ \A d \in net' : d \in net \/ FromCache(d)
  <1>1. net \subseteq Datagrams /\ cache \in [PbxRequests -> Response \cup {"none"}] BY DEF DialogInv, TypeOK
  <1>2. PInvite \in PbxRequests BY PbxNames
  <1>3. Asked(PInvite) BY Codes DEF Asked
  <1>4. cache' = [cache EXCEPT ![PInvite] = c] /\ net' = net \cup {Reply(PInvite, c)} BY DEF Respond, Send
  <1>5. cache'[PInvite] = c /\ \A q \in PbxRequests \ {PInvite} : cache'[q] = cache[q] BY <1>1, <1>2, <1>4
  <1>6. Reply(PInvite, c) \in Datagrams /\ Reply(PInvite, c).r = PInvite /\ Reply(PInvite, c).what = c
    BY <1>2, NewReply
  <1>7. cache' \in [PbxRequests -> Response \cup {"none"}] BY <1>1, <1>2, <1>4
  <1>8. CacheGrows BY <1>3, <1>5, Codes DEF CacheGrows
  <1>9. \A d \in net' : d \in net \/ FromCache(d) BY <1>2, <1>3, <1>4, <1>5, <1>6, Codes DEF FromCache
  <1> QED BY <1>1, <1>4, <1>5, <1>6, <1>7, <1>8, <1>9

LEMMA RingingKeeps ==
  ASSUME DialogInv, Ringing
  PROVE  DialogInv' /\ CacheGrows
  <1>1. dir = "in" /\ gw.st \in {"new", "ringing"} /\ gw' = [gw EXCEPT !.st = "ringing"] /\ Respond(PInvite, "ringing", {})
        /\ UNCHANGED <<scene, last, clients, pbx, gaveUp>>
    BY DEF Ringing
  <1>2. cache[PInvite] \in Provisional /\ cache[PBye] = "none" BY <1>1, Callee
  <1>3. CallMoves /\ gw'.st = "ringing" BY <1>1, ReachedCall
  <1>4. ServerStep BY <1>1, <1>2, <1>3, RespondFrame, Codes DEF ServerStep, DialogInv, TypeOK
  <1>5. CacheGrows /\ cache'[PInvite] = "ringing" /\ \A q \in PbxRequests \ {PInvite} : cache'[q] = cache[q]
    BY <1>1, <1>2, RespondFrame, Codes
  <1>6. PInvite \in PbxRequests /\ PBye \in PbxRequests /\ PInvite # PBye BY PbxNames
  <1>7. AnswerInv' BY <1>1, <1>2, <1>3, <1>5, Codes DEF DialogInv, AnswerInv, dir, clients, CallMoves
  <1>8. LastInv' BY <1>1, <1>2, <1>3, <1>5, Codes DEF DialogInv, LastInv, dir
  <1> QED BY <1>2, <1>4, <1>5, <1>6, <1>7, <1>8, ServerInv DEF ServerRest

LEMMA AnswerKeeps ==
  ASSUME DialogInv, Answer
  PROVE  DialogInv' /\ CacheGrows
  <1>1. dir = "in" /\ gw.st \notin {"none", "connected", "terminated"} /\ gw' = [gw EXCEPT !.st = "connected"]
        /\ last' = [to |-> PInvite, code |-> "ok", timer |-> TRUE] /\ Respond(PInvite, "ok", {})
        /\ UNCHANGED <<scene, clients, pbx, gaveUp>>
    BY DEF Answer, SendFinal
  <1>2. gw.st \in {"new", "ringing"} /\ cache[PInvite] \in Provisional /\ cache[PBye] = "none" BY <1>1, Callee
  <1>3. CallMoves /\ gw'.st = "connected" BY <1>1, <1>2, ReachedCall
  <1>4. PInvite \in PbxRequests /\ PBye \in PbxRequests /\ PInvite # PBye /\ PInvite # None BY PbxNames, Apart
  <1>5. last' \in LastFinal BY <1>1, <1>4, Codes DEF LastFinal
  <1>6. "ok" \in Response BY Codes
  <1>7. CacheGrows /\ cache'[PInvite] = "ok" /\ \A q \in PbxRequests \ {PInvite} : cache'[q] = cache[q]
    BY <1>1, <1>2, <1>6, RespondFrame
  <1>8. ServerStep BY <1>1, <1>2, <1>3, <1>5, <1>6, RespondFrame DEF ServerStep
  <1>9. AnswerInv' BY <1>1, <1>3, <1>7, Codes DEF DialogInv, AnswerInv, dir, clients, CallMoves
  <1>10. LastInv' BY <1>1, <1>3, <1>4, <1>7, Codes DEF LastInv, dir
  <1> QED BY <1>2, <1>4, <1>7, <1>8, <1>9, <1>10, ServerInv DEF ServerRest

LEMMA RejectKeeps ==
  ASSUME DialogInv, Reject
  PROVE  DialogInv' /\ CacheGrows
  <1>1. dir = "in" /\ gw.st \notin {"none", "connected", "terminated"} /\ gw' = Ended(gw)
        /\ last' = [to |-> PInvite, code |-> "refused", timer |-> FALSE] /\ Respond(PInvite, "refused", {})
        /\ UNCHANGED <<scene, clients, pbx, gaveUp>>
    BY DEF Reject, SendFinal
  <1>2. gw.st \in {"new", "ringing"} /\ cache[PInvite] \in Provisional /\ cache[PBye] = "none" BY <1>1, Callee
  <1>3. CallMoves /\ gw'.st = "terminated" BY <1>1, EndedCall
  <1>4. PInvite \in PbxRequests /\ PBye \in PbxRequests /\ PInvite # PBye /\ PInvite # None BY PbxNames, Apart
  <1>5. last' \in LastFinal BY <1>1, <1>4, Codes DEF LastFinal
  <1>6. "refused" \in Response BY Codes
  <1>7. CacheGrows /\ cache'[PInvite] = "refused" /\ \A q \in PbxRequests \ {PInvite} : cache'[q] = cache[q]
    BY <1>1, <1>2, <1>6, RespondFrame
  <1>8. ServerStep BY <1>1, <1>2, <1>3, <1>5, <1>6, RespondFrame DEF ServerStep
  <1>9. AnswerInv' BY <1>1, <1>2, <1>3, <1>7, Codes DEF DialogInv, AnswerInv, dir, clients, CallMoves
  <1>10. LastInv' BY <1>1, <1>3, <1>4, <1>7, Codes DEF LastInv, dir
  <1> QED BY <1>2, <1>4, <1>7, <1>8, <1>9, <1>10, ServerInv DEF ServerRest

LEMMA HandleAckKeeps ==
  ASSUME DialogInv, NEW m \in net, HandleAck(m)
  PROVE  DialogInv' /\ CacheGrows /\ gw' = gw /\ (last'.timer => last.timer)
  <1>1. net \subseteq Datagrams /\ gw \in SipCall /\ last \in LastFinal BY DEF DialogInv, TypeOK
  <1>2. UNCHANGED <<scene, clients, cache, pbx, gaveUp>> /\ net' = net \ {m} BY DEF HandleAck, Answers
  <1>3. gw' = gw
    <2>1. last.code = "ok" => gw.st \in {"connected", "terminated"} BY DEF DialogInv, LastInv
    <2>2. gw.st = "connected" => [gw EXCEPT !.st = "connected"] = gw BY <1>1 DEF SipCall
    <2> QED BY <2>1, <2>2 DEF HandleAck
  <1>4. last' \in LastFinal /\ last'.to = last.to /\ last'.code = last.code /\ (last'.timer => last.timer)
    BY <1>1 DEF HandleAck, LastFinal
  <1>5. CacheGrows BY <1>2 DEF CacheGrows
  <1>6. ServerStep BY <1>1, <1>2, <1>3, <1>4, <1>5, StillCall DEF ServerStep, DialogInv, TypeOK
  <1>7. ServerRest BY <1>2, <1>3, <1>4 DEF ServerRest, DialogInv, AnswerInv, LastInv, dir, clients
  <1> QED BY <1>3, <1>4, <1>5, <1>6, <1>7, ServerInv

LEMMA HandleCancelKeeps ==
  ASSUME DialogInv, NEW m \in net, HandleCancel(m)
  PROVE  DialogInv' /\ CacheGrows
  <1>1. net \subseteq Datagrams /\ cache \in [PbxRequests -> Response \cup {"none"}] /\ gw \in SipCall
    BY DEF DialogInv, TypeOK
  <1>2. m.r = PCancel /\ cache[PCancel] = "none" /\ Asked(PCancel)
    BY <1>1, NetNames, PbxNames DEF HandleCancel, Arrives, Asked
  <1>3. /\ PInvite \in PbxRequests /\ PBye \in PbxRequests /\ PCancel \in PbxRequests
        /\ PInvite # PBye /\ PCancel # PBye /\ PCancel # PInvite
    BY PbxNames
  <1>4. dir = "in" BY <1>2, <1>3, PbxNames DEF DialogInv, AskInv, MayAsk
  <1>5. UNCHANGED <<scene, clients, pbx, gaveUp>> /\ dir' = dir BY DEF HandleCancel, dir
  <1>6. CASE gw.st \in {"new", "ringing"}
    <2>1. /\ cache' = [cache EXCEPT ![m.r] = "ok", ![PInvite] = "cancelled"]
          /\ net' = (net \ {m}) \cup {Reply(m.r, "ok"), Reply(PInvite, "cancelled")}
          /\ gw' = Ended(gw) /\ TimerOff
      BY <1>6 DEF HandleCancel, Answers
    <2>2. cache[PInvite] \in Provisional /\ Asked(PInvite) /\ cache[PBye] = "none" BY <1>4, <1>6, Callee
    <2>3. cache'[PInvite] = "cancelled" /\ cache'[PCancel] = "ok"
          /\ \A q \in PbxRequests \ {PInvite, PCancel} : cache'[q] = cache[q]
      BY <1>1, <1>2, <1>3, <2>1
    <2>4. "ok" \in Response /\ "cancelled" \in Response BY Codes
    <2>5. cache' \in [PbxRequests -> Response \cup {"none"}] BY <1>1, <1>2, <1>3, <2>1, <2>4
    <2>6. CacheGrows BY <1>2, <2>2, <2>3, Codes DEF CacheGrows
    <2>7. \A d \in net' : d \in Datagrams /\ (d \in net \/ FromCache(d))
      BY <1>1, <1>2, <1>3, <2>1, <2>2, <2>3, <2>4, NewReply, Codes DEF FromCache
    <2>8. CallMoves /\ gw'.st = "terminated" /\ gw'.rn = gw.rn BY <2>1, EndedCall DEF CallMoves
    <2>9. last' \in LastFinal /\ last'.to = last.to /\ last'.code = last.code /\ last'.timer = FALSE BY <2>1, LastOff
    <2>10. ServerStep BY <1>5, <2>5, <2>6, <2>7, <2>8, <2>9 DEF ServerStep
    <2>11. fut[Bye] = "none" /\ ~(gw.rn > 0)
      BY <1>4, <1>6, <2>2, Codes DEF DialogInv, AnswerInv
    <2>12. pbx.st \notin {"up", "ending", "trying", "ringing"} BY <1>4, <2>2, Codes DEF DialogInv, AnswerInv
    <2>13. AnswerInv' BY <1>4, <1>5, <2>3, <2>8, <2>11, <2>12, Codes DEF AnswerInv, clients
    <2>14. LastInv' BY <1>4, <1>5, <2>8, <2>9, Codes DEF DialogInv, LastInv
    <2> QED BY <2>6, <2>8, <2>10, <2>13, <2>14, ServerInv DEF ServerRest
  <1>7. CASE gw.st \notin {"new", "ringing"}
    <2>1. RespondTo(m, "refused") /\ UNCHANGED <<gw, last>> BY <1>7 DEF HandleCancel
    <2>2. Arrives(m, "cancel") /\ "refused" \in Response BY Codes DEF HandleCancel
    <2>3. CacheGrows /\ ServerStep BY <1>1, <1>5, <2>1, <2>2, RespondToFrame, StillCall DEF ServerStep, DialogInv, TypeOK
    <2>4. \A q \in PbxRequests \ {PCancel} : cache'[q] = cache[q] BY <1>2, <2>1, <2>2, RespondToFrame
    <2>5. last.timer => last.to # PCancel BY <1>2, Codes DEF DialogInv, LastInv
    <2>6. AnswerInv' BY <1>3, <1>5, <2>1, <2>4 DEF DialogInv, AnswerInv, clients
    <2>7. LastInv' BY <1>3, <1>5, <2>1, <2>4, <2>5 DEF DialogInv, LastInv
    <2> QED BY <1>3, <2>3, <2>4, <2>6, <2>7, ServerInv DEF ServerRest
  <1> QED BY <1>6, <1>7

LEMMA HandleByeKeeps ==
  ASSUME DialogInv, NEW m \in net, HandleBye(m)
  PROVE  DialogInv' /\ CacheGrows /\ pbx.st \in {"ending", "down"}
  <1>1. net \subseteq Datagrams /\ cache \in [PbxRequests -> Response \cup {"none"}] /\ gw \in SipCall
    BY DEF DialogInv, TypeOK
  <1>2. m.r = PBye /\ cache[PBye] = "none" /\ Asked(PBye)
    BY <1>1, NetNames, PbxNames DEF HandleBye, Arrives, Asked
  <1>3. PInvite \in PbxRequests /\ PBye \in PbxRequests /\ PInvite # PBye BY PbxNames
  <1>4. pbx.st \in {"ending", "down"} /\ (dir = "in" => cache[PInvite] = "ok")
    BY <1>2, <1>3, PbxNames DEF DialogInv, AskInv, MayAsk
  <1>5. UNCHANGED <<scene, clients, pbx, gaveUp>> /\ dir' = dir /\ gw' = Ended(gw) /\ TimerOff /\ Arrives(m, "bye")
    BY DEF HandleBye, dir
  <1>6. PICK c \in {"refused", "ok"} : RespondTo(m, c) BY DEF HandleBye
  <1>7. c \in Response BY Codes
  <1>8. CallMoves /\ gw'.st = "terminated" BY <1>5, EndedCall
  <1>9. last' \in LastFinal /\ last'.to = last.to /\ last'.code = last.code /\ last'.timer = FALSE BY <1>5, LastOff
  <1>10. CacheGrows /\ ServerStep BY <1>5, <1>6, <1>7, <1>8, <1>9, RespondToFrame DEF ServerStep
  <1>11. \A q \in PbxRequests \ {PBye} : cache'[q] = cache[q] BY <1>2, <1>5, <1>6, <1>7, RespondToFrame
  <1>12. AnswerInv' BY <1>3, <1>4, <1>5, <1>8, <1>11, Codes DEF DialogInv, AnswerInv, clients
  <1>13. LastInv' BY <1>5, <1>8, <1>9, Codes DEF DialogInv, LastInv
  <1> QED BY <1>4, <1>8, <1>10, <1>12, <1>13, ServerInv DEF ServerRest

LEMMA HandleReinviteKeeps ==
  ASSUME DialogInv, NEW m \in net, HandleReinvite(m) \/ ReinviteAsNew(m)
  PROVE  DialogInv' /\ CacheGrows
  <1>1. net \subseteq Datagrams /\ cache \in [PbxRequests -> Response \cup {"none"}] /\ gw \in SipCall /\ last \in LastFinal
    BY DEF DialogInv, TypeOK
  <1>2. Arrives(m, "re") BY DEF HandleReinvite, ReinviteAsNew
  <1>3. m.r \in PbxRequests /\ m.r.kind = "re" /\ cache[m.r] = "none" /\ Asked(m.r)
    BY <1>1, <1>2, NetNames, PbxNames DEF Arrives, Asked
  <1>4. PInvite \in PbxRequests /\ PBye \in PbxRequests /\ PInvite # m.r /\ PBye # m.r BY <1>3, PbxNames
  <1>5. UNCHANGED <<scene, clients, pbx, gaveUp>> /\ dir' = dir /\ gw' = gw
    BY DEF HandleReinvite, ReinviteAsNew, dir
  <1>6. PICK c \in {"pending", "ok", "trying"} :
          /\ RespondTo(m, c)
          /\ \/ last' = last
             \/ last' = [to |-> m.r, code |-> "ok", timer |-> TRUE] /\ gw.st = "connected" /\ c = "ok"
    BY DEF HandleReinvite, ReinviteAsNew, SendFinal
  <1>7. c \in Response BY Codes
  <1>8. last' \in LastFinal
    <2>1. [to |-> m.r, code |-> "ok", timer |-> TRUE] \in LastFinal BY <1>3, Codes DEF LastFinal
    <2> QED BY <1>1, <1>6, <2>1
  <1>9. CacheGrows /\ ServerStep BY <1>2, <1>5, <1>6, <1>7, <1>8, RespondToFrame, StillCall DEF ServerStep
  <1>10. cache'[m.r] = c /\ \A q \in PbxRequests \ {m.r} : cache'[q] = cache[q] BY <1>2, <1>6, <1>7, RespondToFrame
  <1>11. AnswerInv' BY <1>4, <1>5, <1>10 DEF DialogInv, AnswerInv, clients
  <1>12. LastInv'
    <2>1. last.timer => last.to # m.r BY <1>3, Codes DEF DialogInv, LastInv
    <2>2. CASE last' = last BY <1>4, <1>5, <1>10, <2>1, <2>2 DEF DialogInv, LastInv
    <2>3. CASE last' = [to |-> m.r, code |-> "ok", timer |-> TRUE] /\ gw.st = "connected" /\ c = "ok"
      BY <1>3, <1>5, <1>10, <2>3, Apart DEF LastInv
    <2> QED BY <1>6, <2>2, <2>3
  <1> QED BY <1>4, <1>5, <1>9, <1>10, <1>11, <1>12, ServerInv DEF ServerRest

-----------------------------------------------------------------------------
(* The gateway as a client *)

\* The callee has taken the call.
Accepted == IF dir = "out" THEN \E r \in GwInvites : pbx.resp[r] = "ok" ELSE cache[PInvite] = "ok"

\* What a step of a coroutine or of a client transaction may do to the call: an
\* incoming call can only be hung up, and nobody is up who has not been accepted.
CallerMoves ==
    /\ gw' \in SipCall
    /\ gw.st = "terminated" => gw'.st = "terminated"
    /\ gw.st = "connected" => gw'.st \in {"connected", "terminated"}
    /\ dir = "in" => gw'.st = gw.st \/ (gw.st = "connected" /\ gw'.st = "terminated")
    /\ gw'.st = "connected" => gw.st = "connected" \/ Accepted
    /\ gw'.rn > 0 => gw.rn > 0 \/ gw.st = "connected"
    /\ gw'.lastAck = gw.lastAck \/ pbx.resp[gw'.lastAck] \in Final
LastMoves ==
    /\ last' \in LastFinal /\ last'.to = last.to /\ last'.code = last.code
    /\ last'.timer => last.timer /\ gw'.st = gw.st

FutGrows ==
    /\ \A r \in GwRequests : fut[r] # "none" => fut'[r] # "none"
    /\ \A r \in GwRequests : fut'[r] \in Final /\ r.kind # "cancel" => fut[r] = fut'[r] \/ pbx.resp[r] = fut'[r]
    /\ fut'[Invite(2)] # "none" => fut[Invite(2)] # "none" \/ pbx.resp[Invite(1)] = "challenge"
    /\ fut'[Bye] # "none" => fut[Bye] # "none" \/ gw.st = "connected" \/ Accepted
FromClient(m) ==
    /\ m.r \in GwRequests /\ fut'[m.r] # "none"
    /\ m.what = "request" \/ (m.what = "ack" /\ pbx.resp[m.r] \in Final)

ClientStep ==
    /\ UNCHANGED <<scene, cache, pbx>>
    /\ CallerMoves /\ LastMoves
    /\ ClientType' /\ FutGrows
    /\ gaveUp' \in BOOLEAN
    /\ net' \subseteq Datagrams
    /\ \A m \in net' : m \in net \/ FromClient(m)
ClientRest == FlowInv' /\ HangupInv' /\ ReInv' /\ TableInv'

LEMMA ClientInv ==
  ASSUME DialogInv, ClientStep, ClientRest
  PROVE  DialogInv'
  <1>1. TypeOK' BY DEF ClientStep, ClientType, CallerMoves, LastMoves, DialogInv, TypeOK
  <1>2. scene' = scene /\ dir' = dir /\ cache' = cache /\ pbx' = pbx BY DEF ClientStep, dir
  <1>3. dir \in {"out", "in"} BY Callee
  <1>4. NetInv'
    <2>1. ASSUME NEW m \in net', m.r \in GwRequests PROVE GwDatagram(m)'
      <3>1. CASE m \in net BY <1>2, <2>1, <3>1 DEF DialogInv, NetInv, GwDatagram, ClientStep, FutGrows
      <3>2. CASE m \notin net BY <1>2, <2>1, <3>2, Codes DEF ClientStep, FromClient, GwDatagram
      <3> QED BY <3>1, <3>2
    <2>2. ASSUME NEW m \in net', m.r \in PbxRequests PROVE PbxDatagram(m)'
      <3>1. m \in net BY <2>2, Apart DEF ClientStep, FromClient
      <3> QED BY <1>2, <2>2, <3>1 DEF DialogInv, NetInv, PbxDatagram
    <2> QED BY <2>1, <2>2 DEF NetInv
  <1>5. RespInv' BY <1>2, GwNames DEF DialogInv, RespInv, ClientStep, FutGrows, CallerMoves
  <1>6. \A r \in PbxRequests : Asked(r)' => Asked(r) BY <1>2, Apart DEF Asked, ClientStep, FromClient
  <1>7. AskInv' BY <1>2, <1>6 DEF DialogInv, AskInv, MayAsk, ClientStep, CallerMoves
  <1>8. gw'.st = "connected" \/ fut'[Bye] # "none" \/ gw'.rn > 0 => Accepted
    BY <1>3 DEF ClientStep, CallerMoves, FutGrows, DialogInv, CalledInv, AnswerInv, Accepted
  <1>9. CalledInv' BY <1>2, <1>8 DEF DialogInv, CalledInv, Accepted
  <1>10. AnswerInv'
    <2>1. dir = "in" => gw'.st = gw.st \/ (gw.st = "connected" /\ gw'.st = "terminated") BY DEF ClientStep, CallerMoves
    <2>2. dir = "in" => (gw'.st = "connected" \/ fut'[Bye] # "none" \/ gw'.rn > 0 => cache[PInvite] = "ok")
      BY <1>8 DEF Accepted
    <2> QED BY <1>2, <2>1, <2>2, Codes DEF DialogInv, AnswerInv
  <1>11. LastInv' BY <1>2 DEF DialogInv, LastInv, ClientStep, CallerMoves, LastMoves
  <1> QED BY <1>1, <1>4, <1>5, <1>7, <1>9, <1>10, <1>11 DEF ClientRest, DialogInv

LEMMA BeginTable ==
  ASSUME ClientType, TableInv, NEW r \in GwRequests, fut[r] = "none", Begin(r),
         r.kind = "invite" => fut[CancelOf(r)] = "none", gw'.lastAck = gw.lastAck,
         gw \in SipCall
  PROVE  TableInv'
  <1>1. \A b \in GwRequests : table'[b] # None => Branch(table'[b]) = b /\ fut'[table'[b]] \in Live
    BY BeginFrame, GwNames, Apart DEF TableInv, Live, ClientType
  <1>2. \A q \in GwInvites : table'[q] = q => fut'[CancelOf(q)] = "none"
    BY BeginFrame, GwNames, Apart, Codes DEF TableInv
  <1>3. gw.lastAck # None => gw.lastAck \in GwRequests BY DEF SipCall
  <1> QED BY <1>1, <1>2, <1>3, BeginFrame DEF TableInv

LEMMA ReturnTable ==
  ASSUME ClientType, TableInv, NEW r \in GwRequests, fut[r] \in Live, Return(r), gw \in SipCall,
         gw'.lastAck = gw.lastAck \/ (gw'.lastAck = r /\ IsInvite(r))
  PROVE  TableInv'
  <1>1. \A b \in GwRequests : table'[b] # None => Branch(table'[b]) = b /\ fut'[table'[b]] \in Live
    BY ReturnFrame, GwNames, Apart DEF TableInv, Live, ClientType
  <1>2. \A q \in GwInvites : table'[q] = q => fut'[CancelOf(q)] = "none"
    BY ReturnFrame, GwNames, Apart, Codes DEF TableInv
  <1>3. gw.lastAck # None => gw.lastAck \in GwRequests BY DEF SipCall
  <1> QED BY <1>1, <1>2, <1>3, ReturnFrame DEF TableInv

LEMMA ReturnThenBeginTable ==
  ASSUME ClientType, TableInv, NEW r \in GwRequests, NEW s \in GwRequests \ {r}, r.kind # "cancel", s.kind # "cancel",
         fut[r] \in Live, fut[s] = "none", ReturnThenBegin(r, s), s.kind = "invite" => fut[CancelOf(s)] = "none", gw \in SipCall,
         gw'.lastAck = gw.lastAck \/ (gw'.lastAck = r /\ IsInvite(r))
  PROVE  TableInv'
  <1>1. Branch(r) = r /\ Branch(s) = s BY GwNames
  <1>2. \A b \in GwRequests : table'[b] # None => Branch(table'[b]) = b /\ fut'[table'[b]] \in Live
    BY <1>1, ReturnThenBeginFrame, Apart DEF TableInv, Live, ClientType
  <1>3. \A q \in GwInvites : table'[q] = q => fut'[CancelOf(q)] = "none"
    BY <1>1, ReturnThenBeginFrame, GwNames, Apart, Codes DEF TableInv
  <1>4. gw.lastAck # None => gw.lastAck \in GwRequests BY DEF SipCall
  <1> QED BY <1>2, <1>3, <1>4, ReturnThenBeginFrame, Codes DEF TableInv, Live

LEMMA NewOffer ==
  ASSUME NEW r \in GwRequests \cup PbxRequests, NEW h \in BOOLEAN
  PROVE  Offer(r, h) \in Datagrams /\ Offer(r, h).r = r /\ Offer(r, h).what = "request" /\ Offer(r, h).hold = h
  BY DEF Datagram, Datagrams, Offer, Ask

LEMMA NewAsk ==
  ASSUME NEW r \in GwRequests \cup PbxRequests
  PROVE  Ask(r) \in Datagrams /\ Ask(r).r = r /\ Ask(r).what = "request"
  BY DEF Datagram, Datagrams, Ask

LEMMA NewAck ==
  ASSUME NEW r \in GwRequests \cup PbxRequests
  PROVE  Ack(r) \in Datagrams /\ Ack(r).r = r /\ Ack(r).what = "ack"
  BY DEF Datagram, Datagrams, Ack

LEMMA AskSent ==
  ASSUME NEW r \in GwRequests, fut'[r] # "none"
  PROVE  Ask(r) \in Datagrams /\ FromClient(Ask(r)) /\ \A h \in BOOLEAN : Offer(r, h) \in Datagrams /\ FromClient(Offer(r, h))
  BY NewAsk, NewOffer DEF FromClient

LEMMA AckSent ==
  ASSUME NEW r \in GwRequests, fut'[r] # "none", pbx.resp[r] \in Final
  PROVE  Ack(r) \in Datagrams /\ FromClient(Ack(r))
  BY NewAck DEF FromClient

LEMMA ClientTypes ==
  ASSUME DialogInv
  PROVE  /\ ClientType /\ TableInv /\ gw \in SipCall /\ last \in LastFinal /\ net \subseteq Datagrams /\ gaveUp \in BOOLEAN
         /\ dir \in {"out", "in"} /\ gw.rn \in Nat /\ gw.inv \in {0, 1, 2}
         /\ gw.flow \in {"none", "start", "wait", "done"} /\ gw.st \in CallState /\ gw.re \in {"idle", "first", "asleep", "second"}
  <1>1. gw \in SipCall BY DEF DialogInv, TypeOK
  <1>2. gw.rn \in Nat /\ gw.inv \in {0, 1, 2} /\ gw.flow \in {"none", "start", "wait", "done"}
        /\ gw.st \in CallState /\ gw.re \in {"idle", "first", "asleep", "second"}
    BY <1>1 DEF SipCall
  <1> QED BY <1>1, <1>2, Callee DEF DialogInv, TypeOK, ClientType

LEMMA FlowStartKeeps ==
  ASSUME DialogInv, FlowStart
  PROVE  DialogInv'
  <1>1. UNCHANGED <<scene, last, cache, pbx, gaveUp>> /\ Begin(Invite(1)) /\ net' = net \cup {Ask(Invite(1))}
        /\ gw.flow = "start" /\ dir' = dir
    BY DEF FlowStart, Send, dir
  <1>2. Invite(1) \in GwRequests /\ Invite(1) \in GwInvites /\ Invite(1).n = 1 /\ Invite(1).kind = "invite" BY GwNames
  <1>3. dir = "out" /\ gw.inv = 0 /\ gw.st \in {"new", "terminated"} /\ fut[Invite(1)] = "none"
    BY <1>1, <1>2 DEF DialogInv, FlowInv
  <1>4. /\ gw' \in SipCall /\ gw'.flow = "wait" /\ gw'.inv = 1
        /\ gw'.st = (IF gw.st = "terminated" THEN "terminated" ELSE "calling")
        /\ gw'.re = gw.re /\ gw'.rn = gw.rn /\ gw'.hold = gw.hold /\ gw'.lastAck = gw.lastAck
    <2> DEFINE s == IF gw.st = "terminated" THEN "terminated" ELSE "calling"
    <2>1. gw' = [gw EXCEPT !.flow = "wait", !.inv = 1, !.st = s] BY <1>3 DEF FlowStart
    <2>2. s \in CallState /\ gw \in SipCall BY ClientTypes DEF CallState
    <2> HIDE DEF s
    <2>3. gw' = [st |-> s, answered |-> gw.answered, flow |-> "wait", inv |-> 1, re |-> gw.re, rn |-> gw.rn,
                 hold |-> gw.hold, lastAck |-> gw.lastAck]
      BY <2>1, <2>2 DEF SipCall
    <2>4. gw' \in SipCall BY <2>2, <2>3 DEF SipCall
    <2> QED BY <2>3, <2>4 DEF s
  <1>5. /\ ClientType' /\ armed' = armed \cup {Invite(1)} /\ fut'[Invite(1)] = "open"
        /\ \A q \in GwRequests \ {Invite(1)} : fut'[q] = fut[q]
    BY <1>1, <1>2, BeginFrame, ClientTypes
  <1> HIDE DEF Invite
  <1>6. ClientStep
    <2>1. CallerMoves BY <1>3, <1>4 DEF CallerMoves
    <2>2. LastMoves
      <3>1. ~last.timer BY <1>3 DEF DialogInv, LastInv
      <3> QED BY <1>1, <3>1, ClientTypes DEF LastMoves
    <2>3. FutGrows BY <1>2, <1>5, GwNames, Codes DEF FutGrows
    <2>4. \A m \in net' : m \in Datagrams /\ (m \in net \/ FromClient(m))
      BY <1>1, <1>2, <1>5, AskSent, ClientTypes
    <2>5. gaveUp' \in BOOLEAN BY <1>1, ClientTypes
    <2>6. UNCHANGED <<scene, cache, pbx>> /\ net' \subseteq Datagrams BY <1>1, <2>4
    <2> QED BY <1>5, <2>1, <2>2, <2>3, <2>4, <2>5, <2>6 DEF ClientStep
  <1>7. FlowInv' BY <1>1, <1>2, <1>3, <1>4, <1>5, GwNames DEF DialogInv, FlowInv, Live
  <1>8. HangupInv' BY <1>1, <1>2, <1>3, <1>4, <1>5, GwNames DEF DialogInv, HangupInv
  <1>9. ReInv' BY <1>1, <1>2, <1>3, <1>4, <1>5, GwNames, ClientTypes DEF DialogInv, ReInv, Live, Pending
  <1>10. TableInv'
    <2>1. fut[CancelOf(Invite(1))] = "none" BY <1>2, <1>3, GwNames DEF DialogInv, HangupInv
    <2> QED BY <1>1, <1>2, <1>3, <1>4, <2>1, BeginTable, ClientTypes
  <1> QED BY <1>6, <1>7, <1>8, <1>9, <1>10, ClientInv DEF ClientRest

\* What the request the flow waits for looks like once it is answered.
LEMMA FlowWaits ==
  ASSUME DialogInv, NEW c \in Live, FlowGets(c)
  PROVE  /\ gw.flow = "wait" /\ gw.inv \in {1, 2} /\ dir = "out"
         /\ gw.st \in {"calling", "ringing", "early", "terminated"}
         /\ fut[Invite(gw.inv)] = c /\ (c \in Final => pbx.resp[Invite(gw.inv)] = c)
         /\ Invite(gw.inv) \in GwRequests /\ Invite(gw.inv) \in GwInvites
         /\ Invite(gw.inv).kind = "invite" /\ Invite(gw.inv).n = gw.inv
         /\ fut[Bye] = "none" /\ gw.rn = 0 /\ gw.re = "idle" /\ ~last.timer
  <1>1. gw.flow = "wait" /\ fut[Invite(gw.inv)] = c BY DEF FlowGets
  <1>2. gw.inv \in {1, 2} /\ dir = "out" /\ gw.st \in {"calling", "ringing", "early", "terminated"}
    BY <1>1 DEF DialogInv, FlowInv
  <1>3. Invite(gw.inv) \in GwRequests /\ Invite(gw.inv) \in GwInvites
        /\ Invite(gw.inv).kind = "invite" /\ Invite(gw.inv).n = gw.inv
    BY <1>2, GwNames
  <1>4. c \in Final => pbx.resp[Invite(gw.inv)] = c BY <1>1, <1>3 DEF DialogInv, RespInv
  <1>5. fut[Bye] = "none" BY <1>1 DEF DialogInv, HangupInv
  <1>6. ~last.timer BY <1>2 DEF DialogInv, LastInv
  <1>7. gw.rn = 0 /\ gw.re = "idle"
    <2>1. gw.rn \in Nat BY ClientTypes DEF SipCall
    <2>2. ~(gw.rn > 0) BY <1>1 DEF DialogInv, ReInv
    <2> QED BY <2>1, <2>2 DEF DialogInv, ReInv
  <1> QED BY <1>1, <1>2, <1>3, <1>4, <1>5, <1>6, <1>7

LEMMA FlowChallengedKeeps ==
  ASSUME DialogInv, FlowChallenged
  PROVE  DialogInv'
  <1>1. UNCHANGED <<scene, last, cache, pbx, gaveUp>> /\ ReturnThenBegin(Invite(1), Invite(2)) /\ dir' = dir
        /\ net' = net \cup {Ask(Invite(2))} /\ FlowGets("challenge") /\ gw.inv = 1 /\ gw' = [gw EXCEPT !.inv = 2]
    BY DEF FlowChallenged, Send, dir
  <1>2. /\ gw.flow = "wait" /\ dir = "out" /\ gw.st \in {"calling", "ringing", "early", "terminated"}
        /\ fut[Invite(1)] = "challenge" /\ pbx.resp[Invite(1)] = "challenge" /\ fut[Invite(1)] \in Live
        /\ fut[Bye] = "none" /\ gw.rn = 0 /\ gw.re = "idle" /\ ~last.timer
    BY <1>1, FlowWaits, Codes
  <1>3. /\ Invite(1) \in GwRequests /\ Invite(1) \in GwInvites /\ Invite(1).n = 1 /\ Invite(1).kind = "invite"
        /\ Invite(2) \in GwRequests /\ Invite(2) \in GwInvites /\ Invite(2).n = 2 /\ Invite(2).kind = "invite"
        /\ \A r \in GwInvites : r = Invite(1) \/ r = Invite(2)
        /\ \A r \in GwRequests : r.kind # "invite" => r \notin {Invite(1), Invite(2)}
    BY GwNames
  <1>4. fut[Invite(2)] = "none" BY <1>1, <1>3 DEF DialogInv, FlowInv
  <1>5. /\ gw' \in SipCall /\ gw'.flow = gw.flow /\ gw'.inv = 2 /\ gw'.st = gw.st
        /\ gw'.re = gw.re /\ gw'.rn = gw.rn /\ gw'.hold = gw.hold /\ gw'.lastAck = gw.lastAck
    <2>1. gw \in SipCall BY ClientTypes
    <2> QED BY <1>1, <2>1 DEF SipCall
  <1> HIDE DEF Invite
  <1>6. /\ ClientType' /\ fut'[Invite(1)] = "over" /\ fut'[Invite(2)] = "open"
        /\ \A q \in GwRequests \ {Invite(1), Invite(2)} : fut'[q] = fut[q]
        /\ \A r \in armed \ {Invite(1), table[Invite(1)]} : r \in armed'
    BY <1>1, <1>3, ReturnThenBeginFrame, ClientTypes
  <1>7. ClientStep
    <2>1. CallerMoves BY <1>2, <1>5 DEF CallerMoves
    <2>2. LastMoves BY <1>1, <1>2, ClientTypes DEF LastMoves
    <2>3. FutGrows BY <1>2, <1>3, <1>6, GwNames, Codes DEF FutGrows
    <2>4. \A m \in net' : m \in Datagrams /\ (m \in net \/ FromClient(m))
      BY <1>1, <1>3, <1>6, AskSent, ClientTypes
    <2>5. gaveUp' \in BOOLEAN BY <1>1, ClientTypes
    <2>6. UNCHANGED <<scene, cache, pbx>> /\ net' \subseteq Datagrams BY <1>1, <2>4
    <2> QED BY <1>6, <2>1, <2>2, <2>3, <2>4, <2>5, <2>6 DEF ClientStep
  <1>8. FlowInv' BY <1>1, <1>2, <1>3, <1>5, <1>6, Codes DEF DialogInv, FlowInv, Live
  <1>9. HangupInv'
    <2>1. fut'[Bye] = "none" BY <1>2, <1>3, <1>6, GwNames
    <2> QED BY <1>1, <1>2, <1>3, <1>5, <1>6, <2>1, GwNames DEF DialogInv, HangupInv
  <1>10. ReInv'
    <2>1. ASSUME NEW r \in GwRequests, r.kind = "re" PROVE fut'[r] = fut[r] /\ fut[r] = "none" /\ ~(r.n <= gw.rn)
      BY <1>2, <1>3, <1>6, <2>1, GwNames DEF DialogInv, ReInv
    <2> QED BY <1>2, <1>5, <2>1, ClientTypes DEF DialogInv, ReInv, Live, Final, Failure, Pending
  <1>11. TableInv'
    <2>1. fut[CancelOf(Invite(2))] = "none" BY <1>3, <1>4, GwNames DEF DialogInv, HangupInv
    <2> QED BY <1>1, <1>2, <1>3, <1>4, <1>5, <2>1, ReturnThenBeginTable, ClientTypes
  <1> QED BY <1>7, <1>8, <1>9, <1>10, <1>11, ClientInv DEF ClientRest

\* The flow ends with its request: the table and the future of that request are all that changes.
LEMMA FlowEnds ==
  ASSUME DialogInv, NEW c \in Live, FlowGets(c), Return(Invite(gw.inv))
  PROVE  /\ ClientType' /\ fut'[Invite(gw.inv)] = "over"
         /\ \A q \in GwRequests \ {Invite(gw.inv)} : fut'[q] = fut[q]
         /\ \A q \in GwRequests : q.kind # "invite" => fut'[q] = fut[q]
         /\ \A r \in GwInvites : fut'[r] \notin Live
         /\ \A r \in GwInvites : fut'[r] # "none" <=> r.n <= gw.inv
         /\ fut'[Bye] = "none" /\ \A r \in GwRequests : r.kind = "re" => fut'[r] = "none"
         /\ FutGrows
         /\ gw'.lastAck \in {gw.lastAck, Invite(gw.inv)} => TableInv'
  <1> DEFINE i == Invite(gw.inv)
  <1>1. i \in GwRequests /\ i \in GwInvites /\ i.kind = "invite" /\ i.n = gw.inv /\ fut[i] = c /\ gw.rn = 0 /\ fut[Bye] = "none"
        /\ gw.inv \in {1, 2} /\ fut[i] \in Live
    BY FlowWaits
  <1>2. Return(i) OBVIOUS
  <1> HIDE DEF i
  <1>3. ClientType' /\ fut'[i] = "over" /\ \A q \in GwRequests \ {i} : fut'[q] = fut[q]
    BY <1>1, <1>2, ReturnFrame, ClientTypes
  <1>4. \A q \in GwRequests : q.kind # "invite" => fut'[q] = fut[q] BY <1>1, <1>3
  <1>5. ASSUME NEW r \in GwInvites
        PROVE  fut'[r] \notin Live /\ (fut'[r] # "none" <=> r.n <= gw.inv)
    BY <1>1, <1>3, GwNames, Codes DEF DialogInv, FlowInv, Live, FlowGets
  <1>6. fut'[Bye] = "none" BY <1>1, <1>4, GwNames
  <1>7. ASSUME NEW r \in GwRequests, r.kind = "re" PROVE fut'[r] = "none"
    <2>1. r.n \in Nat /\ ~(r.n <= gw.rn) BY <1>1, <1>7, GwNames
    <2>2. fut[r] = "none" BY <1>7, <2>1 DEF DialogInv, ReInv
    <2> QED BY <1>4, <1>7, <2>2
  <1>8. FutGrows BY <1>1, <1>3, GwNames, Codes DEF FutGrows
  <1>9. gw'.lastAck \in {gw.lastAck, i} => TableInv'
    BY <1>1, <1>2, ReturnTable, ClientTypes DEF IsInvite
  <1> QED BY <1>3, <1>4, <1>5, <1>6, <1>7, <1>8, <1>9 DEF i

\* The INVITE is refused or its deadline passes.
LEMMA FlowEndsInFailure ==
  ASSUME DialogInv, NEW c \in Live, FlowGets(c), Return(Invite(gw.inv)), TimerOff,
         gw' = [Ended(gw) EXCEPT !.flow = "done"], UNCHANGED <<scene, cache, pbx, net>>, gaveUp' \in BOOLEAN
  PROVE  DialogInv'
  <1>1. dir' = dir BY DEF dir
  <1>2. FlowGets(c) OBVIOUS
  <1>3. /\ gw.flow = "wait" /\ gw.inv \in {1, 2} /\ dir = "out" /\ fut[Bye] = "none" /\ gw.rn = 0 /\ gw.re = "idle"
        /\ ~last.timer
    BY <1>2, FlowWaits
  <1>4. /\ gw' \in SipCall /\ gw'.flow = "done" /\ gw'.inv = gw.inv /\ gw'.st = "terminated"
        /\ gw'.re = gw.re /\ gw'.rn = gw.rn /\ gw'.hold = gw.hold /\ gw'.lastAck = gw.lastAck
    <2> DEFINE g == Ended(gw)
    <2>1. g \in SipCall BY ClientTypes, EndedFrame
    <2>2. gw' = [g EXCEPT !.flow = "done"] BY <1>1
    <2>3. g.st = "terminated" /\ g.inv = gw.inv /\ g.re = gw.re /\ g.rn = gw.rn /\ g.hold = gw.hold /\ g.lastAck = gw.lastAck
      BY ClientTypes, EndedFrame
    <2> HIDE DEF g
    <2> QED BY <2>1, <2>2, <2>3 DEF SipCall
  <1>5. /\ ClientType' /\ FutGrows /\ TableInv'
        /\ \A q \in GwRequests : q.kind # "invite" => fut'[q] = fut[q]
        /\ \A r \in GwInvites : fut'[r] \notin Live /\ (fut'[r] # "none" <=> r.n <= gw.inv)
        /\ fut'[Bye] = "none" /\ \A r \in GwRequests : r.kind = "re" => fut'[r] = "none"
    BY <1>1, <1>2, <1>4, FlowEnds
  <1>6. ClientStep
    <2>1. CallerMoves BY <1>3, <1>4 DEF CallerMoves
    <2>2. LastMoves BY <1>1, <1>3, LastOff DEF LastMoves
    <2>3. net' \subseteq Datagrams BY ClientTypes
    <2> QED BY <1>5, <2>1, <2>2, <2>3 DEF ClientStep
  <1>7. FlowInv' BY <1>1, <1>3, <1>4, <1>5 DEF DialogInv, FlowInv
  <1>8. HangupInv' BY <1>1, <1>3, <1>4, <1>5, GwNames DEF DialogInv, HangupInv, FutGrows
  <1>9. ReInv'
    <2>1. ASSUME NEW r \in GwRequests, r.kind = "re" PROVE fut'[r] = "none" /\ ~(r.n <= gw.rn)
      BY <1>3, <1>5, <2>1, GwNames
    <2> QED BY <1>3, <1>4, <2>1, ClientTypes DEF DialogInv, ReInv, Live, Final, Failure, Pending
  <1> QED BY <1>5, <1>6, <1>7, <1>8, <1>9, ClientInv DEF ClientRest

LEMMA FlowFailsKeeps ==
  ASSUME DialogInv, FlowFails
  PROVE  DialogInv'
  <1>1. UNCHANGED <<scene, cache, pbx, net>> /\ gaveUp' = gaveUp /\ Return(Invite(gw.inv)) /\ TimerOff
        /\ gw' = [Ended(gw) EXCEPT !.flow = "done"]
    BY DEF FlowFails
  <1>2. PICK c \in Live : FlowGets(c) BY Codes DEF FlowFails
  <1>3. gaveUp' \in BOOLEAN BY <1>1, ClientTypes
  <1> QED BY <1>1, <1>2, <1>3, FlowEndsInFailure

LEMMA FlowUpKeeps ==
  ASSUME DialogInv, FlowUp
  PROVE  DialogInv'
  <1> DEFINE i == Invite(gw.inv)
  <1>1. UNCHANGED <<scene, last, cache, pbx, gaveUp>> /\ Return(i) /\ dir' = dir /\ FlowGets("ok") /\ gw.st # "terminated"
        /\ gw' = [gw EXCEPT !.flow = "done", !.st = "connected", !.answered = "ok", !.lastAck = i]
        /\ net' = net \cup {Ack(i)}
    BY DEF FlowUp, Send, dir
  <1>2. "ok" \in Final /\ "ok" \in Live BY Codes
  <1>3. /\ gw.flow = "wait" /\ gw.inv \in {1, 2} /\ dir = "out" /\ fut[Bye] = "none" /\ gw.rn = 0 /\ gw.re = "idle"
        /\ ~last.timer /\ i \in GwRequests /\ i \in GwInvites /\ i.kind = "invite" /\ pbx.resp[i] = "ok"
    BY <1>1, <1>2, FlowWaits
  <1>5. /\ ClientType' /\ FutGrows /\ fut'[i] = "over" /\ (gw'.lastAck \in {gw.lastAck, i} => TableInv')
        /\ \A q \in GwRequests : q.kind # "invite" => fut'[q] = fut[q]
        /\ \A r \in GwInvites : fut'[r] \notin Live /\ (fut'[r] # "none" <=> r.n <= gw.inv)
        /\ fut'[Bye] = "none" /\ \A r \in GwRequests : r.kind = "re" => fut'[r] = "none"
    BY <1>1, <1>2, FlowEnds
  <1> HIDE DEF i
  <1>4. /\ gw' \in SipCall /\ gw'.flow = "done" /\ gw'.inv = gw.inv /\ gw'.st = "connected"
        /\ gw'.re = gw.re /\ gw'.rn = gw.rn /\ gw'.hold = gw.hold /\ gw'.lastAck = i
    <2>1. gw \in SipCall BY ClientTypes
    <2>2. gw' = [st |-> "connected", answered |-> "ok", flow |-> "done", inv |-> gw.inv, re |-> gw.re, rn |-> gw.rn,
                 hold |-> gw.hold, lastAck |-> i]
      BY <1>1, <2>1 DEF SipCall
    <2> QED BY <1>3, <2>1, <2>2 DEF SipCall, CallState
  <1>6. ClientStep
    <2>1. Accepted BY <1>3 DEF Accepted
    <2>2. CallerMoves BY <1>1, <1>2, <1>3, <1>4, <2>1 DEF CallerMoves
    <2>3. LastMoves BY <1>1, <1>3, ClientTypes DEF LastMoves
    <2>4. \A m \in net' : m \in Datagrams /\ (m \in net \/ FromClient(m))
      BY <1>1, <1>2, <1>3, <1>5, AckSent, ClientTypes
    <2>5. gaveUp' \in BOOLEAN BY <1>1, ClientTypes
    <2>6. UNCHANGED <<scene, cache, pbx>> /\ net' \subseteq Datagrams BY <1>1, <2>4
    <2> QED BY <1>5, <2>2, <2>3, <2>4, <2>5, <2>6 DEF ClientStep
  <1>7. FlowInv' BY <1>1, <1>3, <1>4, <1>5 DEF DialogInv, FlowInv
  <1>8. HangupInv'
    <2>1. ASSUME NEW r \in GwRequests, r.kind = "cancel" PROVE fut'[r] = "none"
      BY <1>1, <1>5, <2>1 DEF DialogInv, HangupInv
    <2> QED BY <1>5, <2>1 DEF HangupInv
  <1>9. ReInv'
    <2>1. ASSUME NEW r \in GwRequests, r.kind = "re" PROVE fut'[r] = "none" /\ ~(r.n <= gw.rn)
      BY <1>3, <1>5, <2>1, GwNames
    <2> QED BY <1>3, <1>4, <2>1, ClientTypes DEF DialogInv, ReInv, Live, Final, Failure, Pending
  <1> QED BY <1>4, <1>5, <1>6, <1>7, <1>8, <1>9, ClientInv DEF ClientRest

LEMMA FlowTooLateKeeps ==
  ASSUME DialogInv, FlowTooLate
  PROVE  DialogInv'
  <1> DEFINE i == Invite(gw.inv)
  <1>1. UNCHANGED <<scene, last, cache, pbx, gaveUp>> /\ ReturnThenBegin(i, Bye) /\ dir' = dir /\ FlowGets("ok")
        /\ gw.st = "terminated" /\ gw' = [gw EXCEPT !.flow = "done", !.lastAck = i]
        /\ net' = net \cup {Ack(i), Ask(Bye)}
    BY DEF FlowTooLate, Send, dir
  <1>2. "ok" \in Final /\ "ok" \in Live BY Codes
  <1>3. /\ gw.flow = "wait" /\ gw.inv \in {1, 2} /\ dir = "out" /\ fut[Bye] = "none" /\ gw.rn = 0 /\ gw.re = "idle"
        /\ ~last.timer /\ i \in GwRequests /\ i \in GwInvites /\ i.kind = "invite" /\ pbx.resp[i] = "ok"
        /\ i.n = gw.inv /\ fut[i] \in Live
    BY <1>1, <1>2, FlowWaits
  <1>4. /\ gw' \in SipCall /\ gw'.flow = "done" /\ gw'.inv = gw.inv /\ gw'.st = "terminated"
        /\ gw'.re = gw.re /\ gw'.rn = gw.rn /\ gw'.hold = gw.hold /\ gw'.lastAck = i
    <2>1. gw \in SipCall BY ClientTypes
    <2> HIDE DEF i
    <2> QED BY <1>1, <1>3, <2>1 DEF SipCall
  <1> HIDE DEF i
  <1>5. /\ ClientType' /\ fut'[i] = "over" /\ fut'[Bye] = "open" /\ Bye \in armed'
        /\ \A q \in GwRequests \ {i, Bye} : fut'[q] = fut[q]
    BY <1>1, <1>3, GwNames, ReturnThenBeginFrame, ClientTypes
  <1>6. ClientStep
    <2>1. Accepted BY <1>3 DEF Accepted
    <2>2. CallerMoves BY <1>1, <1>2, <1>3, <1>4 DEF CallerMoves
    <2>3. LastMoves BY <1>1, <1>3, ClientTypes DEF LastMoves
    <2>4. FutGrows
      <3>1. fut'[Invite(2)] = fut[Invite(2)] \/ Invite(2) = i BY <1>5, GwNames
      <3>2. Invite(2) = i => fut[Invite(2)] # "none" BY <1>3, Codes DEF Live
      <3> QED BY <1>3, <1>5, <2>1, <3>1, <3>2, Codes DEF FutGrows
    <2>5. \A m \in net' : m \in Datagrams /\ (m \in net \/ FromClient(m))
      BY <1>1, <1>2, <1>3, <1>5, AckSent, AskSent, ClientTypes, GwNames
    <2>6. gaveUp' \in BOOLEAN BY <1>1, ClientTypes
    <2>7. UNCHANGED <<scene, cache, pbx>> /\ net' \subseteq Datagrams BY <1>1, <2>5
    <2> QED BY <1>5, <2>2, <2>3, <2>4, <2>5, <2>6, <2>7 DEF ClientStep
  <1>7. FlowInv'
    <2>1. ASSUME NEW r \in GwInvites PROVE fut'[r] \notin Live /\ (fut'[r] # "none" <=> r.n <= gw.inv)
      BY <1>3, <1>5, GwNames, Codes DEF DialogInv, FlowInv, Live
    <2> QED BY <1>1, <1>3, <1>4, <2>1 DEF DialogInv, FlowInv
  <1>8. HangupInv' BY <1>1, <1>3, <1>4, <1>5, GwNames DEF DialogInv, HangupInv
  <1>9. ReInv'
    <2>1. ASSUME NEW r \in GwRequests, r.kind = "re" PROVE fut'[r] = "none" /\ ~(r.n <= gw.rn)
      BY <1>3, <1>5, <2>1, GwNames DEF DialogInv, ReInv
    <2> QED BY <1>3, <1>4, <2>1, ClientTypes DEF DialogInv, ReInv, Live, Final, Failure, Pending
  <1>10. TableInv' BY <1>1, <1>3, <1>4, GwNames, ReturnThenBeginTable, ClientTypes DEF IsInvite
  <1> QED BY <1>6, <1>7, <1>8, <1>9, <1>10, ClientInv DEF ClientRest

LEMMA HangupNewKeeps ==
  ASSUME DialogInv, HangupNew
  PROVE  DialogInv'
  <1>1. UNCHANGED <<scene, clients, cache, pbx, net, gaveUp>> /\ gw' = Ended(gw) /\ TimerOff /\ dir' = dir /\ gw.st = "new"
        /\ dir = "out"
    BY DEF HangupNew, dir
  <1>2. /\ gw' \in SipCall /\ gw'.flow = gw.flow /\ gw'.inv = gw.inv /\ gw'.st = "terminated"
        /\ gw'.re = gw.re /\ gw'.rn = gw.rn /\ gw'.hold = gw.hold /\ gw'.lastAck = gw.lastAck
    BY <1>1, ClientTypes, EndedFrame
  <1>3. gw.flow = "start" BY <1>1, ClientTypes DEF DialogInv, FlowInv
  <1>4. ~last.timer BY <1>1 DEF DialogInv, LastInv
  <1>5. UNCHANGED <<fut, table, armed>> BY <1>1 DEF clients
  <1>6. ClientStep
    <2>1. CallerMoves BY <1>1, <1>2 DEF CallerMoves
    <2>2. LastMoves BY <1>1, <1>4, LastOff DEF LastMoves
    <2>3. gaveUp' \in BOOLEAN /\ net' \subseteq Datagrams BY <1>1, ClientTypes
    <2>4. FutGrows BY <1>5 DEF FutGrows
    <2>5. ClientType' BY <1>5, ClientTypes DEF ClientType
    <2> QED BY <1>1, <2>1, <2>2, <2>3, <2>4, <2>5 DEF ClientStep
  <1>7. FlowInv' BY <1>1, <1>2, <1>3, <1>5 DEF DialogInv, FlowInv
  <1>8. HangupInv' BY <1>1, <1>2, <1>3, <1>5 DEF DialogInv, HangupInv
  <1>9. ReInv' BY <1>1, <1>2, <1>3, <1>5 DEF DialogInv, ReInv, Pending
  <1>10. TableInv' BY <1>2, <1>5 DEF DialogInv, TableInv
  <1> QED BY <1>6, <1>7, <1>8, <1>9, <1>10, ClientInv DEF ClientRest

LEMMA CancelKeeps ==
  ASSUME DialogInv, Cancel
  PROVE  DialogInv'
  <1> DEFINE c == CancelOf(Invite(gw.inv))
  <1>1. UNCHANGED <<scene, cache, pbx, gaveUp>> /\ gw' = Ended(gw) /\ TimerOff /\ dir' = dir
        /\ dir = "out" /\ gw.st \in {"calling", "ringing", "early"} /\ Begin(c) /\ net' = net \cup {Ask(c)}
    BY DEF Cancel, Send, dir
  <1>2. /\ gw' \in SipCall /\ gw'.flow = gw.flow /\ gw'.inv = gw.inv /\ gw'.st = "terminated"
        /\ gw'.re = gw.re /\ gw'.rn = gw.rn /\ gw'.hold = gw.hold /\ gw'.lastAck = gw.lastAck
    BY <1>1, ClientTypes, EndedFrame
  <1>3. gw.flow = "wait" /\ gw.inv \in {1, 2} BY <1>1, ClientTypes DEF DialogInv, FlowInv
  <1>4. c \in GwRequests /\ c.kind = "cancel" BY <1>3, GwNames
  <1> HIDE DEF c
  <1>5. fut[c] = "none" BY <1>1, <1>4 DEF DialogInv, HangupInv
  <1>6. ~last.timer BY <1>1 DEF DialogInv, LastInv
  <1>7. /\ ClientType' /\ armed' = armed \cup {c} /\ fut'[c] = "open"
        /\ \A q \in GwRequests \ {c} : fut'[q] = fut[q]
    BY <1>1, <1>4, BeginFrame, ClientTypes
  <1>8. ClientStep
    <2>1. CallerMoves BY <1>1, <1>2 DEF CallerMoves
    <2>2. LastMoves BY <1>1, <1>6, LastOff DEF LastMoves
    <2>3. FutGrows BY <1>4, <1>5, <1>7, GwNames, Codes DEF FutGrows
    <2>4. \A m \in net' : m \in Datagrams /\ (m \in net \/ FromClient(m))
      BY <1>1, <1>4, <1>7, AskSent, ClientTypes
    <2>5. gaveUp' \in BOOLEAN BY <1>1, ClientTypes
    <2>6. UNCHANGED <<scene, cache, pbx>> /\ net' \subseteq Datagrams BY <1>1, <2>4
    <2> QED BY <1>7, <2>1, <2>2, <2>3, <2>4, <2>5, <2>6 DEF ClientStep
  <1>9. FlowInv' BY <1>1, <1>2, <1>3, <1>4, <1>7, GwNames DEF DialogInv, FlowInv
  <1>10. HangupInv'
    <2>1. Branch(c) \in GwInvites /\ Branch(c).n = gw.inv BY <1>3, GwNames DEF c
    <2>2. fut[Branch(c)] # "none" BY <1>3, <2>1, Codes DEF DialogInv, FlowInv
    <2> QED BY <1>1, <1>2, <1>3, <1>4, <1>7, <2>2, GwNames DEF DialogInv, HangupInv
  <1>11. ReInv' BY <1>1, <1>2, <1>3, <1>4, <1>7, GwNames DEF DialogInv, ReInv, Pending
  <1>12. TableInv' BY <1>1, <1>2, <1>4, <1>5, BeginTable, ClientTypes
  <1> QED BY <1>8, <1>9, <1>10, <1>11, <1>12, ClientInv DEF ClientRest

\* A call that is up is hung up, by the user or because its answer was not ACKed.
LEMMA SendByeKeeps ==
  ASSUME DialogInv, gw.st = "connected", SendBye, UNCHANGED <<scene, cache, pbx>>, gaveUp' \in BOOLEAN
  PROVE  DialogInv' /\ fut'[Bye] = "open" /\ Bye \in armed' /\ gw'.st = "terminated"
  <1>1. gw' = Ended(gw) /\ TimerOff /\ dir' = dir /\ Begin(Bye) /\ net' = net \cup {Ask(Bye)}
    BY DEF SendBye, Send, dir
  <1>2. /\ gw' \in SipCall /\ gw'.flow = gw.flow /\ gw'.inv = gw.inv /\ gw'.st = "terminated"
        /\ gw'.re = gw.re /\ gw'.rn = gw.rn /\ gw'.hold = gw.hold /\ gw'.lastAck = gw.lastAck
    BY <1>1, ClientTypes, EndedFrame
  <1>3. gw.flow \in {"none", "done"}
    <2>1. gw.flow \in {"none", "start", "wait", "done"} BY ClientTypes DEF SipCall
    <2> QED BY <2>1 DEF DialogInv, FlowInv
  <1>4. Bye \in GwRequests /\ Bye.kind = "bye" BY GwNames
  <1>5. fut[Bye] = "none" BY DEF DialogInv, HangupInv
  <1>6. /\ ClientType' /\ armed' = armed \cup {Bye} /\ fut'[Bye] = "open"
        /\ \A q \in GwRequests \ {Bye} : fut'[q] = fut[q]
    BY <1>1, <1>4, BeginFrame, ClientTypes
  <1>7. ClientStep
    <2>1. CallerMoves BY <1>1, <1>2 DEF CallerMoves
    <2>2. LastMoves BY <1>1, LastOff DEF LastMoves
    <2>3. FutGrows BY <1>4, <1>5, <1>6, GwNames, Codes DEF FutGrows
    <2>4. \A m \in net' : m \in Datagrams /\ (m \in net \/ FromClient(m))
      BY <1>1, <1>4, <1>6, AskSent, ClientTypes
    <2> QED BY <1>6, <2>1, <2>2, <2>3, <2>4 DEF ClientStep
  <1>8. FlowInv' BY <1>1, <1>2, <1>3, <1>4, <1>6, GwNames DEF DialogInv, FlowInv
  <1>9. HangupInv' BY <1>1, <1>2, <1>3, <1>4, <1>6, GwNames DEF DialogInv, HangupInv
  <1>10. ReInv' BY <1>1, <1>2, <1>3, <1>4, <1>6, GwNames DEF DialogInv, ReInv, Pending
  <1>11. TableInv' BY <1>1, <1>2, <1>4, <1>5, BeginTable, ClientTypes
  <1> QED BY <1>2, <1>6, <1>7, <1>8, <1>9, <1>10, <1>11, ClientInv DEF ClientRest

LEMMA HangupKeeps ==
  ASSUME DialogInv, Hangup \/ NoAck
  PROVE  DialogInv' /\ gw.st = "connected" /\ fut'[Bye] = "open" /\ Bye \in armed' /\ gw'.st = "terminated"
  <1>1. gw.st = "connected" BY DEF Hangup, NoAck, DialogInv, LastInv
  <1>2. SendBye /\ UNCHANGED <<scene, cache, pbx>> BY DEF Hangup, NoAck
  <1>3. gaveUp' \in BOOLEAN BY ClientTypes DEF Hangup, NoAck
  <1> QED BY <1>1, <1>2, <1>3, SendByeKeeps

\* The return of one request does not stop the repeats of a BYE or of a re-INVITE.
LEMMA StillArmed ==
  ASSUME DialogInv, NEW r \in GwRequests, NEW q \in GwRequests, q.kind \in {"bye", "re"}, q # r, q \in armed, Return(r)
  PROVE  q \in armed'
  <1>1. armed' = armed \ {r, table[Branch(r)]} BY ReturnFrame, ClientTypes
  <1>2. Branch(q) = q /\ Branch(r) # q /\ Branch(r) \in GwRequests BY GwNames
  <1>3. table[Branch(r)] # q BY <1>2, Apart DEF DialogInv, TableInv
  <1> QED BY <1>1, <1>3

LEMMA HangupEnds ==
  ASSUME DialogInv, NEW r \in GwRequests, r.kind \in {"cancel", "bye"}, fut[r] \in Live, Return(r),
         UNCHANGED <<scene, gw, last, cache, pbx, net>>, gaveUp' \in BOOLEAN
  PROVE  DialogInv'
  <1>1. dir' = dir BY DEF dir
  <1>2. /\ ClientType' /\ armed' = armed \ {r, table[Branch(r)]} /\ fut'[r] = "over"
        /\ \A q \in GwRequests \ {r} : fut'[q] = fut[q]
    BY <1>1, ReturnFrame, ClientTypes
  <1>3. fut[r] # "none" BY Codes
  <1>4. ClientStep
    <2>1. CallerMoves BY <1>1, ClientTypes DEF CallerMoves
    <2>2. LastMoves BY <1>1, ClientTypes DEF LastMoves
    <2>3. FutGrows BY <1>1, <1>2, <1>3, GwNames, Codes DEF FutGrows
    <2>4. net' \subseteq Datagrams BY ClientTypes
    <2> QED BY <1>1, <1>2, <2>1, <2>2, <2>3, <2>4 DEF ClientStep
  <1>5. FlowInv' BY <1>1, <1>2, GwNames DEF DialogInv, FlowInv
  <1>6. HangupInv'
    <2>1. fut[Bye] = "open" /\ r # Bye => Bye \in armed' BY StillArmed, GwNames DEF DialogInv, HangupInv
    <2> QED BY <1>1, <1>2, <1>3, <2>1, GwNames DEF DialogInv, HangupInv
  <1>7. ReInv'
    <2>1. ASSUME NEW q \in GwRequests, q.kind = "re", fut[q] = "open" PROVE q \in armed'
      BY <1>1, <2>1, StillArmed DEF DialogInv, ReInv
    <2> QED BY <1>1, <1>2, <2>1, GwNames DEF DialogInv, ReInv, Pending
  <1>8. TableInv' BY <1>1, <1>3, ReturnTable, ClientTypes
  <1> QED BY <1>4, <1>5, <1>6, <1>7, <1>8, ClientInv DEF ClientRest

LEMMA HangupReturnsKeeps ==
  ASSUME DialogInv, NEW r \in GwRequests, HangupReturns(r)
  PROVE  DialogInv'
  <1>1. /\ r.kind \in {"cancel", "bye"} /\ fut[r] \in Live /\ Return(r)
        /\ UNCHANGED <<scene, gw, last, cache, pbx, net>> /\ gaveUp' = gaveUp
    BY Codes DEF HangupReturns
  <1>2. gaveUp' \in BOOLEAN BY <1>1, ClientTypes
  <1> QED BY <1>1, <1>2, HangupEnds

LEMMA SendReKeeps ==
  ASSUME DialogInv, NEW pc \in {"first", "second"}, SendRe(pc), gw.re \notin {"first", "second"},
         gw.st = "connected" \/ gw.rn > 0, gw.rn < MaxRe, pc = "first" => gw.rn + 1 < MaxRe
  PROVE  DialogInv'
  <1> DEFINE r == Re(gw.rn + 1)
  <1>1. UNCHANGED <<scene, last, cache, pbx, gaveUp>> /\ dir' = dir /\ Begin(r) /\ net' = net \cup {Offer(r, ~gw.hold)}
        /\ gw' = [gw EXCEPT !.re = pc, !.rn = gw.rn + 1]
    BY DEF SendRe, Send, dir
  <1>2. gw.rn \in Nat /\ gw.rn + 1 \in 1..MaxRe BY ClientTypes, BoundsAssumption
  <1>3. r \in GwRequests /\ r.kind = "re" /\ r.n = gw.rn + 1 BY <1>2, GwNames
  <1>4. /\ gw' \in SipCall /\ gw'.flow = gw.flow /\ gw'.inv = gw.inv /\ gw'.st = gw.st
        /\ gw'.re = pc /\ gw'.rn = gw.rn + 1 /\ gw'.hold = gw.hold /\ gw'.lastAck = gw.lastAck
    <2>1. gw \in SipCall BY ClientTypes
    <2>2. gw.rn + 1 \in 0..MaxRe BY <1>2
    <2> QED BY <1>1, <2>1, <2>2 DEF SipCall
  <1> HIDE DEF r
  <1>5. fut[r] = "none"
    <2>1. ~(r.n <= gw.rn) BY <1>2, <1>3
    <2> QED BY <1>3, <2>1 DEF DialogInv, ReInv
  <1>6. gw.flow \in {"none", "done"} /\ gw.st \in {"connected", "terminated"}
    BY ClientTypes DEF DialogInv, FlowInv, ReInv
  <1>7. /\ ClientType' /\ armed' = armed \cup {r} /\ fut'[r] = "open"
        /\ \A q \in GwRequests \ {r} : fut'[q] = fut[q]
    BY <1>1, <1>3, BeginFrame, ClientTypes
  <1>8. ClientStep
    <2>1. CallerMoves BY <1>4, ClientTypes DEF CallerMoves
    <2>2. LastMoves BY <1>1, <1>4, ClientTypes DEF LastMoves
    <2>3. FutGrows BY <1>3, <1>5, <1>7, GwNames, Codes DEF FutGrows
    <2>4. \A m \in net' : m \in Datagrams /\ (m \in net \/ FromClient(m))
      <3>1. (~gw.hold) \in BOOLEAN OBVIOUS
      <3> QED BY <1>1, <1>3, <1>7, <3>1, AskSent, ClientTypes
    <2>5. gaveUp' \in BOOLEAN BY <1>1, ClientTypes
    <2>6. UNCHANGED <<scene, cache, pbx>> /\ net' \subseteq Datagrams BY <1>1, <2>4
    <2> QED BY <1>7, <2>1, <2>2, <2>3, <2>4, <2>5, <2>6 DEF ClientStep
  <1>9. FlowInv' BY <1>1, <1>3, <1>4, <1>7, GwNames DEF DialogInv, FlowInv
  <1>10. HangupInv' BY <1>1, <1>3, <1>4, <1>7, GwNames DEF DialogInv, HangupInv
  <1>11. ReInv'
    <2>1. ASSUME NEW q \in GwRequests, q.kind = "re"
          PROVE  /\ fut'[q] \in Live <=> q.n = gw.rn + 1
                 /\ fut'[q] # "none" <=> q.n <= gw.rn + 1
                 /\ fut'[q] = "open" => q \in armed'
      <3>1. CASE q = r BY <1>2, <1>3, <1>7, <3>1 DEF Live
      <3>2. CASE q # r
        <4>1. q.n \in Nat /\ q.n # gw.rn + 1
          <5>1. q = Re(q.n) /\ q.n \in 1..MaxRe BY <2>1, GwNames
          <5> QED BY <3>2, <5>1 DEF r
        <4>2. fut'[q] = fut[q] /\ (q \in armed => q \in armed') BY <1>7, <3>2
        <4>3. fut[q] \notin Live BY <2>1 DEF DialogInv, ReInv, Pending
        <4>4. q.n <= gw.rn <=> q.n <= gw.rn + 1 BY <1>2, <4>1
        <4> QED BY <2>1, <4>1, <4>2, <4>3, <4>4 DEF DialogInv, ReInv
      <3> QED BY <3>1, <3>2
    <2>2. gw'.rn >= 1 /\ (gw'.re \in {"first", "asleep"} => gw'.rn < MaxRe) BY <1>2, <1>4
    <2>3. Pending' BY <1>4 DEF Pending
    <2> QED BY <1>4, <1>6, <2>1, <2>2, <2>3 DEF ReInv
  <1>12. TableInv' BY <1>1, <1>3, <1>4, <1>5, BeginTable, ClientTypes
  <1> QED BY <1>8, <1>9, <1>10, <1>11, <1>12, ClientInv DEF ClientRest

LEMMA ReinviteKeeps ==
  ASSUME DialogInv, Reinvite \/ ReinviteAgain
  PROVE  DialogInv'
  <1>1. gw.rn \in Nat BY ClientTypes
  <1>2. CASE Reinvite
    <2>1. gw.st = "connected" /\ gw.re = "idle" /\ gw.rn + 1 < MaxRe /\ SendRe("first") BY <1>2 DEF Reinvite
    <2>2. gw.rn < MaxRe BY <1>1, <2>1, BoundsAssumption
    <2> QED BY <2>1, <2>2, SendReKeeps
  <1>3. CASE ReinviteAgain
    <2>1. gw.re = "asleep" /\ SendRe("second") BY <1>3 DEF ReinviteAgain
    <2>2. gw.rn >= 1 /\ gw.rn < MaxRe BY <2>1 DEF DialogInv, ReInv
    <2>3. gw.rn > 0 BY <1>1, <2>2
    <2> QED BY <2>1, <2>2, <2>3, SendReKeeps
  <1> QED BY <1>2, <1>3

\* The re-INVITE a coroutine waits for.
LEMMA ReWaits ==
  ASSUME DialogInv, gw.re \in {"first", "second"}
  PROVE  /\ Re(gw.rn) \in GwRequests /\ Re(gw.rn).kind = "re" /\ Re(gw.rn).n = gw.rn /\ fut[Re(gw.rn)] \in Live
         /\ gw.rn > 0 /\ gw.st \in {"connected", "terminated"} /\ gw.flow \in {"none", "done"}
         /\ fut[Re(gw.rn)] \in Final => pbx.resp[Re(gw.rn)] = fut[Re(gw.rn)]
  <1>1. gw.rn \in 0..MaxRe /\ gw.rn >= 1 BY DEF DialogInv, TypeOK, SipCall, ReInv
  <1>2. gw.rn \in 1..MaxRe /\ gw.rn > 0 BY <1>1, BoundsAssumption
  <1>3. Re(gw.rn) \in GwRequests /\ Re(gw.rn).kind = "re" /\ Re(gw.rn).n = gw.rn BY <1>2, GwNames
  <1>4. fut[Re(gw.rn)] \in Live BY <1>3 DEF DialogInv, ReInv, Pending
  <1>5. gw.st \in {"connected", "terminated"} /\ gw.flow \in {"none", "done"} BY <1>2 DEF DialogInv, ReInv
  <1>6. fut[Re(gw.rn)] \in Final => pbx.resp[Re(gw.rn)] = fut[Re(gw.rn)] BY <1>3 DEF DialogInv, RespInv
  <1> QED BY <1>2, <1>3, <1>4, <1>5, <1>6

\* A re-INVITE ends, whatever became of it.
LEMMA ReEnds ==
  ASSUME DialogInv, gw.re \in {"first", "second"}, Return(Re(gw.rn)),
         gw' \in SipCall, gw'.re \in {"idle", "asleep"}, gw'.re = "asleep" => gw.re = "first",
         gw'.st = gw.st, gw'.flow = gw.flow, gw'.inv = gw.inv, gw'.rn = gw.rn,
         gw'.lastAck = gw.lastAck \/ (gw'.lastAck = Re(gw.rn) /\ pbx.resp[Re(gw.rn)] \in Final),
         UNCHANGED <<scene, last, cache, pbx>>, gaveUp' \in BOOLEAN,
         \A m \in net' : m \in Datagrams /\ (m \in net \/ FromClient(m))
  PROVE  DialogInv'
  <1> DEFINE r == Re(gw.rn)
  <1>1. Return(r) /\ (gw'.lastAck = gw.lastAck \/ (gw'.lastAck = r /\ pbx.resp[r] \in Final)) /\ dir' = dir BY DEF dir
  <1>2. r \in GwRequests /\ r.kind = "re" /\ r.n = gw.rn /\ fut[r] \in Live /\ gw.rn > 0
        /\ gw.st \in {"connected", "terminated"} /\ gw.flow \in {"none", "done"}
    BY ReWaits
  <1>3. \A q \in GwRequests : q.kind = "re" /\ q # r => q.n # gw.rn BY GwNames
  <1> HIDE DEF r
  <1>4. /\ ClientType' /\ fut'[r] = "over" /\ \A q \in GwRequests \ {r} : fut'[q] = fut[q]
    BY <1>1, <1>2, ReturnFrame, ClientTypes
  <1>5. ClientStep
    <2>1. CallerMoves BY <1>1, <1>2 DEF CallerMoves
    <2>2. LastMoves BY ClientTypes DEF LastMoves
    <2>3. FutGrows BY <1>2, <1>4, GwNames, Codes DEF FutGrows
    <2>4. net' \subseteq Datagrams OBVIOUS
    <2> QED BY <1>4, <2>1, <2>2, <2>3, <2>4 DEF ClientStep
  <1>6. FlowInv'
    <2>1. gw'.lastAck.kind = "invite" => gw.lastAck.kind = "invite" BY <1>1, <1>2
    <2> QED BY <1>1, <1>2, <1>4, <2>1, GwNames DEF DialogInv, FlowInv
  <1>7. HangupInv'
    <2>1. fut[Bye] = "open" => Bye \in armed' BY <1>1, <1>2, StillArmed, GwNames DEF DialogInv, HangupInv
    <2> QED BY <1>1, <1>2, <1>4, <2>1, GwNames DEF DialogInv, HangupInv
  <1>8. ReInv'
    <2>1. ASSUME NEW q \in GwRequests, q.kind = "re", q # r PROVE fut'[q] = fut[q] /\ fut[q] \notin Live
      BY <1>3, <1>4, <2>1 DEF DialogInv, ReInv
    <2>2. gw.rn <= gw.rn /\ "over" \notin Live /\ "over" # "none" /\ "open" \in Live BY ClientTypes, Codes DEF Live
    <2>3. ASSUME NEW q \in GwRequests, q.kind = "re"
          PROVE  fut'[q] \notin Live /\ (fut'[q] # "none" <=> q.n <= gw.rn)
      BY <1>2, <1>4, <2>1, <2>2, <2>3 DEF DialogInv, ReInv
    <2>4. ~Pending' BY DEF Pending
    <2>5. gw'.re = "asleep" => gw'.rn < MaxRe BY DEF DialogInv, ReInv
    <2>6. gw'.rn >= 1 BY DEF DialogInv, ReInv
    <2> QED BY <1>2, <2>2, <2>3, <2>4, <2>5, <2>6 DEF ReInv
  <1>9. TableInv' BY <1>1, <1>2, ReturnTable, ClientTypes DEF IsInvite
  <1> QED BY <1>5, <1>6, <1>7, <1>8, <1>9, ClientInv DEF ClientRest

LEMMA ReinviteDoneKeeps ==
  ASSUME DialogInv, ReinviteDone
  PROVE  DialogInv'
  <1> DEFINE r == Re(gw.rn)
  <1>1. UNCHANGED <<scene, last, cache, pbx, gaveUp>> /\ gw.re \in {"first", "second"} /\ Return(r) /\ fut[r] = "ok"
        /\ net' = net \cup {Ack(r)} /\ gw' = [gw EXCEPT !.re = "idle", !.hold = ~gw.hold, !.lastAck = r]
    BY DEF ReinviteDone, ReGets, Send
  <1>2. "ok" \in Final BY Codes
  <1>3. r \in GwRequests /\ pbx.resp[r] \in Final BY <1>1, <1>2, ReWaits
  <1> HIDE DEF r
  <1>4. /\ gw' \in SipCall /\ gw'.flow = gw.flow /\ gw'.inv = gw.inv /\ gw'.st = gw.st
        /\ gw'.re = "idle" /\ gw'.rn = gw.rn /\ gw'.lastAck = r
    <2>1. gw \in SipCall BY ClientTypes
    <2>2. gw' = [st |-> gw.st, answered |-> gw.answered, flow |-> gw.flow, inv |-> gw.inv, re |-> "idle", rn |-> gw.rn,
                 hold |-> ~gw.hold, lastAck |-> r]
      BY <1>1, <2>1 DEF SipCall
    <2> QED BY <1>3, <2>1, <2>2 DEF SipCall
  <1>5. fut'[r] = "over" BY <1>1, <1>3, ReturnFrame, ClientTypes
  <1>6. \A m \in net' : m \in Datagrams /\ (m \in net \/ FromClient(m))
    BY <1>1, <1>3, <1>5, AckSent, ClientTypes
  <1>7. gaveUp' \in BOOLEAN BY <1>1, ClientTypes
  <1> QED BY <1>1, <1>3, <1>4, <1>6, <1>7, ReEnds DEF r

LEMMA ReinviteRefusedKeeps ==
  ASSUME DialogInv, ReinviteRefused
  PROVE  DialogInv'
  <1>1. UNCHANGED <<scene, last, cache, pbx, net, gaveUp>> /\ gw.re \in {"first", "second"} /\ Return(Re(gw.rn))
    BY DEF ReinviteRefused, ReGets
  <1>2. PICK e \in {"idle", "asleep"} : (e = "asleep" => gw.re = "first") /\ gw' = [gw EXCEPT !.re = e]
    BY DEF ReinviteRefused
  <1>3. /\ gw' \in SipCall /\ gw'.flow = gw.flow /\ gw'.inv = gw.inv /\ gw'.st = gw.st
        /\ gw'.re = e /\ gw'.rn = gw.rn /\ gw'.lastAck = gw.lastAck
    <2>1. gw \in SipCall BY ClientTypes
    <2> QED BY <1>2, <2>1 DEF SipCall
  <1>4. gaveUp' \in BOOLEAN /\ \A m \in net' : m \in Datagrams /\ m \in net BY <1>1, ClientTypes
  <1> QED BY <1>1, <1>2, <1>3, <1>4, ReEnds

LEMMA DeadlineKeeps ==
  ASSUME DialogInv, NEW r \in GwRequests, Deadline(r)
  PROVE  DialogInv'
  <1>1. fut[r] = "open" /\ fut[r] \in Live /\ Return(r) /\ UNCHANGED <<scene, cache, pbx, net>> BY Codes DEF Deadline
  <1>2. gaveUp' \in BOOLEAN BY ClientTypes DEF Deadline
  <1>3. net' \subseteq Datagrams /\ dir' = dir BY <1>1, ClientTypes DEF dir
  <1>4. CASE r.kind = "invite"
    <2>1. r \in GwInvites /\ gw.flow = "wait" /\ gw.inv = r.n /\ r = Invite(gw.inv)
      BY <1>1, <1>4, GwNames DEF DialogInv, FlowInv
    <2>2. FlowGets("open") BY <1>1, <2>1 DEF FlowGets
    <2>3. gw' = [Ended(gw) EXCEPT !.flow = "done"] /\ TimerOff BY <1>4 DEF Deadline
    <2>4. Return(Invite(gw.inv)) /\ "open" \in Live BY <1>1, <2>1, Codes
    <2> QED BY <1>1, <1>2, <2>2, <2>3, <2>4, FlowEndsInFailure
  <1>5. CASE r.kind = "re"
    <2>1. gw.re \in {"first", "second"} /\ r = Re(gw.rn)
      <3>1. Pending /\ r.n = gw.rn BY <1>1, <1>5 DEF DialogInv, ReInv
      <3>2. r = Re(r.n) BY <1>5, GwNames
      <3> QED BY <3>1, <3>2 DEF Pending
    <2>2. gw' = [gw EXCEPT !.re = "idle"] /\ last' = last BY <1>5 DEF Deadline
    <2>3. /\ gw' \in SipCall /\ gw'.flow = gw.flow /\ gw'.inv = gw.inv /\ gw'.st = gw.st
          /\ gw'.re = "idle" /\ gw'.rn = gw.rn /\ gw'.lastAck = gw.lastAck
      <3>1. gw \in SipCall BY ClientTypes
      <3> QED BY <2>2, <3>1 DEF SipCall
    <2>4. \A m \in net' : m \in Datagrams /\ m \in net BY <1>1, ClientTypes
    <2> QED BY <1>1, <1>2, <2>1, <2>2, <2>3, <2>4, ReEnds
  <1>6. CASE r.kind \in {"cancel", "bye"}
    <2>1. gw' = gw /\ last' = last BY <1>6 DEF Deadline
    <2> QED BY <1>1, <1>2, <1>6, <2>1, HangupEnds
  <1> QED BY <1>4, <1>5, <1>6, GwNames

LEMMA RetransmitKeeps ==
  ASSUME DialogInv, NEW r \in GwRequests, Retransmit(r)
  PROVE  DialogInv' /\ UNCHANGED <<scene, gw, last, clients, cache, pbx, gaveUp>>
         /\ \E s \in GwRequests : net' = net \cup {Offer(s, s.kind = "re" /\ ~gw.hold)}
  <1> DEFINE s == table[Branch(r)]
  <1>1. s # None /\ fut[s] = "open" /\ net' = net \cup {Offer(s, s.kind = "re" /\ ~gw.hold)}
        /\ UNCHANGED <<scene, gw, last, clients, cache, pbx, gaveUp>>
    BY DEF Retransmit, Repeat, Send
  <1>2. s \in GwRequests BY <1>1, GwNames, ClientTypes DEF ClientType
  <1> HIDE DEF s
  <1>3. UNCHANGED <<fut, table, armed>> /\ dir' = dir BY <1>1 DEF clients, dir
  <1>4. (s.kind = "re" /\ ~gw.hold) \in BOOLEAN OBVIOUS
  <1>5. ClientStep
    <2>1. CallerMoves BY <1>1, ClientTypes DEF CallerMoves
    <2>2. LastMoves BY <1>1, ClientTypes DEF LastMoves
    <2>3. FutGrows BY <1>3 DEF FutGrows
    <2>4. ClientType' BY <1>3, ClientTypes DEF ClientType
    <2>5. \A m \in net' : m \in Datagrams /\ (m \in net \/ FromClient(m))
      BY <1>1, <1>2, <1>3, <1>4, AskSent, ClientTypes
    <2>6. gaveUp' \in BOOLEAN BY <1>1, ClientTypes
    <2>7. UNCHANGED <<scene, cache, pbx>> /\ net' \subseteq Datagrams BY <1>1, <2>5
    <2> QED BY <2>1, <2>2, <2>3, <2>4, <2>5, <2>6, <2>7 DEF ClientStep
  <1>6. ClientRest BY <1>1, <1>3 DEF ClientRest, DialogInv, FlowInv, HangupInv, ReInv, TableInv, Pending
  <1> QED BY <1>1, <1>2, <1>5, <1>6, ClientInv

\* The transaction that a response finds: the INVITE or its CANCEL, or the request itself.
LEMMA Matches ==
  ASSUME DialogInv, NEW m \in net, m.r \in GwRequests, m.what \in Response, table[Branch(m.r)] # None
  PROVE  LET t == table[Branch(m.r)] IN
         /\ t \in GwRequests /\ fut[t] \in Live /\ Branch(t) = Branch(m.r)
         /\ t.kind # "cancel" => t = m.r
         /\ m.what \in Provisional => t.kind \in {"invite", "cancel"}
  <1> DEFINE t == table[Branch(m.r)]
  <1>1. t \in GwRequests /\ fut[t] \in Live /\ Branch(t) = Branch(m.r)
    BY GwNames, ClientTypes DEF ClientType, DialogInv, TableInv
  <1>2. fut[m.r] # "none" /\ (m.what \in Provisional => m.r \in GwInvites) BY DEF DialogInv, NetInv, GwDatagram
  <1>3. ASSUME t.kind # "cancel", m.r.kind = "cancel" PROVE FALSE
    <2>1. Branch(t) = t /\ Branch(m.r) \in GwInvites /\ m.r = CancelOf(Branch(m.r)) BY <1>1, <1>3, GwNames
    <2>2. t \in GwInvites /\ table[t] = t /\ m.r = CancelOf(t) BY <1>1, <2>1
    <2> QED BY <1>2, <2>2 DEF DialogInv, TableInv
  <1>4. t.kind # "cancel" => t = m.r BY <1>1, <1>3, GwNames
  <1>5. m.what \in Provisional => t.kind \in {"invite", "cancel"} BY <1>2, <1>4, GwNames
  <1> HIDE DEF t
  <1>6. t \in GwRequests /\ fut[t] \in Live /\ Branch(t) = Branch(m.r) /\ (t.kind # "cancel" => t = m.r)
        /\ (m.what \in Provisional => t.kind \in {"invite", "cancel"})
    BY <1>1, <1>4, <1>5
  <1> QED BY <1>6 DEF t

LEMMA StrayKeeps ==
  ASSUME DialogInv, NEW m \in net, m.r \in GwRequests, StrayResponse(m), UNCHANGED <<scene, last, table, cache, pbx, gaveUp>>
  PROVE  DialogInv'
  <1>1. UNCHANGED <<fut, table, armed>> /\ gw' = gw /\ dir' = dir BY DEF StrayResponse, dir
  <1>2. net' \subseteq net \/ (gw.lastAck # None /\ net' \subseteq net \cup {Ack(gw.lastAck)})
    BY DEF StrayResponse, Answers
  <1>3. gw.lastAck # None => /\ gw.lastAck \in GwRequests /\ fut[gw.lastAck] # "none"
                             /\ pbx.resp[gw.lastAck] \in Final
    BY DEF DialogInv, TableInv, RespInv, TypeOK, SipCall
  <1>4. ClientStep
    <2>1. CallerMoves BY <1>1, ClientTypes DEF CallerMoves
    <2>2. LastMoves BY <1>1, ClientTypes DEF LastMoves
    <2>3. FutGrows BY <1>1 DEF FutGrows
    <2>4. ClientType' BY <1>1, ClientTypes DEF ClientType
    <2>5. \A d \in net' : d \in Datagrams /\ (d \in net \/ FromClient(d))
      BY <1>1, <1>2, <1>3, AckSent, ClientTypes
    <2>6. gaveUp' \in BOOLEAN BY ClientTypes
    <2>7. net' \subseteq Datagrams BY <2>5
    <2> QED BY <2>1, <2>2, <2>3, <2>4, <2>5, <2>6, <2>7 DEF ClientStep
  <1>5. ClientRest BY <1>1 DEF ClientRest, DialogInv, FlowInv, HangupInv, ReInv, TableInv, Pending
  <1> QED BY <1>4, <1>5, ClientInv

LEMMA ProvisionalKeeps ==
  ASSUME DialogInv, NEW m \in net, m.r \in GwRequests, ProvisionalResponse(m),
         UNCHANGED <<scene, last, table, cache, pbx, gaveUp>>
  PROVE  /\ DialogInv' /\ fut' = fut /\ \A q \in armed : q.kind \in {"bye", "re"} => q \in armed'
         /\ gw'.st = gw.st \/ (gw.flow = "wait" /\ gw.st # "terminated" /\ gw'.st \in {"ringing", "early"})
         /\ gw'.re = gw.re /\ gw'.rn = gw.rn /\ gw'.hold = gw.hold /\ net' = net \ {m}
  <1> DEFINE t == table[Branch(m.r)]
  <1>1. m.what \in Provisional /\ t # None /\ armed' = armed \ {t} /\ fut' = fut /\ table' = table /\ net' = net \ {m}
        /\ dir' = dir
    BY DEF ProvisionalResponse, Answers, dir
  <1>2. t \in GwRequests /\ fut[t] \in Live /\ t.kind \in {"invite", "cancel"} BY <1>1, Matches, Codes
  <1>3. \/ gw' = gw
        \/ t.kind = "invite" /\ gw.st # "terminated" /\ \E s \in {"early", "ringing"} : gw' = [gw EXCEPT !.st = s]
    BY DEF ProvisionalResponse
  <1> HIDE DEF t
  <1>4. \A q \in armed : q.kind \in {"bye", "re"} => q \in armed' BY <1>1, <1>2
  <1>5. gw' = gw \/ (/\ gw.flow = "wait" /\ gw.st \in {"calling", "ringing", "early"}
                     /\ \E s \in {"early", "ringing"} : gw' = [gw EXCEPT !.st = s])
    BY <1>2, <1>3, GwNames DEF DialogInv, FlowInv
  <1>6. /\ gw' \in SipCall /\ gw'.flow = gw.flow /\ gw'.inv = gw.inv
        /\ gw'.re = gw.re /\ gw'.rn = gw.rn /\ gw'.hold = gw.hold /\ gw'.lastAck = gw.lastAck
        /\ gw'.st = gw.st \/ (/\ gw.flow = "wait" /\ gw.st \in {"calling", "ringing", "early"}
                              /\ gw'.st \in {"early", "ringing"})
    <2>1. gw \in SipCall BY ClientTypes
    <2> QED BY <1>5, <2>1 DEF SipCall, CallState
  <1>7. gw.flow = "wait" => dir = "out" BY DEF DialogInv, FlowInv
  <1>8. last.timer => gw.st = "connected" BY DEF DialogInv, LastInv
  <1>9. ClientStep
    <2>1. CallerMoves BY <1>6, <1>7 DEF CallerMoves
    <2>2. LastMoves BY <1>6, <1>8, ClientTypes DEF LastMoves
    <2>3. FutGrows BY <1>1 DEF FutGrows
    <2>4. ClientType' BY <1>1, ClientTypes DEF ClientType
    <2>5. gaveUp' \in BOOLEAN BY ClientTypes
    <2>6. net' \subseteq Datagrams /\ \A d \in net' : d \in net BY <1>1, ClientTypes
    <2> QED BY <2>1, <2>2, <2>3, <2>4, <2>5, <2>6 DEF ClientStep
  <1>10. FlowInv' BY <1>1, <1>6 DEF DialogInv, FlowInv
  <1>11. HangupInv' BY <1>1, <1>4, <1>6, GwNames DEF DialogInv, HangupInv
  <1>12. ReInv' BY <1>1, <1>4, <1>6 DEF DialogInv, ReInv, Pending
  <1>13. TableInv' BY <1>1, <1>6 DEF DialogInv, TableInv
  <1> QED BY <1>1, <1>4, <1>6, <1>9, <1>10, <1>11, <1>12, <1>13, ClientInv DEF ClientRest

LEMMA FinalKeeps ==
  ASSUME DialogInv, NEW m \in net, m.r \in GwRequests, FinalResponse(m),
         UNCHANGED <<scene, last, table, cache, pbx, gaveUp>>
  PROVE  /\ DialogInv' /\ gw' = gw /\ armed' = armed
         /\ \A q \in GwRequests : fut'[q] = fut[q] \/ (fut[q] = "open" /\ fut'[q] \in Final)
         /\ \A d \in net' : d \in net \/ \E q \in GwRequests : d = Ack(q) /\ pbx.resp[q] \in Failure
  <1> DEFINE t == table[Branch(m.r)]
  <1>1. /\ m.what \in Final /\ m.what \in Response /\ t # None /\ gw' = gw /\ armed' = armed /\ table' = table
        /\ fut' = [fut EXCEPT ![t] = IF fut[t] = "open" THEN m.what ELSE fut[t]] /\ dir' = dir
        /\ \A d \in net' : d \in net \/ (d = Ack(t) /\ IsInvite(t) /\ m.what \in Failure)
    BY Codes DEF FinalResponse, Answers, dir
  <1>2. t \in GwRequests /\ fut[t] \in Live /\ (t.kind # "cancel" => t = m.r) BY <1>1, Matches
  <1>3. pbx.resp[m.r] = m.what BY <1>1 DEF DialogInv, NetInv, GwDatagram
  <1> HIDE DEF t
  <1>4. /\ fut'[t] = (IF fut[t] = "open" THEN m.what ELSE fut[t])
        /\ \A q \in GwRequests \ {t} : fut'[q] = fut[q]
        /\ fut' \in [GwRequests -> {"none", "open", "over"} \cup Final]
    <2>1. fut \in [GwRequests -> {"none", "open", "over"} \cup Final] BY ClientTypes DEF ClientType
    <2>2. (IF fut[t] = "open" THEN m.what ELSE fut[t]) \in {"none", "open", "over"} \cup Final BY <1>1, <1>2, <2>1
    <2> QED BY <1>1, <1>2, <2>1, <2>2
  <1>5. fut'[t] \in Live /\ (fut'[t] = "open" => fut[t] = "open") /\ fut'[t] # "none"
    BY <1>1, <1>2, <1>4, Codes
  <1>6. \A q \in GwRequests : /\ fut'[q] \in Live <=> fut[q] \in Live
                              /\ fut'[q] # "none" <=> fut[q] # "none"
                              /\ fut'[q] = "open" => fut[q] = "open"
                              /\ fut'[q] = "over" <=> fut[q] = "over"
    BY <1>2, <1>4, <1>5, Codes
  <1>7. \A d \in net' : d \in net \/ \E q \in GwRequests : d = Ack(q) /\ pbx.resp[q] \in Failure
    BY <1>1, <1>2, <1>3 DEF IsInvite
  <1>8. \A q \in GwRequests : fut'[q] = fut[q] \/ (fut[q] = "open" /\ fut'[q] \in Final) BY <1>1, <1>4
  <1>9. ClientStep
    <2>1. CallerMoves BY <1>1, ClientTypes DEF CallerMoves
    <2>2. LastMoves BY <1>1, ClientTypes DEF LastMoves
    <2>3. FutGrows BY <1>1, <1>2, <1>3, <1>4, <1>6, GwNames DEF FutGrows
    <2>4. ClientType' BY <1>1, <1>4, ClientTypes DEF ClientType
    <2>5. \A d \in net' : d \in Datagrams /\ (d \in net \/ FromClient(d))
      <3>1. ASSUME NEW q \in GwRequests, pbx.resp[q] \in Failure PROVE Ack(q) \in Datagrams /\ FromClient(Ack(q))
        <4>1. fut'[q] # "none" BY <1>6, <3>1, Codes DEF DialogInv, RespInv
        <4> QED BY <3>1, <4>1, AckSent, Codes
      <3> QED BY <1>7, <3>1, ClientTypes
    <2>6. gaveUp' \in BOOLEAN /\ net' \subseteq Datagrams BY <2>5, ClientTypes
    <2> QED BY <2>1, <2>2, <2>3, <2>4, <2>5, <2>6 DEF ClientStep
  <1>10. FlowInv' BY <1>1, <1>6, GwNames DEF DialogInv, FlowInv
  <1>11. HangupInv' BY <1>1, <1>6, GwNames DEF DialogInv, HangupInv
  <1>12. ReInv' BY <1>1, <1>6 DEF DialogInv, ReInv, Pending
  <1>13. TableInv'
    <2>1. \A b \in GwRequests : table[b] # None => table[b] \in GwRequests BY ClientTypes DEF ClientType
    <2>2. gw.lastAck # None => gw.lastAck \in GwRequests BY ClientTypes DEF SipCall
    <2> QED BY <1>1, <1>6, <2>1, <2>2, GwNames DEF DialogInv, TableInv
  <1> QED BY <1>1, <1>7, <1>8, <1>9, <1>10, <1>11, <1>12, <1>13, ClientInv DEF ClientRest

LEMMA HandleResponseKeeps ==
  ASSUME DialogInv, NEW m \in net, HandleResponse(m)
  PROVE  DialogInv' /\ m.r \in GwRequests
  <1>1. m.r \in GwRequests BY NetNames, ClientTypes DEF HandleResponse
  <1>2. UNCHANGED <<scene, last, table, cache, pbx, gaveUp>> /\ (StrayResponse(m) \/ ProvisionalResponse(m) \/ FinalResponse(m))
    BY DEF HandleResponse
  <1> QED BY <1>1, <1>2, StrayKeeps, ProvisionalKeeps, FinalKeeps

-----------------------------------------------------------------------------
(* The PBX and the network *)

\* A call of the PBX does not come back from its end.
Forward(st) ==
    /\ pbx.st # "idle" => st # "idle"
    /\ pbx.st \in {"ending", "down"} => st \in {"ending", "down"}
    /\ pbx.st = "up" => st \in {"up", "ending", "down"}

FromPbx(m) ==
    \/ /\ m.r \in GwRequests /\ m.what \in Response /\ fut[m.r] # "none"
       /\ m.what \in Final => pbx'.resp[m.r] = m.what
       /\ m.what \in Provisional => pbx'.resp[m.r] # "none" /\ m.r \in GwInvites
    \/ /\ m.r \in PbxRequests
       /\ m.what = "request" \/ (m.what = "ack" /\ cache[m.r] \in Final)

\* What a step of the PBX may do: it answers a request once, and a final answer stays.
PbxStep ==
    /\ UNCHANGED mine
    /\ pbx' \in Pbx /\ Forward(pbx'.st) /\ pbx.rn <= pbx'.rn
    /\ \A r \in GwRequests : pbx'.resp[r] # pbx.resp[r] =>
        /\ pbx.resp[r] \notin Final /\ pbx'.resp[r] # "none" /\ fut[r] # "none"
        /\ pbx'.resp[r] \in Provisional => r \in GwInvites
    /\ \A r \in GwRequests : r \in pbx'.unacked => r \in pbx.unacked \/ (pbx'.resp[r] \in Final /\ IsInvite(r))
    /\ pbx'.resp[Bye] # "none" => pbx.resp[Bye] # "none" \/ pbx'.st \in {"ending", "down"}
    /\ net' \subseteq Datagrams
    /\ \A m \in net' : m \in net \/ FromPbx(m)
    /\ \A r \in PbxRequests : Asked(r)' => Asked(r) \/ MayAsk(r)'

LEMMA PbxTypes ==
  ASSUME DialogInv
  PROVE  /\ pbx \in Pbx /\ net \subseteq Datagrams /\ pbx.rn \in Nat /\ pbx.st \in PbxState
         /\ pbx.resp \in [GwRequests -> Response \cup {"none"}] /\ pbx.unacked \subseteq GwRequests
         /\ cache \in [PbxRequests -> Response \cup {"none"}] /\ fut \in [GwRequests -> {"none", "open", "over"} \cup Final]
  <1>1. pbx \in Pbx BY DEF DialogInv, TypeOK
  <1>2. pbx.rn \in Nat /\ pbx.st \in PbxState /\ pbx.resp \in [GwRequests -> Response \cup {"none"}]
        /\ pbx.unacked \subseteq GwRequests
    BY <1>1 DEF Pbx
  <1> QED BY <1>1, <1>2 DEF DialogInv, TypeOK

LEMMA PbxInv ==
  ASSUME DialogInv, PbxStep, CalledInv', AnswerInv'
  PROVE  DialogInv'
  <1>1. /\ scene' = scene /\ dir' = dir /\ gw' = gw /\ last' = last /\ fut' = fut /\ table' = table /\ armed' = armed
        /\ cache' = cache /\ (gaveUp' <=> gaveUp)
    BY DEF PbxStep, mine, clients, dir
  <1>2. TypeOK' BY <1>1 DEF PbxStep, DialogInv, TypeOK
  <1>3. FlowInv' /\ HangupInv' /\ ReInv' /\ TableInv' /\ LastInv'
    BY <1>1 DEF DialogInv, FlowInv, HangupInv, ReInv, TableInv, LastInv, Pending
  <1>4. ASSUME NEW r \in GwRequests
        PROVE  /\ pbx.resp[r] \in Final => pbx'.resp[r] = pbx.resp[r]
               /\ pbx.resp[r] # "none" => pbx'.resp[r] # "none"
    BY DEF PbxStep
  <1>5. NetInv'
    <2>1. ASSUME NEW m \in net', m.r \in GwRequests PROVE GwDatagram(m)'
      <3>1. CASE m \in net BY <1>1, <1>4, <2>1, <3>1, Codes DEF DialogInv, NetInv, GwDatagram
      <3>2. CASE m \notin net
        <4>1. FromPbx(m) /\ m.r \notin PbxRequests BY <2>1, <3>2, Apart DEF PbxStep
        <4> QED BY <1>1, <4>1, Codes DEF FromPbx, GwDatagram
      <3> QED BY <3>1, <3>2
    <2>2. ASSUME NEW m \in net', m.r \in PbxRequests PROVE PbxDatagram(m)'
      <3>1. CASE m \in net BY <1>1, <2>2, <3>1 DEF DialogInv, NetInv, PbxDatagram
      <3>2. CASE m \notin net
        <4>1. FromPbx(m) /\ m.r \notin GwRequests BY <2>2, <3>2, Apart DEF PbxStep
        <4> QED BY <1>1, <4>1, Codes DEF FromPbx, PbxDatagram
      <3> QED BY <3>1, <3>2
    <2> QED BY <2>1, <2>2 DEF NetInv
  <1>6. RespInv'
    <2>1. ASSUME NEW r \in GwRequests
          PROVE  /\ pbx'.resp[r] # "none" => fut'[r] # "none"
                 /\ fut'[r] \in Final /\ r.kind # "cancel" => pbx'.resp[r] = fut'[r]
                 /\ pbx'.resp[r] \in Provisional => r \in GwInvites
                 /\ r \in pbx'.unacked => pbx'.resp[r] \in Final /\ IsInvite(r)
      BY <1>1, <1>4 DEF PbxStep, DialogInv, RespInv
    <2>2. fut'[Invite(2)] # "none" => pbx'.resp[Invite(1)] = "challenge"
      BY <1>1, <1>4, GwNames, Codes DEF DialogInv, RespInv
    <2>3. pbx'.resp[Bye] # "none" => pbx'.st \in {"ending", "down"}
      BY DEF PbxStep, Forward, DialogInv, RespInv
    <2>4. gw'.lastAck # None => pbx'.resp[gw'.lastAck] \in Final
      <3>1. gw.lastAck # None => gw.lastAck \in GwRequests BY ClientTypes DEF SipCall
      <3> QED BY <1>1, <1>4, <3>1 DEF DialogInv, RespInv
    <2> QED BY <2>1, <2>2, <2>3, <2>4 DEF RespInv
  <1>7. AskInv'
    <2>1. ASSUME NEW r \in PbxRequests, MayAsk(r) PROVE MayAsk(r)'
      <3>1. r.n \in Nat /\ pbx.rn \in Nat /\ pbx'.rn \in Nat BY PbxNames, PbxTypes DEF PbxStep, Pbx
      <3>2. r.n <= pbx.rn => r.n <= pbx'.rn BY <3>1 DEF PbxStep
      <3> QED BY <1>1, <2>1, <3>2 DEF PbxStep, Forward, MayAsk
    <2> QED BY <1>1, <2>1 DEF PbxStep, DialogInv, AskInv
  <1> QED BY <1>2, <1>3, <1>5, <1>6, <1>7 DEF DialogInv

\* At most one INVITE of the gateway is served.
LEMMA OneServed ==
  ASSUME DialogInv, NEW r \in GwInvites, pbx.resp[r] \notin {"none", "challenge"}, NEW q \in GwInvites \ {r}
  PROVE  pbx.resp[q] \in {"none", "challenge"}
  <1>1. r \in {Invite(1), Invite(2)} /\ q \in {Invite(1), Invite(2)} /\ r # q BY DEF GwInvites
  <1>2. \A n \in {1, 2} : Invite(n) \in GwRequests BY GwNames
  <1>3. pbx.resp[Invite(2)] # "none" => pbx.resp[Invite(1)] = "challenge" BY <1>2 DEF DialogInv, RespInv
  <1> HIDE DEF Invite, GwInvites
  <1> QED BY <1>1, <1>3

LEMMA PbxStates ==
  ASSUME DialogInv
  PROVE  /\ dir \in {"out", "in"}
         /\ fut[Bye] # "none" => pbx.st \in {"up", "ending", "down"} \/ (dir = "in" /\ pbx.st \in {"calling", "proceeding", "cancelling"})
         /\ \A r \in GwInvites : fut[r] # "none" => dir = "out"
         /\ \A r \in GwRequests : r.kind = "cancel" /\ fut[r] # "none" => dir = "out"
  <1>1. dir \in {"out", "in"} BY Callee
  <1>2. ASSUME fut[Bye] # "none", dir = "out" PROVE pbx.st \in {"up", "ending", "down"}
    <2>1. PICK r \in GwInvites : pbx.resp[r] = "ok" BY <1>2 DEF DialogInv, CalledInv
    <2>2. \A q \in GwInvites \ {r} : pbx.resp[q] \in {"none", "challenge"} BY <2>1, OneServed
    <2>3. pbx.st \notin {"idle", "trying", "ringing", "calling", "proceeding", "cancelling"}
      BY <1>2, <2>1, <2>2, Codes DEF DialogInv, CalledInv, Provisional
    <2> QED BY <2>3, PbxTypes DEF PbxState
  <1>3. ASSUME fut[Bye] # "none", dir = "in"
        PROVE  pbx.st \in {"up", "ending", "down", "calling", "proceeding", "cancelling"}
    <2>1. cache[PInvite] = "ok" /\ pbx.st \notin {"trying", "ringing"} BY <1>3 DEF DialogInv, AnswerInv
    <2>2. pbx.st # "idle" BY <2>1, PbxNames DEF DialogInv, AskInv, Asked, MayAsk
    <2> QED BY <2>1, <2>2, PbxTypes DEF PbxState
  <1>4. ASSUME NEW r \in GwInvites, fut[r] # "none" PROVE dir = "out"
    <2>1. r.n \in {1, 2} /\ r.n <= gw.inv BY <1>4, GwNames DEF DialogInv, FlowInv
    <2> QED BY <1>1, <2>1 DEF DialogInv, FlowInv
  <1> QED BY <1>1, <1>2, <1>3, <1>4 DEF DialogInv, HangupInv

\* The answers to INVITEs stay, and the PBX goes on with its own call or leaves one it took.
LEMMA PbxMoves ==
  ASSUME DialogInv, PbxStep, \A r \in GwInvites : pbx'.resp[r] = pbx.resp[r],
         \/ pbx'.st = pbx.st
         \/ pbx.st \in {"up", "ending"} /\ pbx'.st \in {"ending", "down"}
         \/ dir = "in" /\ pbx'.st \notin {"trying", "ringing"} /\ (pbx'.st \in {"up", "ending"} => cache[PInvite] = "ok")
  PROVE  DialogInv'
  <1>1. dir' = dir /\ gw' = gw /\ fut' = fut /\ cache' = cache BY DEF PbxStep, mine, clients, dir
  <1>2. CalledInv' BY <1>1 DEF DialogInv, CalledInv
  <1>3. AnswerInv' BY <1>1 DEF DialogInv, AnswerInv
  <1> QED BY <1>2, <1>3, PbxInv

\* The PBX answers the INVITE it works on.
LEMMA PbxServes ==
  ASSUME DialogInv, PbxStep, dir = "out", NEW s \in GwInvites, pbx.resp[s] \notin Final,
         \A q \in GwInvites \ {s} : pbx'.resp[q] = pbx.resp[q] /\ pbx.resp[q] \in {"none", "challenge"},
         \/ pbx'.resp[s] \in Provisional /\ pbx'.st \in {"trying", "ringing"}
         \/ pbx'.resp[s] = "ok" /\ pbx'.st = "up"
         \/ pbx'.resp[s] \in {"refused", "cancelled"} /\ pbx'.st = "down"
  PROVE  DialogInv'
  <1>1. dir' = dir /\ gw' = gw /\ fut' = fut /\ cache' = cache BY DEF PbxStep, mine, clients, dir
  <1>2. \A r \in GwInvites : pbx.resp[r] # "ok" BY Codes
  <1>3. CalledInv'
    <2>1. ~(gw.st = "connected" \/ fut[Bye] # "none" \/ gw.rn > 0) BY <1>2 DEF DialogInv, CalledInv
    <2>2. CASE pbx'.resp[s] \in Provisional /\ pbx'.st \in {"trying", "ringing"}
      <3>1. pbx'.resp[s] \notin {"none", "challenge"} BY <2>2 DEF Provisional
      <3>2. \E r \in GwInvites : pbx'.resp[r] \in Provisional BY <2>2
      <3>3. ~\A r \in GwInvites : pbx'.resp[r] \in {"none", "challenge"} BY <3>1
      <3> QED BY <1>1, <2>1, <2>2, <3>2, <3>3 DEF CalledInv
    <2>3. CASE pbx'.resp[s] \in {"ok", "refused", "cancelled"} /\ pbx'.st \in {"up", "down"} /\ (pbx'.st = "up" => pbx'.resp[s] = "ok")
      <3>1. \A r \in GwInvites : pbx'.resp[r] \notin Provisional BY <2>3 DEF Provisional
      <3>2. pbx'.resp[s] \notin {"none", "challenge"} BY <2>3
      <3>3. ~\A r \in GwInvites : pbx'.resp[r] \in {"none", "challenge"} BY <3>2
      <3>4. ~\E r \in GwInvites : pbx'.resp[r] \in Provisional BY <3>1
      <3> QED BY <1>1, <2>1, <2>3, <3>3, <3>4 DEF CalledInv
    <2> QED BY <2>2, <2>3
  <1>4. AnswerInv' BY <1>1 DEF AnswerInv
  <1> QED BY <1>3, <1>4, PbxInv

\* It gives the answer c to a request r that has none, and goes to g.
Answering(r, c, g) ==
    /\ \E ms : PAnswers(ms, r, c, g)
    /\ g \in Pbx /\ g.resp = pbx.resp /\ g.unacked \subseteq pbx.unacked /\ g.open \subseteq pbx.open /\ g.rn = pbx.rn
    /\ Forward(g.st)
    /\ fut[r] # "none" /\ pbx.resp[r] \notin Final
    /\ c \in Provisional => r \in GwInvites
    /\ r = Bye => g.st \in {"ending", "down"}
Answered(r, c, g) ==
    /\ PbxStep /\ pbx'.resp[r] = c
    /\ \A q \in GwRequests \ {r} : pbx'.resp[q] = pbx.resp[q]
    /\ pbx'.st = g.st /\ pbx'.open = g.open /\ pbx'.held = g.held
    /\ pbx'.unacked = IF IsInvite(r) /\ c \in Final THEN g.unacked \cup {r} ELSE g.unacked

LEMMA PbxAnswersFrame ==
  ASSUME DialogInv, NEW r \in GwRequests, NEW c \in Response, NEW g, Answering(r, c, g)
  PROVE  Answered(r, c, g)
  <1>0. /\ g \in Pbx /\ g.resp = pbx.resp /\ g.unacked \subseteq pbx.unacked /\ g.open \subseteq pbx.open /\ g.rn = pbx.rn
        /\ Forward(g.st) /\ fut[r] # "none" /\ pbx.resp[r] \notin Final
        /\ c \in Provisional => r \in GwInvites
        /\ r = Bye => g.st \in {"ending", "down"}
    BY DEF Answering
  <1> DEFINE u == IF IsInvite(r) /\ c \in Final THEN g.unacked \cup {r} ELSE g.unacked
  <1>a. PICK ms : PAnswers(ms, r, c, g) BY DEF Answering
  <1>1. /\ UNCHANGED mine /\ net' = (net \ ms) \cup {Reply(r, c)}
        /\ pbx' = [g EXCEPT !.resp[r] = c, !.unacked = u]
    BY <1>a DEF PAnswers
  <1>2. u \subseteq GwRequests /\ \A q \in u : q \in pbx.unacked \/ (q = r /\ IsInvite(r) /\ c \in Final)
    BY <1>0, PbxTypes
  <1> HIDE DEF u
  <1>3. /\ pbx' = [st |-> g.st, resp |-> [pbx.resp EXCEPT ![r] = c], unacked |-> u, open |-> g.open, held |-> g.held, rn |-> g.rn]
        /\ g.st \in PbxState /\ g.open \in SUBSET PbxRequests /\ g.held \in BOOLEAN /\ g.rn \in 0..MaxRefresh
    BY <1>0, <1>1 DEF Pbx
  <1>4. [pbx.resp EXCEPT ![r] = c] \in [GwRequests -> Response \cup {"none"}] BY PbxTypes
  <1>5. pbx' \in Pbx BY <1>2, <1>3, <1>4 DEF Pbx
  <1>6. pbx'.resp[r] = c /\ \A q \in GwRequests \ {r} : pbx'.resp[q] = pbx.resp[q] BY <1>3, PbxTypes
  <1>7. pbx'.st = g.st /\ pbx'.rn = pbx.rn /\ pbx'.open = g.open /\ pbx'.unacked = u /\ pbx'.held = g.held BY <1>0, <1>3
  <1>8. Reply(r, c) \in Datagrams /\ Reply(r, c).r = r /\ Reply(r, c).what = c BY NewReply
  <1>9. c # "none" BY Codes
  <1>10. /\ \A m \in net' : m \in Datagrams /\ (m \in net \/ FromPbx(m))
    BY <1>0, <1>1, <1>6, <1>8, <1>9, PbxTypes DEF FromPbx
  <1>11. \A q \in PbxRequests : Asked(q)' => Asked(q)
    <2>1. cache' = cache BY <1>1 DEF mine
    <2>2. \A m \in net' : m.r \in PbxRequests => m \in net BY <1>1, <1>8, Apart
    <2> QED BY <1>0, <1>7, <2>1, <2>2 DEF Asked
  <1>12. \A q \in GwRequests : q \in pbx'.unacked => q \in pbx.unacked \/ (pbx'.resp[q] \in Final /\ IsInvite(q))
    BY <1>0, <1>2, <1>6, <1>7
  <1>13. pbx'.resp[Bye] # "none" => pbx.resp[Bye] # "none" \/ pbx'.st \in {"ending", "down"}
    BY <1>0, <1>6, <1>7, GwNames
  <1>14. PbxStep BY <1>0, <1>1, <1>5, <1>6, <1>7, <1>9, <1>10, <1>11, <1>12, <1>13, PbxTypes DEF PbxStep
  <1> QED BY <1>6, <1>7, <1>14 DEF u, Answered

\* The PBX sends more or forgets, and what it has answered stays.
LEMMA PbxSteady ==
  ASSUME DialogInv, UNCHANGED mine, pbx' \in Pbx, pbx'.resp = pbx.resp, pbx'.unacked \subseteq pbx.unacked, Forward(pbx'.st),
         pbx.rn <= pbx'.rn, net' \subseteq Datagrams, \A m \in net' : m \in net \/ FromPbx(m),
         \A r \in PbxRequests : Asked(r)' => Asked(r) \/ MayAsk(r)'
  PROVE  PbxStep /\ \A r \in GwInvites : pbx'.resp[r] = pbx.resp[r]
  BY DEF PbxStep

LEMMA PbxAsks ==
  ASSUME DialogInv, NEW r \in PbxRequests, NEW g \in Pbx, PAsk(r, g),
         g.resp = pbx.resp, g.unacked \subseteq pbx.unacked, g.open = pbx.open, Forward(g.st), pbx.rn <= g.rn,
         g.st # "idle", r.kind \in {"invite", "cancel"} => dir = "in", r.kind = "bye" => g.st \in {"ending", "down"},
         r.kind = "re" => g.st \in {"up", "ending", "down"} /\ r.n <= g.rn,
         r.kind \in {"bye", "re"} /\ dir = "in" => cache[PInvite] = "ok"
  PROVE  /\ PbxStep /\ \A q \in GwInvites : pbx'.resp[q] = pbx.resp[q]
         /\ pbx'.st = g.st /\ pbx'.resp = pbx.resp
         /\ pbx'.unacked = g.unacked /\ pbx'.open = pbx.open \cup {r} /\ pbx'.held = g.held
  <1>1. /\ UNCHANGED mine /\ net' = net \cup {Ask(r)}
        /\ pbx' = [g EXCEPT !.open = @ \cup {r}]
    BY DEF PAsk, Send
  <1>2. pbx' = [st |-> g.st, resp |-> g.resp, unacked |-> g.unacked, open |-> g.open \cup {r}, held |-> g.held, rn |-> g.rn]
    BY <1>1 DEF Pbx
  <1>3. pbx' \in Pbx BY <1>2 DEF Pbx
  <1>4. pbx'.st = g.st /\ pbx'.resp = pbx.resp /\ pbx'.unacked = g.unacked /\ pbx'.open = pbx.open \cup {r} /\ pbx'.rn = g.rn
        /\ pbx'.held = g.held
    BY <1>2
  <1>5. Ask(r) \in Datagrams /\ Ask(r).r = r /\ Ask(r).what = "request" BY DEF Ask, Datagram, Datagrams
  <1>6. \A m \in net' : m \in Datagrams /\ (m \in net \/ FromPbx(m)) BY <1>1, <1>5, PbxTypes DEF FromPbx
  <1>7. dir' = dir /\ cache' = cache BY <1>1 DEF mine, dir
  <1>8. MayAsk(r)' BY <1>4, <1>7 DEF MayAsk
  <1>9. \A q \in PbxRequests : Asked(q)' => Asked(q) \/ q = r BY <1>1, <1>4, <1>5, <1>7 DEF Asked
  <1>10. pbx.rn <= pbx'.rn /\ Forward(pbx'.st) BY <1>4
  <1>11. PbxStep BY <1>1, <1>3, <1>4, <1>6, <1>8, <1>9, <1>10, PbxSteady
  <1> QED BY <1>4, <1>11

LEMMA PbxCallsKeeps ==
  ASSUME DialogInv, PbxCalls \/ PbxCancels \/ PbxHangsUp \/ PbxReinvites
  PROVE  DialogInv'
  <1>1. pbx \in Pbx BY PbxTypes
  <1>2. pbx.rn <= pbx.rn /\ pbx.rn + 1 \in Nat /\ pbx.rn <= pbx.rn + 1 BY PbxTypes
  <1>3. dir \in {"out", "in"} BY Callee
  <1>4. CASE PbxCalls
    <2> DEFINE g == [pbx EXCEPT !.st = "calling"]
    <2>1. g \in Pbx /\ g.resp = pbx.resp /\ g.unacked = pbx.unacked /\ g.open = pbx.open /\ g.rn = pbx.rn /\ g.st = "calling"
      BY <1>1 DEF Pbx, PbxState
    <2>2. dir = "in" /\ pbx.st = "idle" /\ PAsk(PInvite, g) BY <1>4 DEF PbxCalls
    <2> HIDE DEF g
    <2>3. PbxStep /\ pbx'.st = "calling" /\ \A q \in GwInvites : pbx'.resp[q] = pbx.resp[q]
      BY <1>2, <2>1, <2>2, PbxNames, PbxAsks DEF Forward
    <2> QED BY <2>2, <2>3, PbxMoves
  <1>5. CASE PbxCancels
    <2> DEFINE g == [pbx EXCEPT !.st = "cancelling"]
    <2>1. g \in Pbx /\ g.resp = pbx.resp /\ g.unacked = pbx.unacked /\ g.open = pbx.open /\ g.rn = pbx.rn /\ g.st = "cancelling"
      BY <1>1 DEF Pbx, PbxState
    <2>2. pbx.st = "proceeding" /\ PAsk(PCancel, g) BY <1>5 DEF PbxCancels
    <2>3. dir = "in" BY <1>3, <2>2 DEF DialogInv, CalledInv
    <2> HIDE DEF g
    <2>4. PbxStep /\ pbx'.st = "cancelling" /\ \A q \in GwInvites : pbx'.resp[q] = pbx.resp[q]
      BY <1>2, <2>1, <2>2, <2>3, PbxNames, PbxAsks DEF Forward
    <2> QED BY <2>3, <2>4, PbxMoves
  <1>6. CASE PbxHangsUp
    <2> DEFINE g == [pbx EXCEPT !.st = "ending"]
    <2>1. g \in Pbx /\ g.resp = pbx.resp /\ g.unacked = pbx.unacked /\ g.open = pbx.open /\ g.rn = pbx.rn /\ g.st = "ending"
      BY <1>1 DEF Pbx, PbxState
    <2>2. pbx.st = "up" /\ PAsk(PBye, g) BY <1>6 DEF PbxHangsUp
    <2>3. dir = "in" => cache[PInvite] = "ok" BY <2>2 DEF DialogInv, AnswerInv
    <2> HIDE DEF g
    <2>4. PbxStep /\ pbx'.st = "ending" /\ \A q \in GwInvites : pbx'.resp[q] = pbx.resp[q]
      BY <1>2, <2>1, <2>2, <2>3, PbxNames, PbxAsks DEF Forward
    <2> QED BY <2>2, <2>4, PbxMoves
  <1>7. CASE PbxReinvites
    <2> DEFINE g == [pbx EXCEPT !.rn = @ + 1]
                 r == PRe(pbx.rn + 1)
    <2>1. pbx.st = "up" /\ pbx.rn < MaxRefresh /\ PAsk(r, g) BY <1>7 DEF PbxReinvites
    <2>2. pbx.rn + 1 \in 0..MaxRefresh /\ pbx.rn + 1 \in 1..MaxRefresh BY <2>1, PbxTypes, BoundsAssumption
    <2>3. g \in Pbx /\ g.resp = pbx.resp /\ g.unacked = pbx.unacked /\ g.open = pbx.open /\ g.rn = pbx.rn + 1 /\ g.st = pbx.st
      BY <1>1, <2>2 DEF Pbx
    <2>4. r \in PbxRequests /\ r.kind = "re" /\ r.n = pbx.rn + 1 BY <2>2, PbxNames
    <2>5. dir = "in" => cache[PInvite] = "ok" BY <2>1 DEF DialogInv, AnswerInv
    <2>6. Forward("up") /\ r.n <= g.rn BY <1>2, <2>1, <2>3, <2>4 DEF Forward
    <2> HIDE DEF g, r
    <2>7. PbxStep /\ pbx'.st = pbx.st /\ \A q \in GwInvites : pbx'.resp[q] = pbx.resp[q]
      BY <1>2, <2>1, <2>3, <2>4, <2>5, <2>6, PbxAsks
    <2> QED BY <2>7, PbxMoves
  <1> QED BY <1>4, <1>5, <1>6, <1>7

\* Datagrams are repeated, lost or taken, and the PBX stays as it is.
LEMMA PbxStays ==
  ASSUME DialogInv, UNCHANGED <<mine, pbx>>, net' \subseteq Datagrams,
         \A m \in net' : m \in net \/ (FromPbx(m) /\ (m.r \in PbxRequests => Asked(m.r)))
  PROVE  DialogInv'
  <1>1. UNCHANGED mine /\ pbx' = pbx /\ fut' = fut /\ cache' = cache BY DEF mine, clients
  <1>3. \A r \in PbxRequests : Asked(r)' => Asked(r) BY <1>1 DEF Asked
  <1>4. pbx' \in Pbx /\ pbx.rn <= pbx'.rn /\ Forward(pbx'.st) BY <1>1, PbxTypes DEF Forward
  <1>5. PbxStep BY <1>1, <1>3, <1>4, PbxSteady
  <1> QED BY <1>1, <1>5, PbxMoves

LEMMA PbxStaysKeeps ==
  ASSUME DialogInv, PbxRepeats \/ PbxRepeatsFinal \/ Lose
  PROVE  DialogInv' /\ UNCHANGED <<mine, pbx>>
  <1>1. UNCHANGED <<mine, pbx>> BY DEF PbxRepeats, PbxRepeatsFinal, Lose
  <1>2. pbx' = pbx /\ net \subseteq Datagrams BY <1>1, PbxTypes
  <1>3. CASE PbxRepeats
    <2>1. PICK r \in pbx.open : net' = net \cup {Ask(r)} BY <1>3 DEF PbxRepeats, Repeat, Send
    <2>2. r \in PbxRequests /\ Asked(r) BY PbxTypes DEF Pbx, Asked
    <2>3. Ask(r) \in Datagrams /\ Ask(r).r = r /\ Ask(r).what = "request" BY <2>2 DEF Ask, Datagram, Datagrams
    <2>4. FromPbx(Ask(r)) BY <2>2, <2>3 DEF FromPbx
    <2> QED BY <1>1, <1>2, <2>1, <2>2, <2>3, <2>4, PbxStays
  <1>4. CASE PbxRepeatsFinal
    <2>1. PICK r \in pbx.unacked : net' = net \cup {Reply(r, pbx.resp[r])} BY <1>4 DEF PbxRepeatsFinal, Repeat, Send
    <2> DEFINE c == pbx.resp[r]
    <2>2. r \in GwRequests BY PbxTypes
    <2>3. c \in Final /\ fut[r] # "none" BY <2>2, Codes DEF DialogInv, RespInv
    <2>4. c \in Response /\ c \notin Provisional BY <2>3, Codes
    <2>5. pbx'.resp[r] = c BY <1>2
    <2> HIDE DEF c
    <2>6. Reply(r, c) \in Datagrams /\ Reply(r, c).r = r /\ Reply(r, c).what = c BY <2>2, <2>4, NewReply
    <2>7. FromPbx(Reply(r, c)) BY <2>2, <2>3, <2>4, <2>5, <2>6 DEF FromPbx
    <2>8. r \notin PbxRequests BY <2>2, Apart
    <2>9. net' = net \cup {Reply(r, c)} BY <2>1 DEF c
    <2> QED BY <1>1, <1>2, <2>6, <2>7, <2>8, <2>9, PbxStays
  <1>5. CASE Lose
    <2>1. net' \subseteq net BY <1>5 DEF Lose, Answers
    <2> QED BY <1>1, <1>2, <2>1, PbxStays
  <1> QED BY <1>1, <1>3, <1>4, <1>5

LEMMA PbxAckedKeeps ==
  ASSUME DialogInv, NEW m \in net, PbxAcked(m)
  PROVE  DialogInv'
  <1>1. UNCHANGED mine /\ pbx' = [pbx EXCEPT !.unacked = @ \ {m.r}] /\ net' = net \ {m} BY DEF PbxAcked, Answers
  <1>2. /\ pbx' \in Pbx /\ pbx'.resp = pbx.resp /\ pbx'.st = pbx.st /\ pbx'.rn = pbx.rn /\ pbx'.open = pbx.open
        /\ pbx'.unacked \subseteq pbx.unacked
    BY <1>1, PbxTypes DEF Pbx
  <1>3. pbx.rn <= pbx.rn /\ Forward(pbx.st) BY PbxTypes DEF Forward
  <1>4. \A r \in PbxRequests : Asked(r)' => Asked(r) BY <1>1, <1>2 DEF Asked, mine
  <1>5. net' \subseteq Datagrams /\ \A d \in net' : d \in net BY <1>1, PbxTypes
  <1>6. PbxStep BY <1>1, <1>2, <1>3, <1>4, <1>5, PbxSteady
  <1> QED BY <1>2, <1>6, PbxMoves

LEMMA PbxGivesUpCallKeeps ==
  ASSUME DialogInv, PbxGivesUpCall
  PROVE  DialogInv'
  <1>1. UNCHANGED mine /\ pbx' = [pbx EXCEPT !.st = "down"] /\ net' = net /\ pbx.st = "cancelling" BY DEF PbxGivesUpCall
  <1>2. /\ pbx' \in Pbx /\ pbx'.resp = pbx.resp /\ pbx'.st = "down" /\ pbx'.rn = pbx.rn /\ pbx'.open = pbx.open
        /\ pbx'.unacked = pbx.unacked
    BY <1>1, PbxTypes DEF Pbx, PbxState
  <1>3. pbx.rn <= pbx.rn /\ Forward("down") BY PbxTypes DEF Forward
  <1>4. \A r \in PbxRequests : Asked(r)' => Asked(r) BY <1>1, <1>2 DEF Asked, mine
  <1>5. net' \subseteq Datagrams /\ \A d \in net' : d \in net BY <1>1, PbxTypes
  <1>6. PbxStep BY <1>1, <1>2, <1>3, <1>4, <1>5, PbxSteady
  <1>7. dir = "in" BY <1>1, Callee DEF DialogInv, CalledInv
  <1> QED BY <1>2, <1>6, <1>7, PbxMoves

LEMMA PbxRecord ==
  ASSUME NEW p \in Pbx, NEW s, NEW u
  PROVE  [p EXCEPT !.st = s, !.unacked = u] =
           [st |-> s, resp |-> p.resp, unacked |-> u, open |-> p.open, held |-> p.held, rn |-> p.rn]
  <1>1. [p EXCEPT !.st = s] = [st |-> s, resp |-> p.resp, unacked |-> p.unacked, open |-> p.open, held |-> p.held, rn |-> p.rn]
    BY DEF Pbx
  <1>2. ASSUME NEW q, q = [st |-> s, resp |-> p.resp, unacked |-> p.unacked, open |-> p.open, held |-> p.held, rn |-> p.rn]
        PROVE  [q EXCEPT !.unacked = u] =
           [st |-> s, resp |-> p.resp, unacked |-> u, open |-> p.open, held |-> p.held, rn |-> p.rn]
    BY <1>2
  <1> QED BY <1>1, <1>2

LEMMA PbxMissesAckKeeps ==
  ASSUME DialogInv, NEW r \in GwRequests, PbxMissesAck(r)
  PROVE  DialogInv'
  <1>1. CASE pbx.resp[r] = "ok" /\ pbx.st = "up"
    <2> DEFINE g == [pbx EXCEPT !.st = "ending", !.unacked = @ \ {r}]
    <2>1. /\ g \in Pbx /\ g.resp = pbx.resp /\ g.unacked \subseteq pbx.unacked /\ g.open = pbx.open /\ g.rn = pbx.rn
          /\ g.st = "ending" /\ pbx.rn <= g.rn
      <3>1. g = [st |-> "ending", resp |-> pbx.resp, unacked |-> pbx.unacked \ {r}, open |-> pbx.open, held |-> pbx.held,
                 rn |-> pbx.rn]
        BY PbxTypes, PbxRecord
      <3>2. /\ pbx.resp \in [GwRequests -> Response \cup {"none"}] /\ pbx.unacked \ {r} \subseteq GwRequests
            /\ pbx.open \in SUBSET PbxRequests /\ pbx.held \in BOOLEAN /\ pbx.rn \in 0..MaxRefresh /\ pbx.rn <= pbx.rn
        BY PbxTypes DEF Pbx
      <3> HIDE DEF g
      <3>3. g \in Pbx BY <3>1, <3>2 DEF Pbx, PbxState
      <3> QED BY <3>1, <3>2, <3>3
    <2>2. PAsk(PBye, g) BY <1>1 DEF PbxMissesAck
    <2>3. dir = "in" => cache[PInvite] = "ok" BY <1>1 DEF DialogInv, AnswerInv
    <2> HIDE DEF g
    <2>4. PbxStep /\ pbx'.st = "ending" /\ \A q \in GwInvites : pbx'.resp[q] = pbx.resp[q]
      BY <1>1, <2>1, <2>2, <2>3, PbxNames, PbxAsks DEF Forward
    <2> QED BY <1>1, <2>4, PbxMoves
  <1>2. CASE ~(pbx.resp[r] = "ok" /\ pbx.st = "up")
    <2>1. UNCHANGED mine /\ pbx' = [pbx EXCEPT !.unacked = @ \ {r}] /\ net' = net BY <1>2 DEF PbxMissesAck
    <2>2. /\ pbx' \in Pbx /\ pbx'.resp = pbx.resp /\ pbx'.st = pbx.st /\ pbx'.rn = pbx.rn /\ pbx'.open = pbx.open
          /\ pbx'.unacked \subseteq pbx.unacked
      BY <2>1, PbxTypes DEF Pbx
    <2>3. pbx.rn <= pbx.rn /\ Forward(pbx.st) BY PbxTypes DEF Forward
    <2>4. \A q \in PbxRequests : Asked(q)' => Asked(q) BY <2>1, <2>2 DEF Asked, mine
    <2>5. net' \subseteq Datagrams /\ \A d \in net' : d \in net BY <2>1, PbxTypes
    <2>6. PbxStep BY <2>1, <2>2, <2>3, <2>4, <2>5, PbxSteady
    <2> QED BY <2>2, <2>6, PbxMoves
  <1> QED BY <1>1, <1>2

\* A response reaches the PBX: what it may be, and that it stands on the call.
LEMMA Heard ==
  ASSUME DialogInv, NEW m \in net, m.r.by = "pbx", m.what \in Response
  PROVE  /\ m.r \in PbxRequests /\ (m.what \in Final => cache[m.r] = m.what)
         /\ m.r = PInvite => dir = "in" /\ m.r.kind = "invite"
         /\ m.r = PBye => pbx.st \in {"ending", "down"} /\ cache[PBye] # "none" /\ gw.st = "terminated"
         /\ pbx.st # "idle"
  <1>1. m.r \in PbxRequests BY NetNames, PbxTypes
  <1>2. PbxDatagram(m) BY <1>1 DEF DialogInv, NetInv
  <1>3. MayAsk(m.r) BY <1>1 DEF DialogInv, AskInv, Asked
  <1>4. m.what \in Final => cache[m.r] = m.what BY <1>2 DEF PbxDatagram
  <1>5. cache[m.r] # "none" BY <1>2, Codes DEF PbxDatagram
  <1> QED BY <1>1, <1>3, <1>4, <1>5, PbxNames DEF MayAsk, DialogInv, AskInv

LEMMA PbxHearsFrame ==
  ASSUME DialogInv, NEW m \in net, PbxHears(m)
  PROVE  /\ UNCHANGED mine /\ m.r.by = "pbx" /\ m.what \in Response
         /\ pbx' \in Pbx /\ pbx'.resp = pbx.resp /\ pbx'.unacked = pbx.unacked /\ pbx'.rn = pbx.rn /\ pbx'.held = pbx.held
         /\ \/ /\ m.r = PInvite /\ m.what = "ok" /\ pbx.st = "cancelling"
               /\ pbx'.st = "ending" /\ pbx'.open = (pbx.open \ {m.r}) \cup {PBye}
               /\ net' = (net \ {m}) \cup {Ack(m.r), Ask(PBye)}
            \/ /\ pbx'.open = pbx.open \ {m.r}
               /\ net' = (net \ {m}) \cup (IF IsInvite(m.r) /\ m.what \in Final /\ pbx.st # "down" THEN {Ack(m.r)} ELSE {})
               /\ \/ m.r = PInvite /\ m.what \in Provisional /\ pbx.st = "calling" /\ pbx'.st = "proceeding"
                  \/ m.r = PInvite /\ m.what = "ok" /\ pbx.st \in {"calling", "proceeding"} /\ pbx'.st = "up"
                  \/ m.r = PInvite /\ m.what \in Failure /\ pbx'.st = "down"
                  \/ m.r = PBye /\ pbx'.st = "down"
                  \/ pbx'.st = pbx.st /\ m.r # PBye /\ (m.r = PInvite /\ m.what = "ok" => pbx.st \notin {"calling", "proceeding", "cancelling"})
  <1> DEFINE p == [pbx EXCEPT !.open = @ \ {m.r}]
  <1>1. /\ UNCHANGED mine /\ m.r.by = "pbx" /\ m.what \in Response BY DEF PbxHears
  <1>2. /\ p \in Pbx /\ p.resp = pbx.resp /\ p.unacked = pbx.unacked /\ p.open = pbx.open \ {m.r} /\ p.st = pbx.st
        /\ p.rn = pbx.rn /\ p.held = pbx.held
    BY PbxTypes DEF Pbx
  <1> HIDE DEF p
  <1>3. ASSUME NEW s \in PbxState
        PROVE  /\ [p EXCEPT !.st = s] \in Pbx
               /\ [p EXCEPT !.st = s] = [st |-> s, resp |-> pbx.resp, unacked |-> pbx.unacked,
                                        open |-> p.open, held |-> pbx.held, rn |-> pbx.rn]
    BY <1>2 DEF Pbx
  <1>4. CASE m.r = PInvite /\ m.what = "ok" /\ pbx.st = "cancelling"
    <2>1. /\ pbx' = [p EXCEPT !.st = "ending", !.open = @ \cup {PBye}]
          /\ net' = (net \ {m}) \cup ({Ack(m.r)} \cup {Ask(PBye)})
      BY <1>4, PbxNames, Codes DEF PbxHears, p, Answers, IsInvite
    <2>2. pbx' = [st |-> "ending", resp |-> pbx.resp, unacked |-> pbx.unacked, open |-> p.open \cup {PBye}, held |-> pbx.held,
                  rn |-> pbx.rn]
      <3>1. p \in Pbx /\ p.resp = pbx.resp /\ p.unacked = pbx.unacked /\ p.held = pbx.held /\ p.rn = pbx.rn BY <1>2
      <3> QED BY <2>1, <3>1 DEF Pbx
    <2>3. p.open \cup {PBye} \in SUBSET PbxRequests BY <1>2, PbxNames DEF Pbx
    <2>4. pbx.resp \in [GwRequests -> Response \cup {"none"}] /\ pbx.unacked \in SUBSET GwRequests /\ pbx.held \in BOOLEAN
          /\ pbx.rn \in 0..MaxRefresh
      BY PbxTypes DEF Pbx
    <2>5. pbx' \in Pbx BY <2>2, <2>3, <2>4 DEF Pbx, PbxState
    <2> QED BY <1>1, <1>2, <1>4, <2>1, <2>2, <2>5
  <1>5. CASE ~(m.r = PInvite /\ m.what = "ok" /\ pbx.st = "cancelling")
    <2>1. net' = (net \ {m}) \cup (IF IsInvite(m.r) /\ m.what \in Final /\ pbx.st # "down" THEN {Ack(m.r)} ELSE {})
      BY <1>5 DEF PbxHears, Answers
    <2>2. PICK s \in PbxState :
          /\ pbx' = [p EXCEPT !.st = s] \/ (s = pbx.st /\ pbx' = p)
          /\ \/ m.r = PInvite /\ m.what \in Provisional /\ pbx.st = "calling" /\ s = "proceeding"
             \/ m.r = PInvite /\ m.what = "ok" /\ pbx.st \in {"calling", "proceeding"} /\ s = "up"
             \/ m.r = PInvite /\ m.what \in Failure /\ s = "down"
             \/ m.r = PBye /\ s = "down"
             \/ s = pbx.st /\ m.r # PBye /\ (m.r = PInvite /\ m.what = "ok" => pbx.st \notin {"calling", "proceeding", "cancelling"})
      <3>1. pbx' = CASE m.r = PInvite /\ m.what \in Provisional /\ pbx.st = "calling" -> [p EXCEPT !.st = "proceeding"]
                     [] m.r = PInvite /\ m.what = "ok" /\ pbx.st \in {"calling", "proceeding"} -> [p EXCEPT !.st = "up"]
                     [] m.r = PInvite /\ m.what \in Failure -> [p EXCEPT !.st = "down"]
                     [] m.r = PBye -> [p EXCEPT !.st = "down"]
                     [] OTHER -> p
        BY <1>5, Codes DEF PbxHears, p, Provisional, Failure
      <3>2. "proceeding" \in PbxState /\ "up" \in PbxState /\ "down" \in PbxState /\ pbx.st \in PbxState
        BY PbxTypes DEF PbxState
      <3> QED BY <1>5, <3>1, <3>2
    <2>3. pbx' \in Pbx /\ pbx'.resp = pbx.resp /\ pbx'.unacked = pbx.unacked /\ pbx'.rn = pbx.rn /\ pbx'.held = pbx.held
          /\ pbx'.st = s /\ pbx'.open = pbx.open \ {m.r}
      BY <1>2, <1>3, <2>2
    <2> QED BY <1>1, <2>1, <2>2, <2>3
  <1> QED BY <1>4, <1>5

LEMMA PbxHearsKeeps ==
  ASSUME DialogInv, NEW m \in net, PbxHears(m)
  PROVE  DialogInv'
  <1>1. /\ UNCHANGED mine /\ pbx' \in Pbx /\ pbx'.resp = pbx.resp /\ pbx'.unacked = pbx.unacked /\ pbx'.rn = pbx.rn
        /\ m.r.by = "pbx" /\ m.what \in Response
    BY PbxHearsFrame
  <1>2. /\ m.r \in PbxRequests /\ (m.what \in Final => cache[m.r] = m.what)
        /\ m.r = PInvite => dir = "in" /\ m.r.kind = "invite"
        /\ m.r = PBye => pbx.st \in {"ending", "down"}
        /\ pbx.st # "idle"
    BY <1>1, Heard
  <1>3. Forward(pbx'.st)
    <2>1. m.r = PInvite /\ m.what \in Failure => pbx.st # "up"
      BY <1>2, Codes DEF DialogInv, AnswerInv
    <2> QED BY <1>2, <2>1, PbxHearsFrame DEF Forward
  <1>4. /\ Ack(m.r) \in Datagrams /\ Ack(m.r).r = m.r /\ Ack(m.r).what = "ack"
        /\ Ask(PBye) \in Datagrams /\ Ask(PBye).r = PBye /\ Ask(PBye).what = "request"
    BY <1>2, PbxNames DEF Ack, Ask, Datagram, Datagrams
  <1>5. \A d \in net' : d \in net \/ (d = Ack(m.r) /\ m.what \in Final) \/ (d = Ask(PBye) /\ pbx'.st = "ending")
    BY PbxHearsFrame, Codes
  <1>6. \A d \in net' : d \in Datagrams /\ (d \in net \/ FromPbx(d))
    BY <1>2, <1>4, <1>5, PbxNames, PbxTypes DEF FromPbx
  <1>7. dir' = dir /\ cache' = cache BY <1>1 DEF mine, dir
  <1>8. pbx'.st = "ending" /\ pbx.st # "ending" => dir = "in" /\ cache[PInvite] = "ok"
    BY <1>2, PbxHearsFrame, Codes
  <1>9. ASSUME NEW r \in PbxRequests, Asked(r)' PROVE Asked(r) \/ MayAsk(r)'
    <2>1. CASE \E d \in net' : d.r = r /\ d \notin net
      <3>1. Asked(r) \/ (r = PBye /\ pbx'.st = "ending") BY <1>4, <1>5, <2>1 DEF Asked
      <3>2. r = PBye /\ pbx'.st = "ending" => Asked(r) \/ MayAsk(r)'
        <4>1. CASE pbx.st = "ending"
          <5>1. dir = "in" => cache[PInvite] = "ok" BY <4>1 DEF DialogInv, AnswerInv
          <5> QED BY <1>7, <5>1, PbxNames DEF MayAsk
        <4>2. CASE pbx.st # "ending" BY <1>7, <1>8, <4>2, PbxNames DEF MayAsk
        <4> QED BY <4>1, <4>2
      <3> QED BY <3>1, <3>2
    <2>2. CASE \A d \in net' : d.r = r => d \in net
      <3>1. CASE r \in pbx'.open /\ r \notin pbx.open
        <4>1. r = PBye /\ pbx'.st = "ending" /\ pbx.st = "cancelling" BY <3>1, PbxHearsFrame
        <4> QED BY <1>7, <1>8, <4>1, PbxNames DEF MayAsk
      <3>2. CASE r \in pbx'.open => r \in pbx.open
        <4>1. Asked(r) BY <1>7, <1>9, <2>2, <3>2 DEF Asked
        <4> QED BY <4>1
      <3> QED BY <3>1, <3>2
    <2> QED BY <2>1, <2>2
  <1>10. pbx.rn <= pbx'.rn BY <1>1, PbxTypes
  <1>11. PbxStep /\ \A r \in GwInvites : pbx'.resp[r] = pbx.resp[r] BY <1>1, <1>3, <1>6, <1>9, <1>10, PbxSteady
  <1>12. \/ pbx'.st = pbx.st
         \/ pbx.st \in {"up", "ending"} /\ pbx'.st \in {"ending", "down"}
         \/ dir = "in" /\ pbx'.st \notin {"trying", "ringing"} /\ (pbx'.st \in {"up", "ending"} => cache[PInvite] = "ok")
    BY <1>2, PbxHearsFrame, Codes
  <1> QED BY <1>11, <1>12, PbxMoves

\* A request of the gateway that has not been answered.
NewToPbx(m) == m.what = "request" /\ m.r.by = "gw" /\ pbx.resp[m.r] = "none"

LEMMA NewRequest ==
  ASSUME DialogInv, NEW m \in net, NewToPbx(m)
  PROVE  /\ m.r \in GwRequests /\ fut[m.r] # "none" /\ pbx.resp[m.r] \notin Final
         /\ pbx \in Pbx /\ pbx.unacked \subseteq pbx.unacked /\ pbx.open \subseteq pbx.open /\ Forward(pbx.st)
  <1>1. m.r \in GwRequests BY NetNames, PbxTypes DEF NewToPbx
  <1>2. fut[m.r] # "none" BY <1>1 DEF DialogInv, NetInv, GwDatagram
  <1> QED BY <1>1, <1>2, PbxTypes, Codes DEF NewToPbx, Forward

LEMMA PbxInvitedKeeps ==
  ASSUME DialogInv, NEW m \in net, NewToPbx(m), PbxInvited(m)
  PROVE  DialogInv'
  <1>1. m.r \in GwInvites /\ m.r # Bye BY GwNames DEF PbxInvited
  <1>2. dir = "out" BY <1>1, NewRequest, PbxStates
  <1>3. "challenge" \in Response /\ "trying" \in Response /\ "trying" \in Provisional /\ "challenge" \notin Provisional BY Codes
  <1>4. CASE m.r = Invite(1) /\ PAnswers({m}, m.r, "challenge", pbx)
    <2>1. /\ PbxStep /\ pbx'.resp[m.r] = "challenge" /\ \A q \in GwRequests \ {m.r} : pbx'.resp[q] = pbx.resp[q]
          /\ pbx'.st = pbx.st
      <3>1. Answering(m.r, "challenge", pbx)
        <4>1. \E ms : PAnswers(ms, m.r, "challenge", pbx) BY <1>4
        <4> QED BY <1>1, NewRequest, <4>1 DEF Answering
      <3>2. m.r \in GwRequests BY NewRequest
      <3>3. Answered(m.r, "challenge", pbx) BY <1>3, <1>4, <3>1, <3>2, PbxAnswersFrame
      <3> QED BY <3>3 DEF Answered
    <2>2. dir' = dir /\ gw' = gw /\ fut' = fut BY <2>1 DEF PbxStep, mine, clients, dir
    <2>3. \A r \in GwInvites : /\ pbx'.resp[r] \in {"none", "challenge"} <=> pbx.resp[r] \in {"none", "challenge"}
                               /\ pbx'.resp[r] \in Provisional <=> pbx.resp[r] \in Provisional
                               /\ pbx.resp[r] = "ok" => pbx'.resp[r] = "ok"
      BY <2>1, GwNames, Codes DEF NewToPbx, Provisional
    <2>4. CalledInv' BY <1>2, <2>1, <2>2, <2>3 DEF DialogInv, CalledInv
    <2>5. AnswerInv' BY <1>2, <2>2 DEF AnswerInv
    <2> QED BY <2>1, <2>4, <2>5, PbxInv
  <1>5. CASE pbx.st = "idle" /\ PAnswers({m}, m.r, "trying", [pbx EXCEPT !.st = "trying"])
    <2> DEFINE g == [pbx EXCEPT !.st = "trying"]
    <2>1. /\ g \in Pbx /\ g.resp = pbx.resp /\ g.unacked \subseteq pbx.unacked /\ g.open \subseteq pbx.open /\ g.rn = pbx.rn
          /\ g.st = "trying"
      BY PbxTypes DEF Pbx, PbxState
    <2>2. PAnswers({m}, m.r, "trying", g) /\ Forward("trying") BY <1>5 DEF Forward
    <2> HIDE DEF g
    <2>3. /\ PbxStep /\ pbx'.resp[m.r] = "trying" /\ \A q \in GwRequests \ {m.r} : pbx'.resp[q] = pbx.resp[q]
          /\ pbx'.st = "trying"
      <3>1. Answering(m.r, "trying", g)
        <4>1. \E ms : PAnswers(ms, m.r, "trying", g) BY <2>2
        <4> QED BY <1>1, <2>1, <2>2, NewRequest, <4>1 DEF Answering
      <3>2. m.r \in GwRequests BY NewRequest
      <3>3. Answered(m.r, "trying", g) BY <1>3, <3>1, <3>2, PbxAnswersFrame
      <3> QED BY <2>1, <3>3 DEF Answered
    <2>4. \A q \in GwInvites : pbx.resp[q] \in {"none", "challenge"} BY <1>2, <1>5 DEF DialogInv, CalledInv
    <2>5. pbx.resp[m.r] \notin Final BY NewRequest
    <2> QED BY <1>1, <1>2, <1>3, <2>3, <2>4, <2>5, GwNames, PbxServes
  <1> QED BY <1>4, <1>5 DEF PbxInvited

LEMMA PbxCancelledKeeps ==
  ASSUME DialogInv, NEW m \in net, NewToPbx(m), PbxCancelled(m)
  PROVE  DialogInv'
  <1> DEFINE inv == Branch(m.r)
  <1>1. m.r \in GwRequests /\ m.r.kind = "cancel" /\ fut[m.r] # "none" /\ m.r # Bye BY NewRequest, GwNames DEF PbxCancelled
  <1>2. inv \in GwInvites /\ inv \in GwRequests /\ inv # m.r /\ IsInvite(inv) /\ ~IsInvite(m.r) /\ m.r \notin GwInvites
    BY <1>1, GwNames DEF IsInvite
  <1>3. dir = "out" BY <1>1, PbxStates
  <1>4. "ok" \in Response /\ "cancelled" \in Response /\ "ok" \notin Provisional /\ "cancelled" \in Final
        /\ "cancelled" \notin Provisional /\ "ok" \in Final /\ "none" \notin Final
    BY Codes DEF Provisional
  <1>5. CASE pbx.resp[inv] \in Provisional
    <2>1. /\ pbx' = [pbx EXCEPT !.st = "down", !.resp[m.r] = "ok", !.resp[inv] = "cancelled", !.unacked = @ \cup {inv}]
          /\ net' = (net \ {m}) \cup {Reply(m.r, "ok"), Reply(inv, "cancelled")}
          /\ UNCHANGED mine
      BY <1>5 DEF PbxCancelled, Answers
    <2> HIDE DEF inv
    <2>2. fut[inv] # "none" /\ pbx.resp[inv] \notin Final BY <1>2, <1>5, Codes DEF DialogInv, RespInv
    <2> DEFINE rs == [pbx.resp EXCEPT ![m.r] = "ok", ![inv] = "cancelled"]
    <2>3. pbx' = [st |-> "down", resp |-> rs, unacked |-> pbx.unacked \cup {inv}, open |-> pbx.open, held |-> pbx.held,
                  rn |-> pbx.rn]
      <3>1. pbx = [st |-> pbx.st, resp |-> pbx.resp, unacked |-> pbx.unacked, open |-> pbx.open, held |-> pbx.held, rn |-> pbx.rn]
        BY PbxTypes DEF Pbx
      <3> QED BY <2>1, <3>1
    <2>4. rs \in [GwRequests -> Response \cup {"none"}] /\ rs[m.r] = "ok" /\ rs[inv] = "cancelled"
          /\ \A q \in GwRequests \ {m.r, inv} : rs[q] = pbx.resp[q]
      BY <1>1, <1>2, <1>4, PbxTypes
    <2> HIDE DEF rs
    <2>5. /\ pbx.unacked \cup {inv} \subseteq GwRequests /\ pbx.open \in SUBSET PbxRequests /\ pbx.held \in BOOLEAN
          /\ pbx.rn \in 0..MaxRefresh /\ pbx.rn <= pbx.rn
      BY <1>2, PbxTypes DEF Pbx
    <2>6. pbx' \in Pbx BY <2>3, <2>4, <2>5 DEF Pbx, PbxState
    <2>7. pbx'.st = "down" /\ pbx'.resp = rs /\ pbx'.unacked = pbx.unacked \cup {inv} /\ pbx'.open = pbx.open /\ pbx'.rn = pbx.rn
      BY <2>3
    <2>8. /\ Reply(m.r, "ok") \in Datagrams /\ Reply(m.r, "ok").r = m.r /\ Reply(m.r, "ok").what = "ok"
          /\ Reply(inv, "cancelled") \in Datagrams /\ Reply(inv, "cancelled").r = inv /\ Reply(inv, "cancelled").what = "cancelled"
      BY <1>1, <1>2, <1>4, NewReply
    <2>9. \A d \in net' : d \in Datagrams /\ (d \in net \/ FromPbx(d))
      BY <1>1, <1>2, <1>4, <2>1, <2>2, <2>4, <2>7, <2>8, PbxTypes DEF FromPbx
    <2>10. \A q \in PbxRequests : Asked(q)' => Asked(q)
      <3>1. \A d \in net' : d.r \in PbxRequests => d \in net BY <1>1, <1>2, <2>1, <2>8, Apart
      <3>2. cache' = cache BY <2>1 DEF mine
      <3> QED BY <2>7, <3>1, <3>2 DEF Asked
    <2>11. Forward("down") BY DEF Forward
    <2>12. \A q \in GwRequests : pbx'.resp[q] # pbx.resp[q] =>
             /\ pbx.resp[q] \notin Final /\ pbx'.resp[q] # "none" /\ fut[q] # "none"
             /\ pbx'.resp[q] \notin Provisional
      BY <1>1, <1>2, <1>4, <2>2, <2>4, <2>7, NewRequest
    <2>13. \A q \in GwRequests : q \in pbx'.unacked => q \in pbx.unacked \/ (pbx'.resp[q] \in Final /\ IsInvite(q))
      BY <1>2, <1>4, <2>4, <2>7
    <2>14. PbxStep BY <2>1, <2>5, <2>6, <2>7, <2>9, <2>10, <2>11, <2>12, <2>13 DEF PbxStep
    <2>15. pbx.resp[inv] \notin {"none", "challenge"} BY <1>5 DEF Provisional
    <2>16. \A q \in GwInvites \ {inv} : pbx'.resp[q] = pbx.resp[q] /\ pbx.resp[q] \in {"none", "challenge"}
      BY <1>2, <2>4, <2>7, <2>15, OneServed, GwNames
    <2> QED BY <1>2, <1>3, <2>2, <2>4, <2>7, <2>14, <2>16, PbxServes
  <1>6. CASE pbx.resp[inv] \notin Provisional
    <2>1. PAnswers({m}, m.r, "ok", pbx) BY <1>6 DEF PbxCancelled
    <2>2. PbxStep /\ (\A q \in GwRequests \ {m.r} : pbx'.resp[q] = pbx.resp[q]) /\ pbx'.st = pbx.st
      <3>1. Answering(m.r, "ok", pbx)
        <4>1. \E ms : PAnswers(ms, m.r, "ok", pbx) BY <2>1
        <4> QED BY <1>1, <1>4, NewRequest, <4>1 DEF Answering
      <3>2. m.r \in GwRequests BY NewRequest
      <3>3. Answered(m.r, "ok", pbx) BY <1>4, <3>1, <3>2, PbxAnswersFrame
      <3> QED BY <2>1, <3>3 DEF Answered
    <2> QED BY <1>2, <2>2, GwNames, PbxMoves
  <1> QED BY <1>5, <1>6

LEMMA PbxByedKeeps ==
  ASSUME DialogInv, NEW m \in net, NewToPbx(m), PbxByed(m)
  PROVE  DialogInv' /\ pbx'.st \in {"ending", "down"}
  <1>1. m.r = Bye /\ Bye \in GwRequests /\ Bye \notin GwInvites /\ ~IsInvite(Bye) BY GwNames DEF PbxByed, IsInvite
  <1>2. fut[Bye] # "none" BY <1>1, NewRequest
  <1>3. pbx.st \in {"up", "ending", "down"} \/ (dir = "in" /\ pbx.st \in {"calling", "proceeding", "cancelling"})
    BY <1>2, PbxStates
  <1>4. "ok" \in Response /\ "ok" \notin Provisional BY Codes DEF Provisional
  <1>5. CASE pbx.st \in {"calling", "proceeding", "cancelling", "up"}
    <2> DEFINE g == [pbx EXCEPT !.st = "down", !.unacked = {}, !.open = {}]
    <2>1. PAnswers({m}, m.r, "ok", g) BY <1>5 DEF PbxByed
    <2>2. g = [st |-> "down", resp |-> pbx.resp, unacked |-> {}, open |-> {}, held |-> pbx.held, rn |-> pbx.rn]
      <3> DEFINE q == [pbx EXCEPT !.st = "down", !.unacked = {}]
      <3>1. q = [st |-> "down", resp |-> pbx.resp, unacked |-> {}, open |-> pbx.open, held |-> pbx.held, rn |-> pbx.rn]
        BY PbxTypes, PbxRecord
      <3>2. g = [q EXCEPT !.open = {}] OBVIOUS
      <3> HIDE DEF q, g
      <3> QED BY <3>1, <3>2
    <2> HIDE DEF g
    <2>3. g \in Pbx BY <2>2, PbxTypes DEF Pbx, PbxState
    <2>4. Forward("down") BY DEF Forward
    <2>5. PbxStep /\ (\A q \in GwRequests \ {m.r} : pbx'.resp[q] = pbx.resp[q]) /\ pbx'.st = "down"
      <3>1. g.resp = pbx.resp /\ g.unacked = {} /\ g.open = {} /\ g.rn = pbx.rn /\ g.st = "down" BY <2>2
      <3>2. Answering(m.r, "ok", g)
        <4>1. \E ms : PAnswers(ms, m.r, "ok", g) BY <2>1
        <4> QED BY <1>1, <1>4, <2>3, <2>4, <3>1, NewRequest, <4>1 DEF Answering
      <3>3. m.r \in GwRequests BY NewRequest
      <3>4. Answered(m.r, "ok", g) BY <1>4, <3>2, <3>3, PbxAnswersFrame
      <3> QED BY <2>1, <3>1, <3>4 DEF Answered
    <2>6. \A q \in GwInvites : pbx'.resp[q] = pbx.resp[q] BY <1>1, <2>5, GwNames
    <2>7. DialogInv' BY <1>3, <1>5, <2>5, <2>6, PbxMoves
    <2> QED BY <2>5, <2>7
  <1>6. CASE pbx.st \notin {"calling", "proceeding", "cancelling", "up"}
    <2>1. PAnswers({m}, m.r, "ok", pbx) /\ pbx.st \in {"ending", "down"} BY <1>3, <1>6 DEF PbxByed
    <2>2. PbxStep /\ (\A q \in GwRequests \ {m.r} : pbx'.resp[q] = pbx.resp[q]) /\ pbx'.st = pbx.st
      <3>1. Answering(m.r, "ok", pbx)
        <4>1. \E ms : PAnswers(ms, m.r, "ok", pbx) BY <2>1
        <4> QED BY <1>1, <1>4, <2>1, NewRequest, <4>1 DEF Answering
      <3>2. m.r \in GwRequests BY NewRequest
      <3>3. Answered(m.r, "ok", pbx) BY <1>4, <3>1, <3>2, PbxAnswersFrame
      <3> QED BY <2>1, <3>3 DEF Answered
    <2>3. DialogInv' BY <1>1, <2>2, GwNames, PbxMoves
    <2> QED BY <2>1, <2>2, <2>3
  <1> QED BY <1>5, <1>6

LEMMA PbxReinvitedKeeps ==
  ASSUME DialogInv, NEW m \in net, NewToPbx(m), PbxReinvited(m)
  PROVE  DialogInv'
  <1>1. m.r \in GwRequests /\ m.r.kind = "re" /\ m.r \notin GwInvites /\ m.r # Bye BY NewRequest, GwNames DEF PbxReinvited
  <1> DEFINE g == [pbx EXCEPT !.held = m.hold]
  <1>2. /\ g \in Pbx /\ g.resp = pbx.resp /\ g.unacked = pbx.unacked /\ g.open = pbx.open /\ g.rn = pbx.rn /\ g.st = pbx.st
    BY PbxTypes, NetNames DEF Pbx
  <1>3. PAnswers({m}, m.r, "refused", pbx) \/ PAnswers({m}, m.r, "pending", pbx) \/ PAnswers({m}, m.r, "ok", g)
    BY DEF PbxReinvited
  <1> HIDE DEF g
  <1>4. PICK c \in {"refused", "pending", "ok"}, h \in {pbx, g} : PAnswers({m}, m.r, c, h) BY <1>3
  <1>5. c \in Response /\ c \notin Provisional BY Codes DEF Provisional
  <1>6. h \in Pbx /\ h.resp = pbx.resp /\ h.unacked \subseteq pbx.unacked /\ h.open \subseteq pbx.open /\ h.rn = pbx.rn /\ h.st = pbx.st
    BY <1>2, PbxTypes
  <1>7. PbxStep /\ (\A q \in GwRequests \ {m.r} : pbx'.resp[q] = pbx.resp[q]) /\ pbx'.st = pbx.st
    <2>1. Answering(m.r, c, h)
      <3>1. \E ms : PAnswers(ms, m.r, c, h) BY <1>4
      <3> QED BY <1>1, <1>5, <1>6, NewRequest, <3>1 DEF Answering
    <2>2. m.r \in GwRequests BY NewRequest
    <2>3. Answered(m.r, c, h) BY <1>4, <1>5, <2>1, <2>2, PbxAnswersFrame
    <2> QED BY <1>6, <2>3 DEF Answered
  <1> QED BY <1>1, <1>7, GwNames, PbxMoves

LEMMA PbxIsAskedKeeps ==
  ASSUME DialogInv, NEW m \in net, PbxIsAsked(m)
  PROVE  DialogInv'
  <1>1. m.what = "request" /\ m.r.by = "gw" BY DEF PbxIsAsked
  <1>2. m.r \in GwRequests BY <1>1, NetNames, PbxTypes
  <1>3. CASE pbx.resp[m.r] # "none"
    <2> DEFINE c == pbx.resp[m.r]
    <2>1. UNCHANGED <<mine, pbx>> /\ net' = (net \ {m}) \cup {Reply(m.r, c)} BY <1>3 DEF PbxIsAsked, Answers
    <2>2. c \in Response /\ fut[m.r] # "none" /\ pbx'.resp[m.r] = c /\ (c \in Provisional => m.r \in GwInvites) /\ c # "none"
      BY <1>2, <1>3, <2>1, PbxTypes DEF DialogInv, RespInv
    <2> HIDE DEF c
    <2>3. Reply(m.r, c) \in Datagrams /\ Reply(m.r, c).r = m.r /\ Reply(m.r, c).what = c BY <1>2, <2>2, NewReply
    <2>4. FromPbx(Reply(m.r, c)) BY <1>2, <2>2, <2>3, Codes DEF FromPbx
    <2>5. m.r \notin PbxRequests BY <1>2, Apart
    <2>6. net' \subseteq Datagrams /\ \A d \in net' : d \in net \/ d = Reply(m.r, c) BY <2>1, <2>3, PbxTypes
    <2> QED BY <2>1, <2>3, <2>4, <2>5, <2>6, PbxStays
  <1>4. CASE pbx.resp[m.r] = "none"
    <2>1. NewToPbx(m) BY <1>1, <1>4 DEF NewToPbx
    <2>2. PbxInvited(m) \/ PbxCancelled(m) \/ PbxByed(m) \/ PbxReinvited(m) BY <1>4 DEF PbxIsAsked
    <2> QED BY <2>1, <2>2, PbxInvitedKeeps, PbxCancelledKeeps, PbxByedKeeps, PbxReinvitedKeeps
  <1> QED BY <1>3, <1>4

\* The INVITE that the PBX is called by.
LEMMA Served ==
  ASSUME DialogInv, pbx.st \in {"trying", "ringing"}
  PROVE  /\ dir = "out" /\ Serving \in GwInvites /\ Serving \in GwRequests /\ Serving # Bye
         /\ pbx.resp[Serving] \in Provisional /\ pbx.resp[Serving] \notin Final /\ fut[Serving] # "none"
         /\ \A q \in GwInvites \ {Serving} : pbx.resp[q] \in {"none", "challenge"}
  <1>1. dir = "out" BY Callee DEF DialogInv, AnswerInv
  <1>2. \E r \in GwInvites : pbx.resp[r] \in Provisional BY <1>1 DEF DialogInv, CalledInv
  <1>3. Serving \in GwInvites /\ pbx.resp[Serving] \in Provisional BY <1>2 DEF Serving
  <1> HIDE DEF Serving
  <1>4. pbx.resp[Serving] \notin {"none", "challenge"} BY <1>3 DEF Provisional
  <1>5. \A q \in GwInvites \ {Serving} : pbx.resp[q] \in {"none", "challenge"} BY <1>3, <1>4, OneServed
  <1>6. Serving \in GwRequests /\ Serving # Bye BY <1>3, GwNames
  <1>7. fut[Serving] # "none" BY <1>4, <1>6 DEF DialogInv, RespInv
  <1> QED BY <1>1, <1>3, <1>5, <1>6, <1>7, Codes

LEMMA PbxServesKeeps ==
  ASSUME DialogInv, (\E c \in {"ringing", "early"} : PbxRings(c)) \/ PbxPicksUp \/ PbxRefuses
  PROVE  /\ DialogInv' /\ UNCHANGED mine /\ Serving \in GwInvites /\ dir = "out"
         /\ PbxStep /\ \A q \in GwRequests \ {Serving} : pbx'.resp[q] = pbx.resp[q]
         /\ \/ pbx'.st = "ringing" /\ pbx.st = "trying" /\ pbx'.resp[Serving] \in Provisional
            \/ PbxPicksUp /\ pbx'.st = "up" /\ pbx'.resp[Serving] = "ok" /\ Serving \in pbx'.unacked
            \/ pbx'.st = "down" /\ pbx'.resp[Serving] = "refused"
  <1> DEFINE s == Serving
  <1>1. pbx.st \in {"trying", "ringing"} BY DEF PbxRings, PbxPicksUp, PbxRefuses
  <1>2. /\ dir = "out" /\ s \in GwInvites /\ s \in GwRequests /\ s # Bye /\ pbx.resp[s] \notin Final /\ fut[s] # "none"
        /\ \A q \in GwInvites \ {s} : pbx.resp[q] \in {"none", "challenge"}
    BY <1>1, Served
  <1>3. PICK c \in {"ringing", "early", "ok", "refused"}, st \in {"ringing", "up", "down"} :
          /\ PAnswers({}, s, c, [pbx EXCEPT !.st = st])
          /\ \/ st = "ringing" /\ pbx.st = "trying" /\ c \in {"ringing", "early"}
             \/ PbxPicksUp /\ st = "up" /\ c = "ok"
             \/ st = "down" /\ c = "refused"
    BY DEF PbxRings, PbxPicksUp, PbxRefuses
  <1> HIDE DEF s
  <1> DEFINE g == [pbx EXCEPT !.st = st]
  <1>4. g \in Pbx /\ g.resp = pbx.resp /\ g.unacked = pbx.unacked /\ g.open = pbx.open /\ g.rn = pbx.rn /\ g.st = st
    BY PbxTypes DEF Pbx, PbxState
  <1>5. PAnswers({}, s, c, g) BY <1>3
  <1> HIDE DEF g
  <1>6. Forward(st) BY <1>1, <1>3 DEF Forward
  <1>7. c \in Response /\ (st = "ringing" => c \in Provisional) /\ c \notin {"none"} /\ (c = "ok" => c \in Final)
    BY <1>3, Codes DEF Provisional
  <1>8. Answering(s, c, g)
    <2>1. \E ms : PAnswers(ms, s, c, g) BY <1>5
    <2> QED BY <1>2, <1>4, <1>6, <2>1 DEF Answering
  <1>9. /\ PbxStep /\ pbx'.resp[s] = c /\ (\A q \in GwRequests \ {s} : pbx'.resp[q] = pbx.resp[q]) /\ pbx'.st = st
        /\ (c = "ok" => s \in pbx'.unacked)
    <2>1. IsInvite(s) BY <1>2, GwNames DEF IsInvite
    <2>2. Answered(s, c, g) BY <1>2, <1>7, <1>8, PbxAnswersFrame
    <2> QED BY <1>4, <1>7, <2>1, <2>2 DEF Answered
  <1>10. \A q \in GwInvites \ {s} : pbx'.resp[q] = pbx.resp[q] /\ pbx.resp[q] \in {"none", "challenge"}
    BY <1>2, <1>9, GwNames
  <1>11. DialogInv' BY <1>2, <1>3, <1>7, <1>9, <1>10, PbxServes
  <1>12. UNCHANGED mine BY <1>9 DEF PbxStep
  <1>13. s = Serving BY DEF s
  <1> HIDE DEF Serving
  <1> QED BY <1>2, <1>3, <1>7, <1>9, <1>11, <1>12, <1>13

-----------------------------------------------------------------------------
(* The inductive invariant *)

LEMMA InitDialog ==
  ASSUME Init
  PROVE  DialogInv
  <1>1. /\ scene \in Scenes /\ dir \in {"out", "in"} /\ last = NoFinal /\ armed = {} /\ net = {} /\ gaveUp = FALSE
        /\ gw = [st |-> IF dir = "out" THEN "new" ELSE "none", answered |-> "pending",
                 flow |-> IF dir = "out" THEN "start" ELSE "none", inv |-> 0,
                 re |-> "idle", rn |-> 0, hold |-> FALSE, lastAck |-> None]
        /\ pbx = [st |-> "idle", resp |-> [r \in GwRequests |-> "none"], unacked |-> {}, open |-> {},
                  held |-> FALSE, rn |-> 0]
        /\ \A r \in GwRequests : fut[r] = "none" /\ table[r] = None /\ pbx.resp[r] = "none"
        /\ \A r \in PbxRequests : cache[r] = "none"
    BY BoundsAssumption DEF Init, dir
  <1>2. TypeOK
    <2>1. gw \in SipCall BY <1>1, BoundsAssumption DEF SipCall, CallState
    <2>2. pbx \in Pbx BY <1>1, BoundsAssumption DEF Pbx, PbxState
    <2>3. last \in LastFinal BY <1>1 DEF LastFinal, NoFinal
    <2>4. /\ fut \in [GwRequests -> {"none", "open", "over"} \cup Final]
          /\ table \in [GwRequests -> GwRequests \cup {None}]
          /\ cache \in [PbxRequests -> Response \cup {"none"}]
      BY DEF Init
    <2> QED BY <1>1, <2>1, <2>2, <2>3, <2>4 DEF TypeOK
  <1>3. /\ gw.inv = 0 /\ gw.rn = 0 /\ gw.re = "idle" /\ gw.lastAck = None
        /\ dir = "out" => gw.st = "new" /\ gw.flow = "start"
        /\ dir = "in" => gw.st = "none" /\ gw.flow = "none"
    BY <1>1
  <1>4. pbx.st = "idle" /\ pbx.unacked = {} /\ pbx.open = {} BY <1>1
  <1>5. FlowInv
    <2>1. ASSUME NEW r \in GwInvites PROVE fut[r] \notin Live /\ fut[r] = "none" /\ ~(r.n <= gw.inv)
      BY <1>1, <1>3, GwNames, Codes
    <2> QED BY <1>1, <1>3, <2>1, Apart DEF FlowInv
  <1>6. HangupInv BY <1>1, GwNames DEF HangupInv
  <1>7. ReInv
    <2>1. ASSUME NEW r \in GwRequests, r.kind = "re" PROVE fut[r] \notin Live /\ fut[r] = "none" /\ ~(r.n <= gw.rn)
      BY <1>1, <1>3, <2>1, GwNames, Codes
    <2> QED BY <1>3, <2>1 DEF ReInv, Pending
  <1>8. TableInv BY <1>1, <1>3, GwNames, Apart DEF TableInv
  <1>9. NetInv BY <1>1 DEF NetInv
  <1>10. RespInv
    <2>1. Invite(2) \in GwRequests /\ Bye \in GwRequests BY GwNames
    <2>2. ASSUME NEW r \in GwRequests PROVE pbx.resp[r] = "none" /\ fut[r] = "none" BY <1>1
    <2> QED BY <1>3, <1>4, <2>1, <2>2, Codes DEF RespInv, Provisional
  <1>11. CalledInv
    <2>1. ASSUME NEW r \in GwInvites PROVE pbx.resp[r] = "none" BY <1>1, GwNames
    <2>2. fut[Bye] = "none" BY <1>1, GwNames
    <2> QED BY <1>3, <1>4, <2>1, <2>2 DEF CalledInv, Provisional
  <1>12. AskInv BY <1>1, <1>4, PbxNames DEF AskInv, Asked
  <1>13. AnswerInv
    <2>1. fut[Bye] = "none" /\ cache[PInvite] = "none" BY <1>1, GwNames, PbxNames
    <2> QED BY <1>3, <1>4, <2>1 DEF AnswerInv
  <1>14. LastInv
    <2>1. last.to = None /\ last.code = "none" /\ last.timer = FALSE BY <1>1 DEF NoFinal
    <2> QED BY <2>1, Apart DEF LastInv
  <1> QED BY <1>2, <1>5, <1>6, <1>7, <1>8, <1>9, <1>10, <1>11, <1>12, <1>13, <1>14 DEF DialogInv

LEMMA GatewayDialog ==
  ASSUME DialogInv, Gateway
  PROVE  DialogInv' /\ (CacheGrows \/ UNCHANGED cache)
  <1>1. CASE FlowStart \/ FlowChallenged \/ FlowFails \/ FlowUp \/ FlowTooLate
    <2>1. DialogInv'
      BY <1>1, FlowStartKeeps, FlowChallengedKeeps, FlowFailsKeeps, FlowUpKeeps, FlowTooLateKeeps
    <2>2. UNCHANGED cache BY <1>1 DEF FlowStart, FlowChallenged, FlowFails, FlowUp, FlowTooLate
    <2> QED BY <2>1, <2>2
  <1>2. CASE HangupNew \/ Cancel \/ Hangup \/ NoAck
    <2>1. DialogInv' BY <1>2, HangupNewKeeps, CancelKeeps, HangupKeeps
    <2>2. UNCHANGED cache BY <1>2 DEF HangupNew, Cancel, Hangup, NoAck
    <2> QED BY <2>1, <2>2
  <1>3. CASE \E r \in GwRequests : HangupReturns(r) \/ Deadline(r) \/ Retransmit(r)
    <2>1. DialogInv' BY <1>3, HangupReturnsKeeps, DeadlineKeeps, RetransmitKeeps
    <2>2. UNCHANGED cache BY <1>3 DEF HangupReturns, Deadline, Retransmit
    <2> QED BY <2>1, <2>2
  <1>4. CASE Reinvite \/ ReinviteAgain \/ ReinviteDone \/ ReinviteRefused
    <2>1. DialogInv' BY <1>4, ReinviteKeeps, ReinviteDoneKeeps, ReinviteRefusedKeeps
    <2>2. UNCHANGED cache BY <1>4 DEF Reinvite, ReinviteAgain, SendRe, ReinviteDone, ReinviteRefused
    <2> QED BY <2>1, <2>2
  <1>5. CASE Ringing \/ Answer \/ Reject \/ RetransmitFinal
    BY <1>5, RingingKeeps, AnswerKeeps, RejectKeeps, RetransmitFinalKeeps
  <1> QED BY <1>1, <1>2, <1>3, <1>4, <1>5 DEF Gateway

LEMMA DeliveryDialog ==
  ASSUME DialogInv, Delivery
  PROVE  DialogInv' /\ (CacheGrows \/ UNCHANGED cache)
  <1>1. PICK m \in net :
          \/ HandleResponse(m) \/ Repeated(m) \/ HandleNewInvite(m) \/ HandleAck(m) \/ HandleCancel(m)
          \/ HandleBye(m) \/ HandleReinvite(m) \/ ReinviteAsNew(m)
          \/ PbxHears(m) \/ PbxIsAsked(m) \/ PbxAcked(m)
    BY DEF Delivery
  <1>2. CASE HandleResponse(m) BY <1>2, HandleResponseKeeps DEF HandleResponse
  <1>3. CASE Repeated(m) \/ HandleNewInvite(m) \/ HandleAck(m) \/ HandleCancel(m)
    BY <1>3, RepeatedKeeps, HandleNewInviteKeeps, HandleAckKeeps, HandleCancelKeeps
  <1>4. CASE HandleBye(m) \/ HandleReinvite(m) \/ ReinviteAsNew(m)
    BY <1>4, HandleByeKeeps, HandleReinviteKeeps
  <1>5. CASE PbxHears(m) \/ PbxIsAsked(m) \/ PbxAcked(m)
    <2>1. DialogInv' BY <1>5, PbxHearsKeeps, PbxIsAskedKeeps, PbxAckedKeeps
    <2>2. UNCHANGED cache
      BY <1>5 DEF PbxHears, PbxIsAsked, PbxInvited, PbxCancelled, PbxByed, PbxReinvited, PAnswers, PbxAcked, mine
    <2> QED BY <2>1, <2>2
  <1> QED BY <1>1, <1>2, <1>3, <1>4, <1>5

LEMMA PeerDialog ==
  ASSUME DialogInv, Peer \/ Lose
  PROVE  DialogInv' /\ UNCHANGED cache
  <1>1. CASE PbxCalls \/ PbxCancels \/ PbxHangsUp \/ PbxReinvites
    BY <1>1, PbxCallsKeeps DEF PbxCalls, PbxCancels, PbxHangsUp, PbxReinvites, PAsk, mine
  <1>2. CASE PbxRepeats \/ PbxRepeatsFinal \/ Lose
    BY <1>2, PbxStaysKeeps DEF mine
  <1>3. CASE PbxGivesUpCall BY <1>3, PbxGivesUpCallKeeps DEF PbxGivesUpCall, mine
  <1>4. CASE (\E c \in {"ringing", "early"} : PbxRings(c)) \/ PbxPicksUp \/ PbxRefuses
    BY <1>4, PbxServesKeeps DEF mine
  <1>5. CASE \E r \in GwRequests : PbxMissesAck(r) BY <1>5, PbxMissesAckKeeps DEF PbxMissesAck, PAsk, mine
  <1> QED BY <1>1, <1>2, <1>3, <1>4, <1>5 DEF Peer

LEMMA StutterDialog ==
  ASSUME DialogInv, UNCHANGED vars
  PROVE  DialogInv'
  BY DEF vars, DialogInv, TypeOK, FlowInv, HangupInv, ReInv, TableInv, NetInv, GwDatagram, PbxDatagram, RespInv, CalledInv,
         AskInv, Asked, MayAsk, AnswerInv, LastInv, Pending, dir

LEMMA NextDialog ==
  ASSUME DialogInv, [Next]_vars
  PROVE  DialogInv' /\ (CacheGrows \/ UNCHANGED cache)
  <1>1. CASE Gateway BY <1>1, GatewayDialog
  <1>2. CASE Delivery BY <1>2, DeliveryDialog
  <1>3. CASE Peer \/ Lose BY <1>3, PeerDialog
  <1>4. CASE UNCHANGED vars BY <1>4, StutterDialog DEF vars
  <1> QED BY <1>1, <1>2, <1>3, <1>4 DEF Next, Over

\* The state of a dialog is of its type and holds together, on both sides and
\* on the wire: coroutines, transactions, what each end has answered and what
\* is under way.
THEOREM DialogHolds == Spec => []DialogInv
  <1>1. Init => DialogInv BY InitDialog
  <1>2. DialogInv /\ [Next]_vars => DialogInv' BY NextDialog
  <1> QED BY <1>1, <1>2, PTL DEF Spec

\* The dialog, its transactions and the datagrams under way are of their types.
THEOREM TypeCorrect == Spec => []TypeOK
  <1>1. DialogInv => TypeOK BY DEF DialogInv
  <1> QED BY <1>1, DialogHolds, PTL

\* A request of the PBX has one final response: an incoming call that was
\* answered is not refused or cancelled later, nor the other way round,
\* whatever is repeated, lost or late.
THEOREM OneFinalAnswer == Spec => OneFinal
  <1>1. DialogInv /\ [Next]_vars => [\A r \in PbxRequests : cache[r] \in Final => cache'[r] = cache[r]]_vars
    BY NextDialog DEF CacheGrows
  <1> QED BY <1>1, DialogHolds, PTL DEF Spec, OneFinal

-----------------------------------------------------------------------------
(* The dialog implements the session *)

Setup == {"new", "calling", "ringing", "early"}

\* What one step may do to the sides of the gateway and of the PBX.
GwMoves  == gw'.st \in {gw.st, "terminated"} \/ (gw.st \in Setup /\ gw'.st \in Setup)
Sides ==
    /\ dir' = dir
    /\ \/ PbxSide' = PbxSide /\ (Accepted' <=> Accepted) /\ GwSide' \in {GwSide, "down"}
       \/ GwSide' = GwSide /\ (Accepted' <=> Accepted) /\ PbxSide' \in {PbxSide, "down"}
       \/ GwSide' = GwSide /\ (Accepted' <=> Accepted) /\ PbxSide = "idle" /\ PbxSide' = "trying"
       \/ PbxSide' = PbxSide /\ (Accepted' <=> Accepted) /\ dir = "in" /\ GwSide = "idle" /\ GwSide' = "trying"
       \/ PbxSide' = PbxSide /\ dir = "out" /\ Accepted /\ Accepted' /\ GwSide = "trying" /\ GwSide' = "up"
       \/ GwSide' = GwSide /\ dir = "in" /\ Accepted /\ Accepted' /\ PbxSide = "trying" /\ PbxSide' = "up"
       \/ PbxSide' = PbxSide /\ dir = "in" /\ Accepted' /\ GwSide = "trying" /\ GwSide' = "up"
       \/ GwSide' = GwSide /\ dir = "out" /\ Accepted' /\ PbxSide = "trying" /\ PbxSide' = "up"

SessionVars == <<IF dir = "out" THEN GwSide ELSE PbxSide, IF dir = "out" THEN PbxSide ELSE GwSide,
                 IF dir = "out" THEN \E r \in GwInvites : pbx.resp[r] = "ok" ELSE cache[PInvite] = "ok">>

LEMMA SidesStep ==
  ASSUME DialogInv, Sides
  PROVE  [Session!SessionNext]_SessionVars
  <1>1. dir \in {"out", "in"} BY Callee
  <1>2. CASE dir = "out"
    <2>1. dir' = "out" BY <1>2 DEF Sides
    <2> QED BY <1>2, <2>1 DEF Sides, Accepted, SessionVars, Session!SessionNext, Session!Call, Session!Offered, Session!Accept,
          Session!Confirmed, Session!CallerLeaves, Session!CalleeLeaves
  <1>3. CASE dir = "in"
    <2>1. dir' = "in" BY <1>3 DEF Sides
    <2> QED BY <1>3, <2>1 DEF Sides, Accepted, SessionVars, Session!SessionNext, Session!Call, Session!Offered, Session!Accept,
          Session!Confirmed, Session!CallerLeaves, Session!CalleeLeaves
  <1> QED BY <1>1, <1>2, <1>3

\* The call moves on within its setup or ends, and the PBX has no part in it.
LEMMA GwSides ==
  ASSUME DialogInv, UNCHANGED <<scene, pbx>>, cache'[PInvite] = "ok" <=> cache[PInvite] = "ok", GwMoves
  PROVE  Sides
  <1>1. dir' = dir /\ PbxSide' = PbxSide /\ (Accepted' <=> Accepted) BY DEF dir, PbxSide, Accepted
  <1>2. GwSide' \in {GwSide, "down"} BY DEF GwMoves, GwSide, Setup
  <1> QED BY <1>1, <1>2 DEF Sides

LEMMA GatewaySides ==
  ASSUME DialogInv, Gateway
  PROVE  Sides
  <1>1. gw \in SipCall /\ gw.st \in CallState /\ Ended(gw).st = "terminated" BY ClientTypes, EndedFrame
  <1>2. CASE FlowStart
    <2>1. gw.st \in {"new", "terminated"} BY <1>2 DEF FlowStart, DialogInv, FlowInv
    <2>2. gw'.st = IF gw.st = "terminated" THEN "terminated" ELSE "calling" BY <1>1, <1>2 DEF FlowStart, SipCall
    <2> QED BY <1>2, <2>1, <2>2, GwSides DEF FlowStart, GwMoves, Setup
  <1>3. CASE FlowChallenged
    <2>1. gw'.st = gw.st BY <1>1, <1>3 DEF FlowChallenged, SipCall
    <2> QED BY <1>3, <2>1, GwSides DEF FlowChallenged, GwMoves
  <1>4. CASE FlowFails
    <2>1. [Ended(gw) EXCEPT !.flow = "done"].st = Ended(gw).st BY <1>1, EndedFrame DEF SipCall
    <2>2. gw'.st = "terminated" BY <1>1, <1>4, <2>1 DEF FlowFails
    <2> QED BY <1>4, <2>2, GwSides DEF FlowFails, GwMoves
  <1>5. CASE FlowUp
    <2>1. UNCHANGED <<scene, cache, pbx>> /\ dir' = dir /\ FlowGets("ok") /\ gw.st # "terminated" BY <1>5 DEF FlowUp, dir
    <2>2. gw'.st = "connected" BY <1>1, <1>5 DEF FlowUp, SipCall
    <2>3. /\ dir = "out" /\ gw.st \in {"calling", "ringing", "early"} /\ Invite(gw.inv) \in GwInvites
          /\ pbx.resp[Invite(gw.inv)] = "ok"
      BY <2>1, FlowWaits, Codes
    <2>4. Accepted /\ Accepted' BY <2>1, <2>3 DEF Accepted
    <2>5. PbxSide' = PbxSide /\ GwSide = "trying" /\ GwSide' = "up" BY <2>1, <2>2, <2>3 DEF PbxSide, GwSide
    <2> QED BY <2>1, <2>3, <2>4, <2>5 DEF Sides
  <1>6. CASE FlowTooLate
    <2>1. gw'.st = gw.st
      <3>1. gw' = [gw EXCEPT !.flow = "done", !.lastAck = Invite(gw.inv)] BY <1>6 DEF FlowTooLate
      <3> HIDE DEF Invite
      <3> QED BY <1>1, <3>1 DEF SipCall
    <2> QED BY <1>6, <2>1, GwSides DEF FlowTooLate, GwMoves
  <1>7. CASE HangupNew \/ Cancel \/ Hangup \/ NoAck
    <2>1. gw'.st = "terminated" /\ UNCHANGED <<scene, cache, pbx>>
      BY <1>1, <1>7 DEF HangupNew, Cancel, Hangup, NoAck, SendBye
    <2> QED BY <2>1, GwSides DEF GwMoves
  <1>8. CASE \E r \in GwRequests : HangupReturns(r) \/ Retransmit(r)
    BY <1>8, GwSides DEF HangupReturns, Retransmit, GwMoves
  <1>9. CASE Reinvite \/ ReinviteAgain
    <2>1. gw'.st = gw.st /\ UNCHANGED <<scene, cache, pbx>>
      BY <1>1, <1>9 DEF Reinvite, ReinviteAgain, SendRe, SipCall
    <2> QED BY <2>1, GwSides DEF GwMoves
  <1>10. CASE ReinviteDone
    <2>1. gw'.st = gw.st
      <3>1. gw' = [gw EXCEPT !.re = "idle", !.hold = ~@, !.lastAck = Re(gw.rn)] BY <1>10 DEF ReinviteDone
      <3> HIDE DEF Re
      <3> QED BY <1>1, <3>1 DEF SipCall
    <2> QED BY <1>10, <2>1, GwSides DEF ReinviteDone, GwMoves
  <1>11. CASE ReinviteRefused
    <2>1. gw'.st = gw.st BY <1>1, <1>11 DEF ReinviteRefused, SipCall
    <2> QED BY <1>11, <2>1, GwSides DEF ReinviteRefused, GwMoves
  <1>12. CASE \E r \in GwRequests : Deadline(r)
    <2>1. PICK r \in GwRequests : Deadline(r) BY <1>12
    <2>2. [Ended(gw) EXCEPT !.flow = "done"].st = "terminated" BY <1>1, EndedFrame DEF SipCall
    <2>3. [gw EXCEPT !.re = "idle"].st = gw.st BY <1>1 DEF SipCall
    <2>4. gw'.st \in {gw.st, "terminated"} BY <2>1, <2>2, <2>3 DEF Deadline
    <2> QED BY <2>1, <2>4, GwSides DEF Deadline, GwMoves
  <1>13. CASE Ringing
    <2>1. dir = "in" /\ gw.st \in {"new", "ringing"} BY <1>13 DEF Ringing
    <2>2. gw'.st = "ringing" /\ cache'[PInvite] = "ringing" /\ UNCHANGED <<scene, pbx>>
      BY <1>1, <1>13, PbxTypes, PbxNames DEF Ringing, Respond, SipCall
    <2>3. cache[PInvite] # "ok" BY <2>1, Callee, Codes
    <2> QED BY <2>1, <2>2, <2>3, GwSides DEF GwMoves, Setup
  <1>14. CASE Answer
    <2>1. dir = "in" /\ gw.st \in {"new", "ringing"} BY <1>14, Callee DEF Answer
    <2>2. gw'.st = "connected" /\ cache'[PInvite] = "ok" /\ UNCHANGED <<scene, pbx>>
      BY <1>1, <1>14, PbxTypes, PbxNames DEF Answer, Respond, SipCall
    <2>3. dir' = dir BY <2>2 DEF dir
    <2>4. PbxSide' = PbxSide /\ GwSide = "trying" /\ GwSide' = "up" BY <2>1, <2>2 DEF PbxSide, GwSide
    <2>5. Accepted' BY <2>1, <2>2, <2>3 DEF Accepted
    <2> QED BY <2>1, <2>3, <2>4, <2>5 DEF Sides
  <1>15. CASE Reject
    <2>1. dir = "in" /\ gw.st \in {"new", "ringing"} /\ cache[PInvite] # "ok" BY <1>15, Callee, Codes DEF Reject
    <2>2. gw'.st = "terminated" /\ cache'[PInvite] = "refused" /\ UNCHANGED <<scene, pbx>>
      BY <1>1, <1>15, PbxTypes, PbxNames DEF Reject, Respond
    <2> QED BY <2>1, <2>2, GwSides DEF GwMoves
  <1>16. CASE RetransmitFinal BY <1>16, GwSides DEF RetransmitFinal, GwMoves
  <1> QED BY <1>2, <1>3, <1>4, <1>5, <1>6, <1>7, <1>8, <1>9, <1>10, <1>11, <1>12, <1>13, <1>14, <1>15, <1>16 DEF Gateway

\* The answer to a request other than the INVITE, or another answer than "ok".
LEMMA SameAcceptance ==
  ASSUME DialogInv, NEW r \in PbxRequests, NEW c, cache[r] = "none", r # PInvite \/ c # "ok", cache' = [cache EXCEPT ![r] = c]
  PROVE  cache'[PInvite] = "ok" <=> cache[PInvite] = "ok"
  BY PbxTypes, PbxNames

LEMMA ServerSides ==
  ASSUME DialogInv, NEW m \in net,
         \/ Repeated(m) \/ HandleNewInvite(m) \/ HandleAck(m) \/ HandleCancel(m)
         \/ HandleBye(m) \/ HandleReinvite(m) \/ ReinviteAsNew(m)
  PROVE  Sides
  <1>1. gw \in SipCall /\ gw.st \in CallState /\ Ended(gw).st = "terminated" BY ClientTypes, EndedFrame
  <1>2. ASSUME NEW k, Arrives(m, k)
        PROVE  m.r \in PbxRequests /\ m.r.kind = k /\ Asked(m.r) /\ cache[m.r] = "none"
    BY <1>2, NetNames, PbxTypes DEF Arrives, Asked
  <1>3. CASE Repeated(m) BY <1>3, GwSides DEF Repeated, GwMoves
  <1>4. CASE HandleNewInvite(m)
    <2>1. m.r \in PbxRequests /\ m.r.kind = "invite" /\ Asked(m.r) /\ cache[m.r] = "none" BY <1>2, <1>4 DEF HandleNewInvite
    <2>2. dir = "in" /\ gw.st = "none" BY <2>1, Callee, PbxNames
    <2>3. UNCHANGED <<scene, pbx>> /\ dir' = dir BY <1>4 DEF HandleNewInvite, dir
    <2>4. PICK c \in {"trying", "refused"} : cache' = [cache EXCEPT ![m.r] = c] BY <1>4 DEF HandleNewInvite, RespondTo
    <2>5. cache'[PInvite] = "ok" <=> cache[PInvite] = "ok" BY <2>1, <2>4, SameAcceptance
    <2>6. gw'.st \in {"none", "new"} BY <1>1, <1>4, <2>2 DEF HandleNewInvite, SipCall
    <2>7. PbxSide' = PbxSide /\ (Accepted' <=> Accepted) BY <2>3, <2>5 DEF PbxSide, Accepted
    <2>8. GwSide = "idle" /\ GwSide' \in {"idle", "trying"} BY <2>2, <2>6 DEF GwSide
    <2> QED BY <2>2, <2>3, <2>7, <2>8 DEF Sides
  <1>5. CASE HandleAck(m) BY <1>5, HandleAckKeeps, GwSides DEF HandleAck, GwMoves
  <1>6. CASE HandleCancel(m)
    <2>1. m.r \in PbxRequests /\ m.r.kind = "cancel" /\ Asked(m.r) /\ cache[m.r] = "none" BY <1>2, <1>6 DEF HandleCancel
    <2>2. m.r # PInvite BY <2>1, PbxNames
    <2>3. UNCHANGED <<scene, pbx>> BY <1>6 DEF HandleCancel
    <2>4. CASE gw.st \in {"new", "ringing"}
      <3>1. cache' = [cache EXCEPT ![m.r] = "ok", ![PInvite] = "cancelled"] /\ gw' = Ended(gw) BY <1>6, <2>4 DEF HandleCancel
      <3>2. cache'[PInvite] = "cancelled" BY <3>1, PbxTypes, PbxNames
      <3>3. dir = "in" BY <2>1, PbxNames DEF DialogInv, AskInv, MayAsk
      <3>4. cache[PInvite] # "ok" BY <2>4, <3>3, Callee, Codes
      <3> QED BY <1>1, <2>3, <3>1, <3>2, <3>4, GwSides DEF GwMoves
    <2>5. CASE gw.st \notin {"new", "ringing"}
      <3>1. cache' = [cache EXCEPT ![m.r] = "refused"] /\ gw' = gw BY <1>6, <2>5 DEF HandleCancel, RespondTo
      <3>2. cache'[PInvite] = "ok" <=> cache[PInvite] = "ok" BY <2>1, <2>2, <3>1, SameAcceptance
      <3> QED BY <2>3, <3>1, <3>2, GwSides DEF GwMoves
    <2> QED BY <2>4, <2>5
  <1>7. CASE HandleBye(m)
    <2>1. m.r \in PbxRequests /\ m.r.kind = "bye" /\ cache[m.r] = "none" BY <1>2, <1>7 DEF HandleBye
    <2>2. m.r # PInvite BY <2>1, PbxNames
    <2>3. PICK c \in {"refused", "ok"} : cache' = [cache EXCEPT ![m.r] = c] BY <1>7 DEF HandleBye, RespondTo
    <2>4. cache'[PInvite] = "ok" <=> cache[PInvite] = "ok" BY <2>1, <2>2, <2>3, SameAcceptance
    <2> QED BY <1>1, <1>7, <2>4, GwSides DEF HandleBye, GwMoves
  <1>8. CASE HandleReinvite(m) \/ ReinviteAsNew(m)
    <2>1. m.r \in PbxRequests /\ m.r.kind = "re" /\ cache[m.r] = "none" BY <1>2, <1>8 DEF HandleReinvite, ReinviteAsNew
    <2>2. m.r # PInvite BY <2>1, PbxNames
    <2>3. PICK c \in {"pending", "ok", "trying"} : cache' = [cache EXCEPT ![m.r] = c]
      BY <1>8 DEF HandleReinvite, ReinviteAsNew, RespondTo
    <2>4. cache'[PInvite] = "ok" <=> cache[PInvite] = "ok" BY <2>1, <2>2, <2>3, SameAcceptance
    <2> QED BY <1>8, <2>4, GwSides DEF HandleReinvite, ReinviteAsNew, GwMoves
  <1> QED BY <1>3, <1>4, <1>5, <1>6, <1>7, <1>8

\* The PBX goes on with its call or leaves, and accepts nothing.
LEMMA PbxSides ==
  ASSUME DialogInv, UNCHANGED mine, \A r \in GwInvites : pbx'.resp[r] = "ok" <=> pbx.resp[r] = "ok",
         PbxSide' \in {PbxSide, "down"} \/ (PbxSide = "idle" /\ PbxSide' = "trying")
  PROVE  Sides
  BY DEF mine, dir, GwSide, Accepted, Sides

LEMMA PbxIsAskedSides ==
  ASSUME DialogInv, NEW m \in net, PbxIsAsked(m)
  PROVE  Sides
  <1>1. m.r \in GwRequests BY NetNames, PbxTypes DEF PbxIsAsked
  <1>2. pbx \in Pbx /\ pbx.resp \in [GwRequests -> Response \cup {"none"}] BY PbxTypes
  <1>3. CASE UNCHANGED <<mine, pbx>>
    <2>1. PbxSide' = PbxSide BY <1>3 DEF PbxSide
    <2> QED BY <1>3, <2>1, PbxSides
  <1>4. CASE pbx.resp[m.r] = "none" /\ PbxInvited(m)
    <2>1. m.r \in GwInvites BY <1>4 DEF PbxInvited
    <2>2. PICK c \in {"challenge", "trying"}, st \in {pbx.st, "trying"} :
            /\ pbx'.resp = [pbx.resp EXCEPT ![m.r] = c] /\ pbx'.st = st /\ UNCHANGED mine
            /\ st = pbx.st \/ pbx.st = "idle"
      BY <1>2, <1>4 DEF PbxInvited, PAnswers, Pbx
    <2>3. \A r \in GwInvites : pbx'.resp[r] = "ok" <=> pbx.resp[r] = "ok" BY <1>1, <1>2, <1>4, <2>2, GwNames
    <2>4. PbxSide' = PbxSide \/ (PbxSide = "idle" /\ PbxSide' = "trying") BY <2>2 DEF PbxSide
    <2> QED BY <2>2, <2>3, <2>4, PbxSides
  <1>5. CASE pbx.resp[m.r] = "none" /\ PbxCancelled(m)
    <2> DEFINE inv == Branch(m.r)
    <2>1. inv \in GwInvites /\ m.r \notin GwInvites BY <1>1, <1>5, GwNames DEF PbxCancelled
    <2>2. CASE pbx.resp[inv] \in Provisional
      <3>1. /\ pbx' = [pbx EXCEPT !.st = "down", !.resp[m.r] = "ok", !.resp[inv] = "cancelled", !.unacked = @ \cup {inv}]
            /\ UNCHANGED mine
        BY <1>5, <2>2 DEF PbxCancelled
      <3> HIDE DEF inv
      <3>2. pbx'.st = "down" /\ pbx'.resp = [pbx.resp EXCEPT ![m.r] = "ok", ![inv] = "cancelled"] BY <1>2, <3>1 DEF Pbx
      <3>3. pbx.resp[inv] # "ok" BY <2>2, Codes
      <3>4. \A r \in GwInvites : pbx'.resp[r] = "ok" <=> pbx.resp[r] = "ok" BY <1>1, <1>2, <2>1, <3>2, <3>3, GwNames
      <3>5. PbxSide' = "down" BY <3>2 DEF PbxSide
      <3> QED BY <3>1, <3>4, <3>5, PbxSides
    <2>3. CASE pbx.resp[inv] \notin Provisional
      <3>1. PAnswers({m}, m.r, "ok", pbx) BY <1>5, <2>3 DEF PbxCancelled
      <3>2. pbx'.st = pbx.st /\ pbx'.resp = [pbx.resp EXCEPT ![m.r] = "ok"] /\ UNCHANGED mine
        BY <1>2, <3>1 DEF PAnswers, Pbx
      <3>3. \A r \in GwInvites : pbx'.resp[r] = pbx.resp[r] BY <1>1, <1>2, <2>1, <3>2, GwNames
      <3>4. PbxSide' = PbxSide BY <3>2 DEF PbxSide
      <3> QED BY <3>2, <3>3, <3>4, PbxSides
    <2> QED BY <2>2, <2>3
  <1>6. CASE pbx.resp[m.r] = "none" /\ PbxByed(m)
    <2>1. m.r = Bye /\ Bye \notin GwInvites BY <1>6, GwNames DEF PbxByed
    <2>2. PICK g \in {[pbx EXCEPT !.st = "down", !.unacked = {}, !.open = {}], pbx} : PAnswers({m}, m.r, "ok", g)
      BY <1>6 DEF PbxByed
    <2>3. g.resp = pbx.resp /\ g.st \in {pbx.st, "down"} /\ g = [st |-> g.st, resp |-> pbx.resp, unacked |-> g.unacked,
             open |-> g.open, held |-> pbx.held, rn |-> pbx.rn]
      <3> DEFINE q == [pbx EXCEPT !.st = "down", !.unacked = {}]
      <3>1. q = [st |-> "down", resp |-> pbx.resp, unacked |-> {}, open |-> pbx.open, held |-> pbx.held, rn |-> pbx.rn]
        BY <1>2, PbxRecord
      <3>2. g = pbx \/ g = [q EXCEPT !.open = {}] BY <2>2
      <3>3. pbx = [st |-> pbx.st, resp |-> pbx.resp, unacked |-> pbx.unacked, open |-> pbx.open, held |-> pbx.held, rn |-> pbx.rn]
        BY <1>2 DEF Pbx
      <3> HIDE DEF q
      <3> QED BY <3>1, <3>2, <3>3
    <2>4. pbx'.st = g.st /\ pbx'.resp = [pbx.resp EXCEPT ![m.r] = "ok"] /\ UNCHANGED mine
      BY <2>2, <2>3 DEF PAnswers
    <2>5. \A r \in GwInvites : pbx'.resp[r] = pbx.resp[r] BY <1>1, <1>2, <2>1, <2>4, GwNames
    <2>6. PbxSide' \in {PbxSide, "down"} BY <2>3, <2>4 DEF PbxSide
    <2> QED BY <2>4, <2>5, <2>6, PbxSides
  <1>7. CASE pbx.resp[m.r] = "none" /\ PbxReinvited(m)
    <2>1. m.r.kind = "re" /\ m.r \notin GwInvites BY <1>7, GwNames DEF PbxReinvited
    <2>2. PICK g \in {[pbx EXCEPT !.held = m.hold], pbx}, c \in {"ok", "pending", "refused"} : PAnswers({m}, m.r, c, g)
      BY <1>7 DEF PbxReinvited
    <2>3. g \in Pbx /\ g.resp = pbx.resp /\ g.st = pbx.st BY <1>2, <2>2, NetNames, PbxTypes DEF Pbx
    <2>4. pbx'.st = g.st /\ pbx'.resp = [pbx.resp EXCEPT ![m.r] = c] /\ UNCHANGED mine
      BY <2>2, <2>3 DEF PAnswers, Pbx
    <2>5. \A r \in GwInvites : pbx'.resp[r] = pbx.resp[r] BY <1>1, <1>2, <2>1, <2>4, GwNames
    <2>6. PbxSide' = PbxSide BY <2>3, <2>4 DEF PbxSide
    <2> QED BY <2>4, <2>5, <2>6, PbxSides
  <1> QED BY <1>3, <1>4, <1>5, <1>6, <1>7 DEF PbxIsAsked

LEMMA DeliverySides ==
  ASSUME DialogInv, Delivery
  PROVE  Sides
  <1>1. PICK m \in net :
          \/ HandleResponse(m) \/ Repeated(m) \/ HandleNewInvite(m) \/ HandleAck(m) \/ HandleCancel(m)
          \/ HandleBye(m) \/ HandleReinvite(m) \/ ReinviteAsNew(m)
          \/ PbxHears(m) \/ PbxIsAsked(m) \/ PbxAcked(m)
    BY DEF Delivery
  <1>2. CASE HandleResponse(m)
    <2>1. m.r \in GwRequests /\ UNCHANGED <<scene, last, table, cache, pbx, gaveUp>> BY <1>2, HandleResponseKeeps DEF HandleResponse
    <2>2. gw.flow = "wait" => gw.st \in Setup \cup {"terminated"} BY DEF DialogInv, FlowInv, Setup
    <2>3. GwMoves
      <3>1. CASE StrayResponse(m) BY <3>1 DEF StrayResponse, GwMoves
      <3>2. CASE ProvisionalResponse(m) BY <2>1, <2>2, <3>2, ProvisionalKeeps DEF GwMoves, Setup
      <3>3. CASE FinalResponse(m) BY <3>3 DEF FinalResponse, GwMoves
      <3> QED BY <1>2, <3>1, <3>2, <3>3 DEF HandleResponse
    <2> QED BY <2>1, <2>3, GwSides
  <1>3. CASE \/ Repeated(m) \/ HandleNewInvite(m) \/ HandleAck(m) \/ HandleCancel(m)
             \/ HandleBye(m) \/ HandleReinvite(m) \/ ReinviteAsNew(m)
    BY <1>3, ServerSides
  <1>4. CASE PbxHears(m)
    <2>1. /\ UNCHANGED mine /\ pbx'.resp = pbx.resp /\ m.r.by = "pbx" /\ m.what \in Response BY <1>4, PbxHearsFrame
    <2>2. /\ (m.what \in Final => cache[m.r] = m.what) /\ (m.r = PInvite => dir = "in")
      BY <2>1, Heard
    <2>3. CASE m.r = PInvite /\ m.what = "ok" /\ pbx.st \in {"calling", "proceeding"} /\ pbx'.st = "up"
      <3>1. dir = "in" /\ dir' = dir /\ Accepted /\ Accepted' BY <2>1, <2>2, <2>3, Codes DEF dir, mine, Accepted
      <3>2. GwSide' = GwSide BY <2>1 DEF mine, GwSide
      <3>3. PbxSide = "trying" /\ PbxSide' = "up" BY <2>3 DEF PbxSide
      <3> QED BY <3>1, <3>2, <3>3 DEF Sides
    <2>4. CASE ~(m.r = PInvite /\ m.what = "ok" /\ pbx.st \in {"calling", "proceeding"} /\ pbx'.st = "up")
      <3>1. \/ pbx.st = "cancelling" /\ pbx'.st = "ending"
            \/ pbx.st = "calling" /\ pbx'.st = "proceeding"
            \/ pbx'.st \in {pbx.st, "down"}
        BY <1>4, <2>4, PbxHearsFrame
      <3>2. PbxSide' \in {PbxSide, "down"} BY <3>1 DEF PbxSide
      <3> QED BY <2>1, <3>2, PbxSides
    <2> QED BY <2>3, <2>4
  <1>5. CASE PbxIsAsked(m) BY <1>5, PbxIsAskedSides
  <1>6. CASE PbxAcked(m)
    <2>1. pbx'.st = pbx.st /\ pbx'.resp = pbx.resp /\ UNCHANGED mine BY <1>6, PbxTypes DEF PbxAcked, Pbx
    <2>2. PbxSide' = PbxSide BY <2>1 DEF PbxSide
    <2> QED BY <2>1, <2>2, PbxSides
  <1> QED BY <1>1, <1>2, <1>3, <1>4, <1>5, <1>6

LEMMA PeerSides ==
  ASSUME DialogInv, Peer \/ Lose
  PROVE  Sides
  <1>1. CASE PbxCalls \/ PbxCancels \/ PbxHangsUp \/ PbxReinvites \/ PbxGivesUpCall \/ \E r \in GwRequests : PbxMissesAck(r)
    <2>1. pbx'.resp = pbx.resp /\ UNCHANGED mine
      BY <1>1, PbxTypes DEF PbxCalls, PbxCancels, PbxHangsUp, PbxReinvites, PbxGivesUpCall, PbxMissesAck, PAsk, Pbx
    <2>2. \/ pbx.st = "idle" /\ pbx'.st = "calling"
          \/ pbx.st = "proceeding" /\ pbx'.st = "cancelling"
          \/ pbx.st = "up" /\ pbx'.st = "ending"
          \/ pbx'.st \in {pbx.st, "down"}
      BY <1>1, PbxTypes DEF PbxCalls, PbxCancels, PbxHangsUp, PbxReinvites, PbxGivesUpCall, PbxMissesAck, PAsk, Pbx
    <2>3. PbxSide' \in {PbxSide, "down"} \/ (PbxSide = "idle" /\ PbxSide' = "trying") BY <2>2 DEF PbxSide
    <2> QED BY <2>1, <2>3, PbxSides
  <1>2. CASE PbxRepeats \/ PbxRepeatsFinal \/ Lose
    <2>1. UNCHANGED <<mine, pbx>> BY <1>2, PbxStaysKeeps
    <2>2. PbxSide' = PbxSide BY <2>1 DEF PbxSide
    <2> QED BY <2>1, <2>2, PbxSides
  <1>3. CASE (\E c \in {"ringing", "early"} : PbxRings(c)) \/ PbxPicksUp \/ PbxRefuses
    <2> DEFINE s == Serving
    <2>1. pbx.st \in {"trying", "ringing"} BY <1>3 DEF PbxRings, PbxPicksUp, PbxRefuses
    <2>2. pbx.resp[s] # "ok" BY <2>1, Served, Codes
    <2>3. /\ UNCHANGED mine /\ s \in GwInvites /\ dir = "out"
          /\ \A q \in GwRequests \ {s} : pbx'.resp[q] = pbx.resp[q]
          /\ \/ pbx'.st = "ringing" /\ pbx'.resp[s] \in Provisional
             \/ pbx'.st = "up" /\ pbx'.resp[s] = "ok"
             \/ pbx'.st = "down" /\ pbx'.resp[s] = "refused"
      BY <1>3, PbxServesKeeps
    <2> HIDE DEF s
    <2>4. CASE pbx'.st = "up" /\ pbx'.resp[s] = "ok"
      <3>1. dir' = dir /\ GwSide' = GwSide BY <2>3 DEF mine, dir, GwSide
      <3>2. PbxSide = "trying" /\ PbxSide' = "up" BY <2>1, <2>4 DEF PbxSide
      <3>3. Accepted' BY <2>3, <2>4, <3>1 DEF Accepted
      <3> QED BY <2>3, <3>1, <3>2, <3>3 DEF Sides
    <2>5. CASE pbx'.st \in {"ringing", "down"} /\ pbx'.resp[s] # "ok"
      <3>1. \A r \in GwInvites : pbx'.resp[r] = "ok" <=> pbx.resp[r] = "ok" BY <2>2, <2>3, <2>5, GwNames
      <3>2. PbxSide' \in {PbxSide, "down"} BY <2>1, <2>5 DEF PbxSide
      <3> QED BY <2>3, <3>1, <3>2, PbxSides
    <2> QED BY <2>3, <2>4, <2>5, Codes
  <1> QED BY <1>1, <1>2, <1>3 DEF Peer

\* The dialog is a session: nobody is up before the callee has accepted, the
\* callee accepts once, and who has left stays away, whatever of _invite_flow,
\* hangup, answer and the handlers crosses what on the wire.
THEOREM ImplementsSession == Spec => SessionSpec
  <1>1. Init => Session!SessionInit
    <2> SUFFICES ASSUME Init PROVE Session!SessionInit OBVIOUS
    <2>1. DialogInv /\ dir \in {"out", "in"} BY InitDialog, Callee
    <2>2. /\ pbx.st = "idle" /\ (dir = "out" => gw.st = "new") /\ (dir = "in" => gw.st = "none")
          /\ \A r \in GwRequests : pbx.resp[r] = "none"
          /\ \A r \in PbxRequests : cache[r] = "none"
      BY DEF Init
    <2>3. (\A r \in GwInvites : pbx.resp[r] # "ok") /\ cache[PInvite] # "ok" BY <2>2, GwNames, PbxNames
    <2>4. PbxSide = "idle" /\ (dir = "out" => GwSide = "trying") /\ (dir = "in" => GwSide = "idle")
      BY <2>2 DEF PbxSide, GwSide
    <2> QED BY <2>1, <2>3, <2>4 DEF Session!SessionInit
  <1>2. DialogInv /\ [Next]_vars => [Session!SessionNext]_SessionVars
    <2> SUFFICES ASSUME DialogInv, [Next]_vars PROVE [Session!SessionNext]_SessionVars OBVIOUS
    <2>1. CASE Gateway BY <2>1, GatewaySides, SidesStep
    <2>2. CASE Delivery BY <2>2, DeliverySides, SidesStep
    <2>3. CASE Peer \/ Lose BY <2>3, PeerSides, SidesStep
    <2>4. CASE UNCHANGED vars BY <2>4 DEF vars, SessionVars, dir, GwSide, PbxSide
    <2> QED BY <2>1, <2>2, <2>3, <2>4 DEF Next, Over
  <1> QED BY <1>1, <1>2, DialogHolds, PTL DEF Spec, SessionSpec, Session!SessionSpec, SessionVars

-----------------------------------------------------------------------------
(* The two ends agree *)

\* What a step of a coroutine or of a client transaction does to the agreement.
ClientMoves ==
    /\ UNCHANGED <<scene, cache, pbx>>
    /\ gaveUp => gaveUp'
    /\ \A r \in GwInvites : fut[r] = "over" => fut'[r] = "over"
    /\ fut[Bye] # "none" => fut'[Bye] # "none"
    /\ fut'[Bye] = "over" => fut[Bye] \in Final \cup {"over"} \/ gaveUp'
    /\ gw.st = "connected" => gw'.st = "connected" \/ (gw'.st = "terminated" /\ fut'[Bye] = "open")
    /\ gw.st = "terminated" => gw'.st = "terminated"
    /\ dir = "in" => gw'.st = gw.st \/ gw.st = "connected"
    /\ dir = "in" /\ gw'.st = "connected" /\ last.timer => last'.timer
    /\ \A m \in net' : m \in net \/
        (m.r \in GwRequests /\ (m.what = "ack" /\ m.r \in GwInvites /\ pbx.resp[m.r] = "ok" => Followed(m.r)'))

\* A BYE that is not being sent has been answered, or was given up.
LEMMA ByeSettled ==
  ASSUME DialogInv, AgreeInv, pbx.st \notin {"ending", "down"}, ~gaveUp
  PROVE  fut[Bye] \in {"none", "open"}
  <1>1. Bye \in GwRequests /\ Bye.kind # "cancel" BY GwNames
  <1>2. fut[Bye] \in {"none", "open", "over"} \cup Final BY <1>1, PbxTypes
  <1>3. fut[Bye] \notin Final BY <1>1, Codes DEF DialogInv, RespInv
  <1>4. fut[Bye] # "over" BY DEF AgreeInv
  <1> QED BY <1>2, <1>3, <1>4

\* A 200 that the PBX stands on is not ACKed yet while the call is set up.
LEMMA StillUnacked ==
  ASSUME DialogInv, AgreeInv, dir = "out", pbx.st = "up", ~gaveUp, gw.st # "connected", fut[Bye] = "none"
  PROVE  \E r \in GwInvites : pbx.resp[r] = "ok" /\ r \in pbx.unacked
  <1>1. PICK r \in GwInvites : pbx.resp[r] = "ok" BY DEF DialogInv, CalledInv
  <1>2. ~Followed(r) BY DEF Followed
  <1> QED BY <1>1, <1>2 DEF AgreeInv

LEMMA ClientAgrees ==
  ASSUME DialogInv, AgreeInv, DialogInv', ClientMoves
  PROVE  AgreeInv'
  <1>1. scene' = scene /\ dir' = dir /\ cache' = cache /\ pbx' = pbx BY DEF ClientMoves, dir
  <1>2. Bye \in GwRequests /\ Bye.kind # "cancel" BY GwNames
  <1>3. ASSUME NEW r \in GwInvites, Followed(r) PROVE Followed(r)'
    BY <1>3, Codes DEF Followed, ClientMoves
  <1>4. \A r \in GwInvites : pbx'.resp[r] = "ok" /\ pbx'.st = "up" => r \in pbx'.unacked \/ Followed(r)'
    BY <1>1, <1>3 DEF AgreeInv
  <1>5. \A m \in net' : m.what = "ack" /\ m.r \in GwInvites /\ pbx'.resp[m.r] = "ok" /\ pbx'.st = "up" => Followed(m.r)'
    BY <1>1, <1>3 DEF AgreeInv, ClientMoves
  <1>6. fut'[Bye] = "over" => gaveUp' \/ pbx'.st \in {"ending", "down"}
    <2>1. fut[Bye] \in Final => pbx.st \in {"ending", "down"} BY <1>2, Codes DEF DialogInv, RespInv
    <2> QED BY <1>1, <2>1 DEF AgreeInv, ClientMoves
  <1>7. pbx.st \notin {"ending", "down"} /\ ~gaveUp' /\ fut[Bye] # "none" => fut'[Bye] = "open"
    <2> SUFFICES ASSUME pbx.st \notin {"ending", "down"}, ~gaveUp', fut[Bye] # "none" PROVE fut'[Bye] = "open" OBVIOUS
    <2>1. fut'[Bye] # "none" /\ fut'[Bye] # "over" BY <1>1, <1>6 DEF ClientMoves
    <2>2. fut'[Bye] \notin Final BY <1>1, <1>2, Codes DEF DialogInv, RespInv
    <2>3. fut'[Bye] \in {"none", "open", "over"} \cup Final BY <1>2 DEF DialogInv, TypeOK
    <2> QED BY <2>1, <2>2, <2>3
  <1>8. dir' = "out" /\ pbx'.st = "up" /\ gw'.st = "terminated" /\ ~gaveUp' =>
           ByeUnderWay' \/ \E r \in GwInvites : pbx'.resp[r] = "ok" /\ r \in pbx'.unacked
    <2> SUFFICES ASSUME dir = "out", pbx.st = "up", gw'.st = "terminated", ~gaveUp', fut'[Bye] # "open"
                 PROVE  \E r \in GwInvites : pbx.resp[r] = "ok" /\ r \in pbx.unacked
      BY <1>1 DEF ByeUnderWay
    <2>1. ~gaveUp BY DEF ClientMoves
    <2>2. fut[Bye] = "none" BY <1>7
    <2>3. gw.st # "connected" BY <1>7, <2>2 DEF ClientMoves
    <2> QED BY <2>1, <2>2, <2>3, StillUnacked
  <1>9. dir' = "in" /\ cache'[PInvite] = "ok" /\ pbx'.st \in {"calling", "proceeding", "up"}
           /\ gw'.st = "terminated" /\ ~gaveUp' => ByeUnderWay'
    <2> SUFFICES ASSUME dir = "in", cache[PInvite] = "ok", pbx.st \in {"calling", "proceeding", "up"},
                        gw'.st = "terminated", ~gaveUp'
                 PROVE  fut'[Bye] = "open"
      BY <1>1 DEF ByeUnderWay
    <2>1. ~gaveUp BY DEF ClientMoves
    <2>2. CASE gw.st = "connected" BY <2>2 DEF ClientMoves
    <2>3. CASE gw.st = "terminated" BY <1>7, <2>1, <2>3 DEF AgreeInv, ByeUnderWay
    <2> QED BY <2>2, <2>3 DEF ClientMoves
  <1>10. \A r \in GwInvites : pbx'.resp[r] = "ok" => pbx'.st = "up" \/ PBye \in pbx'.open \/ gw'.st = "terminated"
    BY <1>1 DEF AgreeInv, ClientMoves
  <1>11. \A m \in net' : m.r \in PbxRequests => m \in net BY Apart DEF ClientMoves
  <1>12. dir' = "in" /\ gw'.st = "connected" =>
            \/ pbx'.st = "up" \/ PBye \in pbx'.open
            \/ last'.timer /\ pbx'.st \notin {"up", "ending"} /\ \A m \in net' : m.what = "ack" => m.r \notin PbxRequests
    <2> SUFFICES ASSUME dir = "in", gw'.st = "connected", pbx.st # "up", PBye \notin pbx.open
                 PROVE  last'.timer /\ pbx.st \notin {"up", "ending"} /\ \A m \in net' : m.what = "ack" => m.r \notin PbxRequests
      BY <1>1
    <2>1. gw.st = "connected" BY DEF ClientMoves
    <2>2. last.timer /\ pbx.st \notin {"up", "ending"} /\ \A m \in net : m.what = "ack" => m.r \notin PbxRequests
      BY <2>1 DEF AgreeInv
    <2> QED BY <1>11, <2>2 DEF ClientMoves
  <1>13. \A m \in net' : m.what = "ack" /\ m.r \in PbxRequests => IsInvite(m.r) BY <1>11 DEF AgreeInv
  <1> QED BY <1>4, <1>5, <1>6, <1>8, <1>9, <1>10, <1>12, <1>13 DEF AgreeInv

\* What the answer to a request of the PBX does to it.
ServerMoves ==
    /\ UNCHANGED <<scene, fut, pbx, gaveUp>>
    /\ gw.st = "connected" => gw'.st = "connected" \/ pbx.st \in {"ending", "down"}
    /\ gw.st = "terminated" => gw'.st = "terminated"
    /\ gw'.st = "terminated" => \/ gw.st = "terminated" \/ pbx.st \in {"ending", "down"}
                                \/ dir = "in" /\ cache'[PInvite] # "ok"
    /\ cache'[PInvite] = "ok" => cache[PInvite] = "ok" \/ gw'.st = "connected"
    /\ dir = "in" /\ gw'.st = "connected" =>
        \/ gw.st = "connected" /\ (last.timer => last'.timer \/ \E m \in net : m.what = "ack" /\ m.r \in PbxRequests)
        \/ last'.timer /\ cache[PInvite] \in Provisional
    /\ \A m \in net' : m \in net \/ m.what \in Response

LEMMA ServerAgrees ==
  ASSUME DialogInv, AgreeInv, DialogInv', ServerMoves
  PROVE  AgreeInv'
  <1>1. scene' = scene /\ dir' = dir /\ fut' = fut /\ pbx' = pbx /\ (gaveUp' <=> gaveUp) BY DEF ServerMoves, dir
  <1>2. \A m \in net' : m.what = "ack" => m \in net BY Codes DEF ServerMoves
  <1>3. ASSUME NEW r \in GwInvites, Followed(r), pbx.st = "up" PROVE Followed(r)'
    BY <1>1, <1>3 DEF Followed, ServerMoves
  <1>4. \A r \in GwInvites : pbx'.resp[r] = "ok" /\ pbx'.st = "up" => r \in pbx'.unacked \/ Followed(r)'
    BY <1>1, <1>3 DEF AgreeInv
  <1>5. \A m \in net' : m.what = "ack" /\ m.r \in GwInvites /\ pbx'.resp[m.r] = "ok" /\ pbx'.st = "up" => Followed(m.r)'
    BY <1>1, <1>2, <1>3 DEF AgreeInv
  <1>6. fut'[Bye] = "over" => gaveUp' \/ pbx'.st \in {"ending", "down"} BY <1>1 DEF AgreeInv
  <1>7. dir \in {"out", "in"} BY Callee
  <1>8. dir' = "out" /\ pbx'.st = "up" /\ gw'.st = "terminated" /\ ~gaveUp' =>
           ByeUnderWay' \/ \E r \in GwInvites : pbx'.resp[r] = "ok" /\ r \in pbx'.unacked
    BY <1>1 DEF AgreeInv, ServerMoves, ByeUnderWay
  <1>9. dir' = "in" /\ cache'[PInvite] = "ok" /\ pbx'.st \in {"calling", "proceeding", "up"}
           /\ gw'.st = "terminated" /\ ~gaveUp' => ByeUnderWay'
    BY <1>1 DEF AgreeInv, ServerMoves, ByeUnderWay
  <1>10. \A r \in GwInvites : pbx'.resp[r] = "ok" => pbx'.st = "up" \/ PBye \in pbx'.open \/ gw'.st = "terminated"
    BY <1>1 DEF AgreeInv, ServerMoves
  <1>11. dir' = "in" /\ gw'.st = "connected" =>
            \/ pbx'.st = "up" \/ PBye \in pbx'.open
            \/ last'.timer /\ pbx'.st \notin {"up", "ending"} /\ \A m \in net' : m.what = "ack" => m.r \notin PbxRequests
    <2> SUFFICES ASSUME dir = "in", gw'.st = "connected", pbx.st # "up", PBye \notin pbx.open
                 PROVE  last'.timer /\ pbx.st \notin {"up", "ending"} /\ \A m \in net : m.what = "ack" => m.r \notin PbxRequests
      BY <1>1, <1>2
    <2>1. CASE gw.st = "connected" /\ (last.timer => last'.timer \/ \E m \in net : m.what = "ack" /\ m.r \in PbxRequests)
      BY <2>1 DEF AgreeInv
    <2>2. CASE last'.timer /\ cache[PInvite] \in Provisional
      <3>1. cache[PInvite] # "ok" /\ cache[PInvite] \notin Final BY <2>2, Codes
      <3>2. pbx.st \notin {"up", "ending"} BY <3>1 DEF DialogInv, AnswerInv
      <3>3. ASSUME NEW m \in net, m.what = "ack", m.r \in PbxRequests PROVE FALSE
        <4>1. m.r.kind \in {"invite", "re"} BY <3>3 DEF AgreeInv, IsInvite
        <4>2. MayAsk(m.r) BY <3>3 DEF DialogInv, AskInv, Asked
        <4>3. m.r = PInvite BY <3>1, <3>3, <4>1, <4>2, PbxNames DEF MayAsk
        <4> QED BY <3>1, <3>3, <4>3 DEF DialogInv, NetInv, PbxDatagram
      <3> QED BY <2>2, <3>2, <3>3
    <2> QED BY <2>1, <2>2 DEF ServerMoves
  <1>12. \A m \in net' : m.what = "ack" /\ m.r \in PbxRequests => IsInvite(m.r) BY <1>2 DEF AgreeInv
  <1> QED BY <1>4, <1>5, <1>6, <1>8, <1>9, <1>10, <1>11, <1>12 DEF AgreeInv

\* What a step of the PBX or of the network does to it.
PeerMoves ==
    /\ UNCHANGED mine
    /\ Forward(pbx'.st)
    /\ \A r \in GwInvites :
        /\ pbx.resp[r] = "ok" => pbx'.resp[r] = "ok"
        /\ pbx'.resp[r] = "ok" => pbx.resp[r] = "ok" \/ (dir = "out" /\ pbx'.st = "up" /\ r \in pbx'.unacked /\ pbx.resp[r] \in Provisional)
    /\ pbx'.st = "up" => pbx.st = "up" \/ dir = "in" \/ \E r \in GwInvites : pbx.resp[r] \in Provisional /\ pbx'.resp[r] = "ok"
    /\ \A r \in GwInvites : r \in pbx.unacked /\ pbx.resp[r] = "ok" =>
        r \in pbx'.unacked \/ pbx'.st # "up" \/ \E m \in net : m.what = "ack" /\ m.r = r
    /\ dir = "in" /\ pbx'.st \in {"calling", "proceeding", "up"} => pbx.st \in {"idle", "calling", "proceeding", "up"}
    /\ pbx.st = "up" => pbx'.st = "up" \/ PBye \in pbx'.open \/ gw.st = "terminated"
    /\ PBye \in pbx.open => PBye \in pbx'.open \/ gw.st = "terminated"
    /\ dir = "in" /\ pbx.st \notin {"up", "ending"} /\ gw.st = "connected" =>
        \/ pbx'.st = "up" \/ PBye \in pbx'.open
        \/ pbx'.st \notin {"up", "ending"} /\ \A m \in net' : m.what = "ack" /\ m.r \in PbxRequests => m \in net
    /\ \A m \in net' : m \in net \/ m.what # "ack" \/ (m.r \in PbxRequests /\ IsInvite(m.r))

LEMMA PeerAgrees ==
  ASSUME DialogInv, AgreeInv, DialogInv', PeerMoves
  PROVE  AgreeInv'
  <1>1. /\ scene' = scene /\ dir' = dir /\ gw' = gw /\ fut' = fut /\ cache' = cache /\ last' = last /\ (gaveUp' <=> gaveUp)
    BY DEF PeerMoves, mine, clients, dir
  <1>2. dir \in {"out", "in"} BY Callee
  <1>3. \A r \in GwInvites : Followed(r)' <=> Followed(r) BY <1>1 DEF Followed
  <1>4. dir = "in" => \A r \in GwInvites : pbx'.resp[r] # "ok"
    <2>1. ASSUME NEW r \in GwInvites, dir = "in" PROVE pbx'.resp[r] # "ok"
      <3>1. fut[r] = "none" BY <2>1, PbxStates
      <3>2. fut'[r] = "none" /\ r \in GwRequests BY <1>1, <3>1, GwNames
      <3>3. pbx'.resp[r] = "none" BY <3>2 DEF DialogInv, RespInv
      <3> QED BY <3>3
    <2> QED BY <2>1
  <1>5. ASSUME NEW r \in GwInvites, pbx'.st = "up", pbx.resp[r] = "ok" PROVE pbx.st = "up"
    <2>1. dir = "out" BY <1>2, <1>4, <1>5 DEF PeerMoves
    <2>2. ASSUME NEW q \in GwInvites, pbx.resp[q] \in Provisional PROVE FALSE
      <3>1. q # r /\ pbx.resp[r] \notin {"none", "challenge"} BY <1>5, <2>2, Codes
      <3>2. pbx.resp[q] \in {"none", "challenge"} BY <3>1, OneServed
      <3> QED BY <2>2, <3>2 DEF Provisional
    <2> QED BY <1>5, <2>1, <2>2 DEF PeerMoves
  <1>6. ASSUME NEW m \in net, m.what = "ack", m.r \in GwInvites, pbx'.resp[m.r] = "ok", pbx'.st = "up" PROVE Followed(m.r)
    <2>1. pbx.resp[m.r] \in Final BY <1>6, GwNames DEF DialogInv, NetInv, GwDatagram
    <2>2. pbx.resp[m.r] = "ok" BY <1>6, <2>1, Codes DEF PeerMoves
    <2>3. pbx.st = "up" BY <1>5, <1>6, <2>2
    <2> QED BY <1>6, <2>2, <2>3 DEF AgreeInv
  <1>7. \A r \in GwInvites : pbx'.resp[r] = "ok" /\ pbx'.st = "up" => r \in pbx'.unacked \/ Followed(r)'
    <2> SUFFICES ASSUME NEW r \in GwInvites, pbx'.resp[r] = "ok", pbx'.st = "up", r \notin pbx'.unacked PROVE Followed(r)
      BY <1>3
    <2>1. pbx.resp[r] = "ok" BY DEF PeerMoves
    <2>2. pbx.st = "up" BY <1>5, <2>1
    <2>3. CASE r \in pbx.unacked
      <3>1. PICK m \in net : m.what = "ack" /\ m.r = r BY <2>1, <2>3 DEF PeerMoves
      <3> QED BY <1>6, <3>1
    <2> QED BY <2>1, <2>2, <2>3 DEF AgreeInv
  <1>8. \A m \in net' : m.what = "ack" /\ m.r \in GwInvites /\ pbx'.resp[m.r] = "ok" /\ pbx'.st = "up" => Followed(m.r)'
    <2> SUFFICES ASSUME NEW m \in net', m.what = "ack", m.r \in GwInvites, pbx'.resp[m.r] = "ok", pbx'.st = "up"
                 PROVE  Followed(m.r)
      BY <1>3
    <2>1. m \in net BY GwNames, Apart DEF PeerMoves
    <2> QED BY <1>6, <2>1
  <1>9. fut'[Bye] = "over" => gaveUp' \/ pbx'.st \in {"ending", "down"} BY <1>1 DEF AgreeInv, PeerMoves, Forward
  <1>10. dir' = "out" /\ pbx'.st = "up" /\ gw'.st = "terminated" /\ ~gaveUp' =>
           ByeUnderWay' \/ \E r \in GwInvites : pbx'.resp[r] = "ok" /\ r \in pbx'.unacked
    <2> SUFFICES ASSUME dir = "out", pbx'.st = "up", gw.st = "terminated", ~gaveUp, fut[Bye] # "open"
                 PROVE  \E r \in GwInvites : pbx'.resp[r] = "ok" /\ r \in pbx'.unacked
      BY <1>1 DEF ByeUnderWay
    <2>1. CASE pbx.st # "up"
      <3>1. PICK r \in GwInvites : pbx.resp[r] \in Provisional /\ pbx'.resp[r] = "ok" BY <2>1 DEF PeerMoves
      <3> QED BY <3>1, Codes DEF PeerMoves
    <2>2. CASE pbx.st = "up"
      <3>1. PICK r \in GwInvites : pbx.resp[r] = "ok" /\ r \in pbx.unacked BY <2>2 DEF AgreeInv, ByeUnderWay
      <3>2. fut[Bye] = "none" BY <2>2, ByeSettled
      <3>3. ~Followed(r) BY <3>2 DEF Followed
      <3>4. r \in pbx'.unacked
        <4> SUFFICES ASSUME r \notin pbx'.unacked PROVE FALSE OBVIOUS
        <4>1. PICK m \in net : m.what = "ack" /\ m.r = r BY <3>1 DEF PeerMoves
        <4>2. Followed(m.r) BY <1>6, <3>1, <4>1 DEF PeerMoves
        <4> QED BY <3>3, <4>1, <4>2
      <3> QED BY <3>1, <3>4 DEF PeerMoves
    <2> QED BY <2>1, <2>2
  <1>11. dir' = "in" /\ cache'[PInvite] = "ok" /\ pbx'.st \in {"calling", "proceeding", "up"}
           /\ gw'.st = "terminated" /\ ~gaveUp' => ByeUnderWay'
    <2> SUFFICES ASSUME dir = "in", cache[PInvite] = "ok", pbx'.st \in {"calling", "proceeding", "up"},
                        gw.st = "terminated", ~gaveUp
                 PROVE  fut[Bye] = "open"
      BY <1>1 DEF ByeUnderWay
    <2>1. pbx.st # "idle" BY PbxNames DEF DialogInv, AskInv, Asked, MayAsk
    <2> QED BY <2>1 DEF PeerMoves, AgreeInv, ByeUnderWay
  <1>12. \A r \in GwInvites : pbx'.resp[r] = "ok" => pbx'.st = "up" \/ PBye \in pbx'.open \/ gw'.st = "terminated"
    BY <1>1 DEF AgreeInv, PeerMoves
  <1>13. dir' = "in" /\ gw'.st = "connected" =>
            \/ pbx'.st = "up" \/ PBye \in pbx'.open
            \/ last'.timer /\ pbx'.st \notin {"up", "ending"} /\ \A m \in net' : m.what = "ack" => m.r \notin PbxRequests
    <2> SUFFICES ASSUME dir = "in", gw.st = "connected", pbx'.st # "up", PBye \notin pbx'.open
                 PROVE  last.timer /\ pbx'.st \notin {"up", "ending"} /\ \A m \in net' : m.what = "ack" => m.r \notin PbxRequests
      BY <1>1
    <2>1. pbx.st # "up" /\ PBye \notin pbx.open BY DEF PeerMoves
    <2>2. last.timer /\ pbx.st \notin {"up", "ending"} /\ \A m \in net : m.what = "ack" => m.r \notin PbxRequests
      BY <2>1 DEF AgreeInv
    <2> QED BY <2>2 DEF PeerMoves
  <1>14. \A m \in net' : m.what = "ack" /\ m.r \in PbxRequests => IsInvite(m.r) BY DEF AgreeInv, PeerMoves
  <1> QED BY <1>7, <1>8, <1>9, <1>10, <1>11, <1>12, <1>13, <1>14 DEF AgreeInv

\* The flow of a call placed: the ACK of a 200 leaves with the call up or with a BYE.
LEMMA FlowMoves ==
  ASSUME DialogInv, FlowStart \/ FlowChallenged \/ FlowFails \/ FlowUp \/ FlowTooLate
  PROVE  ClientMoves
  <1>1. UNCHANGED <<scene, cache, pbx, gaveUp>> BY DEF FlowStart, FlowChallenged, FlowFails, FlowUp, FlowTooLate
  <1>2. Bye \in GwRequests /\ Bye.kind = "bye" /\ \A r \in GwInvites : r \in GwRequests /\ r.kind = "invite" BY GwNames
  <1>3. gw \in SipCall BY ClientTypes
  <1>4. CASE FlowStart
    <2>1. Begin(Invite(1)) /\ net' = net \cup {Ask(Invite(1))} /\ gw.flow = "start"
          /\ gw'.st = (IF gw.st = "terminated" THEN "terminated" ELSE "calling")
      BY <1>3, <1>4 DEF FlowStart, Send, SipCall
    <2>2. Invite(1) \in GwRequests /\ Invite(1).kind = "invite" BY GwNames
    <2>3. dir = "out" /\ gw.st \in {"new", "terminated"} /\ fut[Bye] = "none" BY <2>1 DEF DialogInv, FlowInv, HangupInv
    <2>4. fut'[Invite(1)] = "open" /\ \A q \in GwRequests \ {Invite(1)} : fut'[q] = fut[q]
      BY <2>1, <2>2, BeginFrame, ClientTypes
    <2>5. fut[Invite(1)] # "over"
      <3>1. gw.inv = 0 /\ Invite(1).n = 1 /\ Invite(1) \in GwInvites BY <2>1, GwNames DEF DialogInv, FlowInv
      <3> QED BY <3>1 DEF DialogInv, FlowInv
    <2>6. Ask(Invite(1)).what = "request" /\ Ask(Invite(1)).r = Invite(1) BY <2>2, NewAsk
    <2> HIDE DEF Invite
    <2> QED BY <1>1, <1>2, <2>1, <2>2, <2>3, <2>4, <2>5, <2>6, Codes DEF ClientMoves
  <1>5. CASE FlowChallenged
    <2>1. ReturnThenBegin(Invite(1), Invite(2)) /\ net' = net \cup {Ask(Invite(2))} /\ FlowGets("challenge")
          /\ gw'.st = gw.st /\ gw.inv = 1
      BY <1>3, <1>5 DEF FlowChallenged, Send, SipCall
    <2>2. /\ Invite(1) \in GwRequests /\ Invite(1).kind = "invite" /\ Invite(1).n = 1
          /\ Invite(2) \in GwRequests /\ Invite(2).kind = "invite" /\ Invite(2).n = 2 /\ Invite(2) \in GwInvites
      BY GwNames
    <2>3. dir = "out" /\ gw.st # "connected" /\ fut[Bye] = "none" BY <2>1, FlowWaits, Codes
    <2>4. fut[Invite(2)] # "over" BY <2>1, <2>2 DEF DialogInv, FlowInv
    <2> HIDE DEF Invite
    <2>5. fut'[Invite(1)] = "over" /\ \A q \in GwRequests \ {Invite(1), Invite(2)} : fut'[q] = fut[q]
      BY <2>1, <2>2, ReturnThenBeginFrame, ClientTypes
    <2>6. Ask(Invite(2)).what = "request" /\ Ask(Invite(2)).r = Invite(2) BY <2>2, NewAsk
    <2> QED BY <1>1, <1>2, <2>1, <2>2, <2>3, <2>4, <2>5, <2>6, Codes DEF ClientMoves
  <1>6. CASE FlowFails
    <2>1. PICK c \in Live : FlowGets(c) BY <1>6, Codes DEF FlowFails
    <2>2. Return(Invite(gw.inv)) /\ net' = net /\ gw' = [Ended(gw) EXCEPT !.flow = "done"] BY <1>6 DEF FlowFails
    <2>3. gw'.st = "terminated" BY <1>3, <2>2, EndedFrame DEF SipCall
    <2>4. dir = "out" /\ gw.st # "connected" /\ fut[Bye] = "none" BY <2>1, FlowWaits
    <2>5. fut'[Invite(gw.inv)] = "over" /\ \A q \in GwRequests \ {Invite(gw.inv)} : fut'[q] = fut[q] /\ fut'[Bye] = "none"
      BY <2>1, <2>2, FlowEnds
    <2>6. fut'[Bye] = "none" BY <2>1, <2>2, FlowEnds
    <2> QED BY <1>1, <1>2, <2>2, <2>3, <2>4, <2>5, <2>6 DEF ClientMoves
  <1>7. CASE FlowUp
    <2> DEFINE i == Invite(gw.inv)
    <2>1. FlowGets("ok") /\ Return(i) /\ net' = net \cup {Ack(i)} /\ gw'.st = "connected" /\ gw.st # "terminated"
      BY <1>3, <1>7 DEF FlowUp, Send, SipCall
    <2>2. dir = "out" /\ fut[Bye] = "none" /\ i \in GwInvites /\ i \in GwRequests BY <2>1, FlowWaits, Codes
    <2>3. fut'[i] = "over" /\ \A q \in GwRequests \ {i} : fut'[q] = fut[q] BY <2>1, FlowEnds, Codes
    <2>4. fut'[Bye] = "none" BY <2>1, FlowEnds, Codes
    <2>5. Ack(i).what = "ack" /\ Ack(i).r = i BY <2>2, NewAck
    <2> HIDE DEF i
    <2> QED BY <1>1, <1>2, <2>1, <2>2, <2>3, <2>4, <2>5 DEF ClientMoves, Followed
  <1>8. CASE FlowTooLate
    <2> DEFINE i == Invite(gw.inv)
    <2>1. FlowGets("ok") /\ ReturnThenBegin(i, Bye) /\ net' = net \cup {Ack(i), Ask(Bye)}
          /\ gw'.st = "terminated" /\ gw.st = "terminated"
      BY <1>3, <1>8 DEF FlowTooLate, Send, SipCall
    <2>2. dir = "out" /\ fut[Bye] = "none" /\ i \in GwInvites /\ i \in GwRequests /\ i.kind = "invite" BY <2>1, FlowWaits, Codes
    <2>3. Ack(i).what = "ack" /\ Ack(i).r = i /\ Ask(Bye).what = "request" /\ Ask(Bye).r = Bye BY <1>2, <2>2, NewAck, NewAsk
    <2> HIDE DEF i
    <2>4. fut'[i] = "over" /\ fut'[Bye] = "open" /\ \A q \in GwRequests \ {i, Bye} : fut'[q] = fut[q]
      BY <1>2, <2>1, <2>2, ReturnThenBeginFrame, ClientTypes
    <2> QED BY <1>1, <1>2, <2>1, <2>2, <2>3, <2>4 DEF ClientMoves, Followed
  <1> QED BY <1>4, <1>5, <1>6, <1>7, <1>8

\* An end of the call: with a CANCEL, with a BYE, or before anything was sent.
LEMMA HangupMoves ==
  ASSUME DialogInv, HangupNew \/ Cancel \/ Hangup \/ NoAck
  PROVE  ClientMoves
  <1>1. UNCHANGED <<scene, cache, pbx>> BY DEF HangupNew, Cancel, Hangup, NoAck
  <1>2. gaveUp => gaveUp' BY DEF HangupNew, Cancel, Hangup, NoAck
  <1>3. gw'.st = "terminated" BY EndedFrame, ClientTypes DEF HangupNew, Cancel, Hangup, NoAck, SendBye
  <1>4. Bye \in GwRequests /\ Bye.kind = "bye" /\ \A r \in GwInvites : r \in GwRequests /\ r.kind = "invite" BY GwNames
  <1>5. CASE HangupNew
    <2>1. fut' = fut /\ net' = net /\ dir = "out" /\ gw.st = "new" BY <1>5 DEF HangupNew, clients
    <2>2. fut'[Bye] = "none" BY <2>1 DEF DialogInv, HangupInv
    <2> QED BY <1>1, <1>2, <1>3, <2>1, <2>2 DEF ClientMoves
  <1>6. CASE Cancel
    <2> DEFINE c == CancelOf(Invite(gw.inv))
    <2>1. dir = "out" /\ gw.st \in {"calling", "ringing", "early"} /\ Begin(c) /\ net' = net \cup {Ask(c)}
      BY <1>6 DEF Cancel, Send
    <2>2. gw.inv \in {1, 2} BY <2>1, ClientTypes DEF DialogInv, FlowInv
    <2>3. c \in GwRequests /\ c.kind = "cancel" BY <2>2, GwNames
    <2>4. Ask(c).what = "request" /\ Ask(c).r = c BY <2>3, NewAsk
    <2> HIDE DEF c
    <2>5. \A q \in GwRequests \ {c} : fut'[q] = fut[q] BY <2>1, <2>3, BeginFrame, ClientTypes
    <2>6. fut'[Bye] = "none" /\ fut[Bye] = "none" BY <1>4, <2>1, <2>3, <2>5 DEF DialogInv, HangupInv
    <2> QED BY <1>1, <1>2, <1>3, <1>4, <2>1, <2>3, <2>4, <2>5, <2>6 DEF ClientMoves
  <1>7. CASE Hangup \/ NoAck
    <2>1. gw.st = "connected" /\ fut'[Bye] = "open" BY <1>7, HangupKeeps
    <2>2. Begin(Bye) /\ net' = net \cup {Ask(Bye)} BY <1>7 DEF Hangup, NoAck, SendBye, Send
    <2>3. Ask(Bye).what = "request" /\ Ask(Bye).r = Bye BY <1>4, NewAsk
    <2>4. \A q \in GwRequests \ {Bye} : fut'[q] = fut[q] BY <1>4, <2>2, BeginFrame, ClientTypes
    <2> QED BY <1>1, <1>2, <1>3, <1>4, <2>1, <2>2, <2>3, <2>4 DEF ClientMoves
  <1> QED BY <1>5, <1>6, <1>7

\* A CANCEL or a BYE is answered.
LEMMA HangupReturnsMoves ==
  ASSUME DialogInv, NEW r \in GwRequests, HangupReturns(r)
  PROVE  ClientMoves
  <1>1. /\ UNCHANGED <<scene, gw, last, cache, pbx, net, gaveUp>> /\ Return(r) /\ fut[r] \in Final /\ r.kind \in {"cancel", "bye"}
    BY DEF HangupReturns
  <1>2. fut'[r] = "over" /\ \A q \in GwRequests \ {r} : fut'[q] = fut[q] BY <1>1, ReturnFrame, ClientTypes
  <1>3. Bye \in GwRequests /\ \A i \in GwInvites : i \in GwRequests /\ i.kind = "invite" BY GwNames
  <1> QED BY <1>1, <1>2, <1>3, Codes DEF ClientMoves

\* A re-INVITE does not touch the call.
LEMMA ReMoves ==
  ASSUME DialogInv, Reinvite \/ ReinviteAgain \/ ReinviteDone \/ ReinviteRefused
  PROVE  ClientMoves
  <1>1. UNCHANGED <<scene, last, cache, pbx, gaveUp>>
    BY DEF Reinvite, ReinviteAgain, SendRe, ReinviteDone, ReinviteRefused
  <1>2. gw'.st = gw.st
    <2>1. gw \in SipCall BY ClientTypes
    <2> QED BY <2>1 DEF Reinvite, ReinviteAgain, SendRe, ReinviteDone, ReinviteRefused, SipCall
  <1>3. Bye \in GwRequests /\ Bye.kind = "bye" /\ \A i \in GwInvites : i \in GwRequests /\ i.kind = "invite" BY GwNames
  <1>4. CASE Reinvite \/ ReinviteAgain
    <2> DEFINE r == Re(gw.rn + 1)
    <2>1. Begin(r) /\ net' = net \cup {Offer(r, ~gw.hold)} BY <1>4 DEF Reinvite, ReinviteAgain, SendRe, Send
    <2>2. gw.rn + 1 \in 1..MaxRe BY <1>4, ClientTypes, BoundsAssumption DEF Reinvite, ReinviteAgain, DialogInv, ReInv
    <2>3. r \in GwRequests /\ r.kind = "re" BY <2>2, GwNames
    <2> HIDE DEF r
    <2>4. \A q \in GwRequests \ {r} : fut'[q] = fut[q] BY <2>1, <2>3, BeginFrame, ClientTypes
    <2>5. Offer(r, ~gw.hold).what = "request" /\ Offer(r, ~gw.hold).r = r BY <2>3, NewOffer
    <2>6. fut'[Bye] = fut[Bye] /\ \A i \in GwInvites : fut'[i] = fut[i] BY <1>3, <2>3, <2>4
    <2> QED BY <1>1, <1>2, <2>1, <2>3, <2>5, <2>6 DEF ClientMoves
  <1>5. CASE ReinviteDone \/ ReinviteRefused
    <2> DEFINE r == Re(gw.rn)
    <2>1. Return(r) /\ net' \subseteq net \cup {Ack(r)} /\ gw.re \in {"first", "second"}
      BY <1>5 DEF ReinviteDone, ReinviteRefused, ReGets, Send
    <2>2. r \in GwRequests /\ r.kind = "re" BY <2>1, ReWaits
    <2> HIDE DEF r
    <2>3. \A q \in GwRequests \ {r} : fut'[q] = fut[q] BY <2>1, <2>2, ReturnFrame, ClientTypes
    <2>4. Ack(r).r = r BY <2>2, NewAck
    <2>5. fut'[Bye] = fut[Bye] /\ \A i \in GwInvites : fut'[i] = fut[i] BY <1>3, <2>2, <2>3
    <2>6. r \notin GwInvites BY <1>3, <2>2
    <2> QED BY <1>1, <1>2, <2>1, <2>2, <2>4, <2>5, <2>6 DEF ClientMoves
  <1> QED BY <1>4, <1>5

\* A request is given up: when it is the BYE, its copies were still being sent.
LEMMA DeadlineMoves ==
  ASSUME DialogInv, NEW r \in GwRequests, Deadline(r)
  PROVE  ClientMoves
  <1>1. fut[r] = "open" /\ net = {} /\ Return(r) /\ UNCHANGED <<scene, cache, pbx, net>> /\ gaveUp' = (gaveUp \/ r \in armed)
    BY DEF Deadline
  <1>2. fut'[r] = "over" /\ \A q \in GwRequests \ {r} : fut'[q] = fut[q] BY <1>1, ReturnFrame, ClientTypes
  <1>3. Bye \in GwRequests /\ Bye.kind = "bye" /\ \A i \in GwInvites : i \in GwRequests /\ i.kind = "invite" BY GwNames
  <1>4. r = Bye => r \in armed BY <1>1 DEF DialogInv, HangupInv
  <1>5. /\ gw.st = "connected" => gw'.st = "connected"
        /\ gw.st = "terminated" => gw'.st = "terminated"
        /\ dir = "in" => gw'.st = gw.st /\ last' = last
    <2>1. CASE r.kind = "invite"
      <3>1. r \in GwInvites /\ fut[r] \in Live BY <1>1, <2>1, GwNames, Codes
      <3>2. gw.flow = "wait" BY <3>1 DEF DialogInv, FlowInv
      <3>3. dir = "out" /\ gw.st # "connected" BY <3>2 DEF DialogInv, FlowInv
      <3>4. Ended(gw) \in SipCall /\ Ended(gw).st = "terminated" BY EndedFrame, ClientTypes
      <3>5. gw' = [Ended(gw) EXCEPT !.flow = "done"] BY <2>1 DEF Deadline
      <3>6. gw'.st = "terminated" BY <3>4, <3>5 DEF SipCall
      <3> QED BY <3>3, <3>6
    <2>2. CASE r.kind # "invite"
      <3>1. last' = last /\ (gw' = gw \/ gw' = [gw EXCEPT !.re = "idle"]) BY <2>2 DEF Deadline
      <3>2. gw'.st = gw.st BY <3>1, ClientTypes DEF SipCall
      <3> QED BY <3>1, <3>2
    <2> QED BY <2>1, <2>2
  <1> QED BY <1>1, <1>2, <1>3, <1>4, <1>5 DEF ClientMoves

LEMMA RetransmitMoves ==
  ASSUME DialogInv, NEW r \in GwRequests, Retransmit(r)
  PROVE  ClientMoves
  <1>1. UNCHANGED <<scene, gw, last, clients, cache, pbx, gaveUp>> BY RetransmitKeeps
  <1>2. PICK s \in GwRequests : net' = net \cup {Offer(s, s.kind = "re" /\ ~gw.hold)} BY RetransmitKeeps
  <1>3. (s.kind = "re" /\ ~gw.hold) \in BOOLEAN OBVIOUS
  <1>4. Offer(s, s.kind = "re" /\ ~gw.hold).what = "request" /\ Offer(s, s.kind = "re" /\ ~gw.hold).r = s
    BY <1>3, NewOffer
  <1> QED BY <1>1, <1>2, <1>4 DEF ClientMoves, clients

\* A repeated 200 is ACKed only while the call is up; a failure is never a 200 of an INVITE.
LEMMA HandleResponseMoves ==
  ASSUME DialogInv, NEW m \in net, HandleResponse(m)
  PROVE  ClientMoves
  <1>1. m.r \in GwRequests BY HandleResponseKeeps
  <1>2. UNCHANGED <<scene, last, table, cache, pbx, gaveUp>> BY DEF HandleResponse
  <1>3. Bye \in GwRequests /\ Bye.kind = "bye" /\ \A i \in GwInvites : i \in GwRequests /\ i.kind = "invite" BY GwNames
  <1>4. CASE StrayResponse(m)
    <2>1. gw' = gw /\ fut' = fut BY <1>4 DEF StrayResponse
    <2>2. \A d \in net' : d \in net \/ (d = Ack(gw.lastAck) /\ gw.lastAck # None /\ gw.st # "terminated")
      BY <1>4 DEF StrayResponse, Answers
    <2>3. ASSUME gw.lastAck \in GwInvites, gw.lastAck # None, gw.st # "terminated"
          PROVE  fut'[gw.lastAck] = "over" /\ gw'.st = "connected"
      <3>1. gw.flow = "done" BY <1>3, <2>3 DEF DialogInv, FlowInv
      <3>2. gw.st = "connected" BY <2>3, <3>1 DEF DialogInv, FlowInv
      <3>3. fut[gw.lastAck] = "over" BY <2>3 DEF DialogInv, TableInv
      <3> QED BY <2>1, <3>2, <3>3
    <2>4. gw.lastAck # None => gw.lastAck \in GwRequests BY ClientTypes DEF SipCall
    <2>5. gw.lastAck # None => Ack(gw.lastAck).r = gw.lastAck BY <2>4, NewAck
    <2>6. ASSUME NEW d \in net', d \notin net PROVE d.r \in GwRequests /\ (d.r \in GwInvites => Followed(d.r)')
      <3>1. d = Ack(gw.lastAck) /\ gw.lastAck # None /\ gw.st # "terminated" BY <2>2, <2>6
      <3>2. d.r = gw.lastAck /\ d.r \in GwRequests BY <2>4, <2>5, <3>1
      <3>3. d.r \in GwInvites => fut'[d.r] = "over" /\ gw'.st = "connected" BY <2>3, <3>1, <3>2
      <3> QED BY <3>2, <3>3 DEF Followed
    <2> QED BY <1>2, <2>1, <2>6, Codes DEF ClientMoves
  <1>5. CASE ProvisionalResponse(m)
    <2>1. /\ fut' = fut /\ net' = net \ {m}
          /\ gw'.st = gw.st \/ (gw.flow = "wait" /\ gw.st # "terminated" /\ gw'.st \in {"ringing", "early"})
      BY <1>1, <1>2, <1>5, ProvisionalKeeps
    <2>2. gw.flow = "wait" => dir = "out" /\ gw.st # "connected" BY DEF DialogInv, FlowInv
    <2> QED BY <1>2, <2>1, <2>2 DEF ClientMoves
  <1>6. CASE FinalResponse(m)
    <2>1. /\ gw' = gw
          /\ \A q \in GwRequests : fut'[q] = fut[q] \/ (fut[q] = "open" /\ fut'[q] \in Final)
          /\ \A d \in net' : d \in net \/ \E q \in GwRequests : d = Ack(q) /\ pbx.resp[q] \in Failure
      BY <1>1, <1>2, <1>6, FinalKeeps
    <2>2. ASSUME NEW d \in net', d \notin net PROVE d.r \in GwRequests /\ pbx.resp[d.r] # "ok"
      <3>1. PICK q \in GwRequests : d = Ack(q) /\ pbx.resp[q] \in Failure BY <2>1, <2>2
      <3> QED BY <3>1, NewAck, Codes
    <2>3. fut'[Bye] # "over" \/ fut[Bye] = "over" BY <1>3, <2>1, Codes
    <2>4. \A i \in GwInvites : fut[i] = "over" => fut'[i] = "over" BY <1>3, <2>1
    <2>5. fut[Bye] # "none" => fut'[Bye] # "none" BY <1>3, <2>1, Codes
    <2> QED BY <1>2, <2>1, <2>2, <2>3, <2>4, <2>5 DEF ClientMoves
  <1> QED BY <1>4, <1>5, <1>6 DEF HandleResponse

\* Answers that leave the call and the ACK timer alone.
LEMMA QuietServer ==
  ASSUME DialogInv, UNCHANGED <<scene, gw, fut, pbx, gaveUp>>, cache'[PInvite] = "ok" => cache[PInvite] = "ok",
         last.timer => last'.timer, \A d \in net' : d \in net \/ d.what \in Response
  PROVE  ServerMoves
  BY DEF ServerMoves

LEMMA RingingMoves ==
  ASSUME DialogInv, Ringing
  PROVE  ServerMoves
  <1>1. dir = "in" /\ gw.st \in {"new", "ringing"} /\ gw' = [gw EXCEPT !.st = "ringing"] /\ Respond(PInvite, "ringing", {})
        /\ UNCHANGED <<scene, last, clients, pbx, gaveUp>>
    BY DEF Ringing
  <1>2. cache[PInvite] \in Provisional BY <1>1, Callee
  <1>3. gw'.st = "ringing" BY <1>1, ReachedCall
  <1>4. cache'[PInvite] = "ringing" BY <1>1, <1>2, RespondFrame, Codes
  <1>5. \A d \in net' : d \in net \/ d.what \in Response BY NewReply, PbxNames, Codes, <1>1 DEF Respond, Send
  <1> QED BY <1>1, <1>3, <1>4, <1>5 DEF ServerMoves, clients

LEMMA AnswerMoves ==
  ASSUME DialogInv, Answer
  PROVE  ServerMoves
  <1>1. dir = "in" /\ gw.st \notin {"none", "connected", "terminated"} /\ gw' = [gw EXCEPT !.st = "connected"]
        /\ last' = [to |-> PInvite, code |-> "ok", timer |-> TRUE] /\ Respond(PInvite, "ok", {})
        /\ UNCHANGED <<scene, clients, pbx, gaveUp>>
    BY DEF Answer, SendFinal
  <1>2. cache[PInvite] \in Provisional /\ gw.st \in {"new", "ringing"} BY <1>1, Callee
  <1>3. gw'.st = "connected" /\ last'.timer BY <1>1, <1>2, ReachedCall
  <1>4. \A d \in net' : d \in net \/ d.what \in Response BY NewReply, PbxNames, Codes, <1>1 DEF Respond, Send
  <1> QED BY <1>1, <1>2, <1>3, <1>4 DEF ServerMoves, clients

LEMMA RejectMoves ==
  ASSUME DialogInv, Reject
  PROVE  ServerMoves
  <1>1. dir = "in" /\ gw.st \notin {"none", "connected", "terminated"} /\ gw' = Ended(gw) /\ Respond(PInvite, "refused", {})
        /\ UNCHANGED <<scene, clients, pbx, gaveUp>>
    BY DEF Reject
  <1>2. cache[PInvite] \in Provisional BY <1>1, Callee
  <1>3. gw'.st = "terminated" BY <1>1, EndedCall
  <1>4. cache'[PInvite] = "refused" BY <1>1, <1>2, RespondFrame, Codes
  <1>5. \A d \in net' : d \in net \/ d.what \in Response BY NewReply, PbxNames, Codes, <1>1 DEF Respond, Send
  <1> QED BY <1>1, <1>3, <1>4, <1>5 DEF ServerMoves, clients

LEMMA RetransmitFinalMoves ==
  ASSUME DialogInv, RetransmitFinal
  PROVE  ServerMoves
  <1>1. UNCHANGED <<scene, gw, last, clients, cache, pbx, gaveUp>> /\ net' = net \cup {Reply(last.to, last.code)} /\ last.timer
    BY DEF RetransmitFinal, Repeat, Send
  <1>2. last.to \in PbxRequests /\ last.code = "ok" BY <1>1 DEF DialogInv, LastInv
  <1>3. \A d \in net' : d \in net \/ d.what \in Response BY <1>1, <1>2, NewReply, Codes
  <1> QED BY <1>1, <1>3, QuietServer DEF clients

LEMMA RepeatedMoves ==
  ASSUME DialogInv, NEW m \in net, Repeated(m)
  PROVE  ServerMoves
  <1>1. UNCHANGED <<scene, gw, last, clients, cache, pbx, gaveUp>> /\ net' = (net \ {m}) \cup {Reply(m.r, cache[m.r])}
        /\ m.r.by = "pbx" /\ cache[m.r] # "none"
    BY DEF Repeated, Answers
  <1>2. m.r \in PbxRequests BY <1>1, NetNames, ClientTypes
  <1>3. cache[m.r] \in Response BY <1>1, <1>2 DEF DialogInv, TypeOK
  <1>4. \A d \in net' : d \in net \/ d.what \in Response BY <1>1, <1>2, <1>3, NewReply
  <1> QED BY <1>1, <1>4, QuietServer DEF clients

\* The first copy of a request of the PBX.
LEMMA FirstCopy ==
  ASSUME DialogInv, NEW m \in net, NEW k, Arrives(m, k)
  PROVE  /\ m.r \in PbxRequests /\ m.r.kind = k /\ Asked(m.r) /\ cache[m.r] = "none"
         /\ cache \in [PbxRequests -> Response \cup {"none"}]
  <1>1. m.r.by = "pbx" /\ m.r.kind = k /\ cache[m.r] = "none" BY DEF Arrives
  <1>2. m.r \in PbxRequests BY <1>1, NetNames, ClientTypes
  <1> QED BY <1>1, <1>2 DEF Asked, DialogInv, TypeOK

LEMMA HandleNewInviteMoves ==
  ASSUME DialogInv, NEW m \in net, HandleNewInvite(m)
  PROVE  ServerMoves
  <1>1. Arrives(m, "invite") /\ UNCHANGED <<scene, last, clients, pbx, gaveUp>> BY DEF HandleNewInvite
  <1>2. m.r = PInvite /\ Asked(PInvite) /\ cache[PInvite] = "none" /\ cache \in [PbxRequests -> Response \cup {"none"}]
    BY <1>1, FirstCopy, PbxNames
  <1>3. dir = "in" /\ gw.st = "none" BY <1>2, Callee
  <1>4. "trying" \in Response /\ "refused" \in Response /\ PInvite \in PbxRequests BY Codes, PbxNames
  <1>5. PICK c \in {"trying", "refused"} :
          cache' = [cache EXCEPT ![m.r] = c] /\ net' \subseteq net \cup {Reply(m.r, "trying"), Reply(m.r, "refused")}
    BY DEF HandleNewInvite, RespondTo, Answers
  <1>6. cache'[PInvite] = c BY <1>2, <1>4, <1>5
  <1>7. gw'.st \in {"none", "new"} BY <1>3, ClientTypes DEF HandleNewInvite, SipCall
  <1>8. \A d \in net' : d \in net \/ d.what \in Response BY <1>2, <1>4, <1>5, NewReply
  <1> QED BY <1>1, <1>3, <1>6, <1>7, <1>8 DEF ServerMoves, clients

\* An ACK that stops the timer was under way.
LEMMA HandleAckMoves ==
  ASSUME DialogInv, NEW m \in net, HandleAck(m)
  PROVE  ServerMoves
  <1>1. UNCHANGED <<scene, clients, cache, pbx, gaveUp>> /\ net' = net \ {m} /\ m.what = "ack" /\ m.r.by = "pbx"
    BY DEF HandleAck, Answers
  <1>2. gw' = gw BY HandleAckKeeps
  <1>3. m.r \in PbxRequests BY <1>1, NetNames, ClientTypes
  <1> QED BY <1>1, <1>2, <1>3 DEF ServerMoves, clients

LEMMA HandleCancelMoves ==
  ASSUME DialogInv, NEW m \in net, HandleCancel(m)
  PROVE  ServerMoves
  <1>1. Arrives(m, "cancel") /\ UNCHANGED <<scene, clients, pbx, gaveUp>> BY DEF HandleCancel
  <1>2. m.r = PCancel /\ Asked(PCancel) /\ cache \in [PbxRequests -> Response \cup {"none"}] BY <1>1, FirstCopy, PbxNames
  <1>3. PCancel \in PbxRequests /\ PInvite \in PbxRequests /\ PCancel # PInvite BY PbxNames
  <1>4. dir = "in" BY <1>2, <1>3, PbxNames DEF DialogInv, AskInv, MayAsk
  <1>5. "ok" \in Response /\ "cancelled" \in Response /\ "refused" \in Response BY Codes
  <1>6. CASE gw.st \in {"new", "ringing"}
    <2>1. /\ cache' = [cache EXCEPT ![PCancel] = "ok", ![PInvite] = "cancelled"] /\ gw' = Ended(gw)
          /\ net' \subseteq net \cup {Reply(PCancel, "ok"), Reply(PInvite, "cancelled")}
      BY <1>2, <1>6 DEF HandleCancel, Answers
    <2>2. cache'[PInvite] = "cancelled" BY <1>2, <1>3, <2>1
    <2>3. gw'.st = "terminated" BY <2>1, EndedCall
    <2>4. \A d \in net' : d \in net \/ d.what \in Response BY <1>3, <1>5, <2>1, NewReply
    <2> QED BY <1>1, <1>4, <1>6, <2>2, <2>3, <2>4 DEF ServerMoves, clients
  <1>7. CASE gw.st \notin {"new", "ringing"}
    <2>1. /\ cache' = [cache EXCEPT ![PCancel] = "refused"] /\ UNCHANGED <<gw, last>>
          /\ net' \subseteq net \cup {Reply(PCancel, "refused")}
      BY <1>2, <1>7 DEF HandleCancel, RespondTo, Answers
    <2>2. cache'[PInvite] = cache[PInvite] BY <1>2, <1>3, <2>1
    <2>3. \A d \in net' : d \in net \/ d.what \in Response BY <1>3, <1>5, <2>1, NewReply
    <2> QED BY <1>1, <2>1, <2>2, <2>3, QuietServer DEF clients
  <1> QED BY <1>6, <1>7

\* The PBX that sent a BYE has left.
LEMMA HandleByeMoves ==
  ASSUME DialogInv, NEW m \in net, HandleBye(m)
  PROVE  ServerMoves
  <1>1. Arrives(m, "bye") /\ UNCHANGED <<scene, clients, pbx, gaveUp>> /\ gw' = Ended(gw) BY DEF HandleBye
  <1>2. pbx.st \in {"ending", "down"} BY HandleByeKeeps
  <1>3. m.r = PBye /\ cache \in [PbxRequests -> Response \cup {"none"}] BY <1>1, FirstCopy, PbxNames
  <1>4. PBye \in PbxRequests /\ PInvite \in PbxRequests /\ PBye # PInvite BY PbxNames
  <1>5. PICK c \in {"refused", "ok"} : cache' = [cache EXCEPT ![PBye] = c] /\ net' \subseteq net \cup {Reply(PBye, c)}
    BY <1>3 DEF HandleBye, RespondTo, Answers
  <1>6. c \in Response BY Codes
  <1>7. cache'[PInvite] = cache[PInvite] BY <1>3, <1>4, <1>5
  <1>8. gw'.st = "terminated" BY <1>1, EndedCall
  <1>9. \A d \in net' : d \in net \/ d.what \in Response BY <1>4, <1>5, <1>6, NewReply
  <1> QED BY <1>1, <1>2, <1>7, <1>8, <1>9 DEF ServerMoves, clients

LEMMA HandleReinviteMoves ==
  ASSUME DialogInv, NEW m \in net, HandleReinvite(m) \/ ReinviteAsNew(m)
  PROVE  ServerMoves
  <1>1. Arrives(m, "re") /\ UNCHANGED <<scene, gw, clients, pbx, gaveUp>> BY DEF HandleReinvite, ReinviteAsNew
  <1>2. m.r \in PbxRequests /\ m.r.kind = "re" /\ cache \in [PbxRequests -> Response \cup {"none"}] BY <1>1, FirstCopy
  <1>3. PInvite \in PbxRequests /\ m.r # PInvite BY <1>2, PbxNames
  <1>4. PICK c \in {"pending", "ok", "trying"} : cache' = [cache EXCEPT ![m.r] = c] /\ net' \subseteq net \cup {Reply(m.r, c)}
    BY DEF HandleReinvite, ReinviteAsNew, RespondTo, Answers
  <1>5. c \in Response BY Codes
  <1>6. cache'[PInvite] = cache[PInvite] BY <1>2, <1>3, <1>4
  <1>7. last.timer => last'.timer BY DEF HandleReinvite, ReinviteAsNew, SendFinal
  <1>8. \A d \in net' : d \in net \/ d.what \in Response BY <1>2, <1>4, <1>5, NewReply
  <1> QED BY <1>1, <1>6, <1>7, <1>8, QuietServer DEF clients

\* Steps of the PBX that leave the call where it is.
LEMMA QuietPeer ==
  ASSUME DialogInv, UNCHANGED mine, pbx'.st = pbx.st, \A r \in GwInvites : pbx'.resp[r] = "ok" <=> pbx.resp[r] = "ok",
         pbx.open \subseteq pbx'.open,
         \A r \in GwInvites : r \in pbx.unacked /\ pbx.resp[r] = "ok" =>
            r \in pbx'.unacked \/ pbx.st # "up" \/ \E m \in net : m.what = "ack" /\ m.r = r,
         \A d \in net' : d \in net \/ d.what # "ack"
  PROVE  PeerMoves
  <1>1. Forward(pbx'.st) BY DEF Forward
  <1> QED BY <1>1 DEF PeerMoves

\* What an answer c of the PBX to the request r changes, when it goes to g.
Gave(r, c, g) ==
    /\ UNCHANGED mine /\ pbx'.st = g.st /\ pbx'.open = g.open /\ pbx'.held = g.held /\ pbx'.rn = g.rn
    /\ pbx'.resp[r] = c /\ \A q \in GwRequests \ {r} : pbx'.resp[q] = g.resp[q]
    /\ pbx'.unacked = (IF IsInvite(r) /\ c \in Final THEN g.unacked \cup {r} ELSE g.unacked)
    /\ \A d \in net' : d \in net \/ d.what \in Response
    /\ \A d \in net' : d \in net \/ d.what # "ack"

LEMMA PbxAnswersWhat ==
  ASSUME DialogInv, NEW r \in GwRequests, NEW c \in Response, NEW g \in Pbx, NEW ms, PAnswers(ms, r, c, g)
  PROVE  Gave(r, c, g)
  <1> DEFINE u == IF IsInvite(r) /\ c \in Final THEN g.unacked \cup {r} ELSE g.unacked
  <1>1. /\ UNCHANGED mine /\ net' = (net \ ms) \cup {Reply(r, c)}
        /\ pbx' = [g EXCEPT !.resp[r] = c, !.unacked = u]
    BY DEF PAnswers
  <1>2. u = (IF IsInvite(r) /\ c \in Final THEN g.unacked \cup {r} ELSE g.unacked) OBVIOUS
  <1> HIDE DEF u
  <1>3. pbx' = [st |-> g.st, resp |-> [g.resp EXCEPT ![r] = c], unacked |-> u, open |-> g.open, held |-> g.held, rn |-> g.rn]
    BY <1>1 DEF Pbx
  <1>4. g.resp \in [GwRequests -> Response \cup {"none"}] BY DEF Pbx
  <1>5. pbx'.resp[r] = c /\ \A q \in GwRequests \ {r} : pbx'.resp[q] = g.resp[q] BY <1>3, <1>4
  <1>6. \A d \in net' : d \in net \/ d.what \in Response BY <1>1, NewReply
  <1>7. \A d \in net' : d \in net \/ d.what # "ack" BY <1>6, Codes
  <1> QED BY <1>1, <1>2, <1>3, <1>5, <1>6, <1>7 DEF Gave

LEMMA PbxAsksMoves ==
  ASSUME DialogInv, PbxCalls \/ PbxCancels \/ PbxHangsUp \/ PbxReinvites
  PROVE  PeerMoves
  <1>1. PICK r \in {PInvite, PCancel, PBye, PRe(pbx.rn + 1)} : net' = net \cup {Ask(r)}
    BY DEF PbxCalls, PbxCancels, PbxHangsUp, PbxReinvites, PAsk, Send
  <1>2. \A q : Ask(q).what = "request" BY DEF Ask, Datagram
  <1>3. \A d \in net' : d \in net \/ d.what # "ack" BY <1>1, <1>2
  <1>4. /\ UNCHANGED mine /\ pbx'.resp = pbx.resp /\ pbx'.unacked = pbx.unacked /\ pbx.open \subseteq pbx'.open
        /\ \/ dir = "in" /\ pbx.st = "idle" /\ pbx'.st = "calling"
           \/ pbx.st = "proceeding" /\ pbx'.st = "cancelling"
           \/ pbx.st = "up" /\ pbx'.st = "ending" /\ PBye \in pbx'.open
           \/ pbx'.st = pbx.st
    BY PbxTypes DEF PbxCalls, PbxCancels, PbxHangsUp, PbxReinvites, PAsk, Pbx
  <1>5. CASE pbx'.st = pbx.st BY <1>3, <1>4, <1>5, QuietPeer
  <1>6. CASE pbx'.st # pbx.st
    <2>1. Forward(pbx'.st) BY <1>4 DEF Forward
    <2> QED BY <1>3, <1>4, <1>6, <2>1 DEF PeerMoves
  <1> QED BY <1>5, <1>6

LEMMA PbxStaysMoves ==
  ASSUME DialogInv, PbxRepeats \/ PbxRepeatsFinal \/ Lose
  PROVE  PeerMoves
  <1>1. UNCHANGED mine /\ pbx' = pbx BY PbxStaysKeeps
  <1>2. \A d \in net' : d \in net \/ d.what # "ack"
    <2>1. CASE PbxRepeats BY <2>1 DEF PbxRepeats, Repeat, Send, Ask, Datagram
    <2>2. CASE Lose BY <2>2 DEF Lose, Answers
    <2>3. CASE PbxRepeatsFinal
      <3>1. PICK r \in pbx.unacked : net' = net \cup {Reply(r, pbx.resp[r])} BY <2>3 DEF PbxRepeatsFinal, Repeat, Send
      <3>2. r \in GwRequests BY PbxTypes DEF Pbx
      <3>3. pbx.resp[r] \in Final BY <3>1, <3>2 DEF DialogInv, RespInv
      <3>4. pbx.resp[r] # "ack" BY <3>3, Codes
      <3> QED BY <3>1, <3>4 DEF Reply, Datagram
    <2> QED BY <2>1, <2>2, <2>3
  <1> QED BY <1>1, <1>2, QuietPeer

LEMMA PbxAckedMoves ==
  ASSUME DialogInv, NEW m \in net, PbxAcked(m)
  PROVE  PeerMoves
  <1>1. UNCHANGED mine /\ pbx' = [pbx EXCEPT !.unacked = @ \ {m.r}] /\ net' = net \ {m} /\ m.what = "ack"
    BY DEF PbxAcked, Answers
  <1>2. /\ pbx'.resp = pbx.resp /\ pbx'.st = pbx.st /\ pbx'.open = pbx.open /\ pbx'.unacked = pbx.unacked \ {m.r}
    BY <1>1, PbxTypes DEF Pbx
  <1> QED BY <1>1, <1>2, QuietPeer

LEMMA PbxGivesUpCallMoves ==
  ASSUME DialogInv, PbxGivesUpCall
  PROVE  PeerMoves
  <1>1. UNCHANGED mine /\ pbx' = [pbx EXCEPT !.st = "down"] /\ net' = net /\ pbx.st = "cancelling" /\ pbx.open = {}
    BY DEF PbxGivesUpCall
  <1>2. /\ pbx'.resp = pbx.resp /\ pbx'.st = "down" /\ pbx'.unacked = pbx.unacked BY <1>1, PbxTypes DEF Pbx
  <1>3. Forward(pbx'.st) BY <1>2 DEF Forward
  <1> QED BY <1>1, <1>2, <1>3 DEF PeerMoves

\* A 200 that is not ACKed in time is followed by a BYE; other final responses stand for nothing.
LEMMA PbxMissesAckMoves ==
  ASSUME DialogInv, NEW r \in GwRequests, PbxMissesAck(r)
  PROVE  PeerMoves
  <1>1. CASE pbx.resp[r] = "ok" /\ pbx.st = "up"
    <2>1. UNCHANGED mine /\ net' = net \cup {Ask(PBye)}
          /\ pbx' = [[pbx EXCEPT !.st = "ending", !.unacked = @ \ {r}] EXCEPT !.open = @ \cup {PBye}]
      BY <1>1 DEF PbxMissesAck, PAsk, Send
    <2>2. pbx'.st = "ending" /\ pbx'.resp = pbx.resp /\ pbx'.open = pbx.open \cup {PBye}
      BY <2>1, PbxTypes DEF Pbx
    <2>3. Ask(PBye).what = "request" BY DEF Ask, Datagram
    <2>4. Forward(pbx'.st) BY <2>2 DEF Forward
    <2> QED BY <1>1, <2>1, <2>2, <2>3, <2>4 DEF PeerMoves
  <1>2. CASE ~(pbx.resp[r] = "ok" /\ pbx.st = "up")
    <2>1. UNCHANGED mine /\ net' = net /\ pbx' = [pbx EXCEPT !.unacked = @ \ {r}] BY <1>2 DEF PbxMissesAck
    <2>2. pbx'.st = pbx.st /\ pbx'.resp = pbx.resp /\ pbx'.open = pbx.open /\ pbx'.unacked = pbx.unacked \ {r}
      BY <2>1, PbxTypes DEF Pbx
    <2> QED BY <1>2, <2>1, <2>2, QuietPeer
  <1> QED BY <1>1, <1>2

\* A 200 that reaches the PBX makes it up, or it hangs up at once; while the
\* call is up at the gateway, the PBX ACKs nothing without being up or hanging up.
LEMMA PbxHearsMoves ==
  ASSUME DialogInv, NEW m \in net, PbxHears(m)
  PROVE  PeerMoves
  <1>1. UNCHANGED mine /\ m.r.by = "pbx" /\ m.what \in Response /\ pbx'.resp = pbx.resp /\ pbx'.unacked = pbx.unacked
    BY PbxHearsFrame
  <1>2. /\ m.r \in PbxRequests /\ (m.what \in Final => cache[m.r] = m.what)
        /\ m.r = PInvite => dir = "in" /\ m.r.kind = "invite"
        /\ m.r = PBye => pbx.st \in {"ending", "down"} /\ gw.st = "terminated"
        /\ pbx.st # "idle"
    BY <1>1, Heard
  <1>3. PInvite # PBye /\ Ack(m.r).r = m.r /\ Ask(PBye).what = "request" BY <1>2, PbxNames, NewAck, NewAsk
  <1>4. CASE /\ m.r = PInvite /\ m.what = "ok" /\ pbx.st = "cancelling"
             /\ pbx'.st = "ending" /\ pbx'.open = (pbx.open \ {m.r}) \cup {PBye}
             /\ net' = (net \ {m}) \cup {Ack(m.r), Ask(PBye)}
    <2>1. Forward(pbx'.st) BY <1>4 DEF Forward
    <2>2. IsInvite(m.r) BY <1>2, <1>4 DEF IsInvite
    <2> QED BY <1>1, <1>2, <1>3, <1>4, <2>1, <2>2 DEF PeerMoves
  <1>5. CASE /\ pbx'.open = pbx.open \ {m.r}
             /\ net' = (net \ {m}) \cup (IF IsInvite(m.r) /\ m.what \in Final /\ pbx.st # "down" THEN {Ack(m.r)} ELSE {})
             /\ \/ m.r = PInvite /\ m.what \in Provisional /\ pbx.st = "calling" /\ pbx'.st = "proceeding"
                \/ m.r = PInvite /\ m.what = "ok" /\ pbx.st \in {"calling", "proceeding"} /\ pbx'.st = "up"
                \/ m.r = PInvite /\ m.what \in Failure /\ pbx'.st = "down"
                \/ m.r = PBye /\ pbx'.st = "down"
                \/ /\ pbx'.st = pbx.st /\ m.r # PBye
                   /\ m.r = PInvite /\ m.what = "ok" => pbx.st \notin {"calling", "proceeding", "cancelling"}
    <2>1. m.r = PInvite /\ m.what \in Failure => pbx.st \notin {"up", "ending"}
      BY <1>2, Codes DEF DialogInv, AnswerInv
    <2>2. Forward(pbx'.st) BY <1>2, <1>5, <2>1 DEF Forward
    <2>3. \A d \in net' : d \in net \/ (d = Ack(m.r) /\ IsInvite(m.r) /\ m.what \in Final /\ pbx.st # "down") BY <1>5
    <2>4. \A d \in net' : d \in net \/ d.what # "ack" \/ (d.r \in PbxRequests /\ IsInvite(d.r)) BY <1>2, <1>3, <2>3
    <2>5. PBye \in pbx.open => PBye \in pbx'.open \/ gw.st = "terminated" BY <1>2, <1>5
    <2>6. pbx.st = "up" => pbx'.st = "up" \/ gw.st = "terminated" BY <1>2, <1>5, <2>1
    <2>7. dir = "in" /\ pbx.st \notin {"up", "ending"} /\ gw.st = "connected" =>
            pbx'.st = "up" \/ (pbx'.st \notin {"up", "ending"} /\ \A d \in net' : d \in net)
      <3> SUFFICES ASSUME dir = "in", pbx.st \notin {"up", "ending"}, gw.st = "connected", pbx'.st # "up"
                   PROVE  pbx'.st # "ending" /\ \A d \in net' : d \in net
        OBVIOUS
      <3>1. cache[PInvite] = "ok" BY DEF DialogInv, AnswerInv
      <3>2. pbx'.st # "ending" BY <1>5
      <3>3. ASSUME IsInvite(m.r), m.what \in Final, pbx.st # "down" PROVE FALSE
        <4>1. m.r.kind # "re"
          <5>1. MayAsk(m.r) BY <1>2 DEF DialogInv, AskInv, Asked
          <5> QED BY <3>3, <5>1 DEF MayAsk
        <4>2. m.r = PInvite BY <1>2, <3>3, <4>1, PbxNames DEF IsInvite
        <4>3. m.what = "ok" BY <1>2, <3>1, <3>3, <4>2
        <4>4. pbx.st \notin {"calling", "proceeding", "cancelling"}
          BY <1>3, <1>5, <4>2, <4>3, Codes DEF Provisional
        <4>5. pbx.st \notin {"trying", "ringing", "idle"} BY <1>2 DEF DialogInv, AnswerInv
        <4>6. pbx.st \in PbxState BY PbxTypes
        <4> QED BY <3>3, <4>4, <4>5, <4>6 DEF PbxState
      <3> QED BY <2>3, <3>2, <3>3
    <2> QED BY <1>1, <1>2, <1>5, <2>2, <2>4, <2>5, <2>6, <2>7 DEF PeerMoves
  <1> QED BY <1>4, <1>5, PbxHearsFrame

\* A request of the gateway reaches the PBX.
LEMMA PbxIsAskedMoves ==
  ASSUME DialogInv, NEW m \in net, PbxIsAsked(m)
  PROVE  PeerMoves
  <1>1. m.r.by = "gw" /\ m.what = "request" /\ m \in net BY DEF PbxIsAsked
  <1>2. m.r \in GwRequests BY <1>1, NetNames, PbxTypes
  <1>3. fut[m.r] # "none" BY <1>2 DEF DialogInv, NetInv, GwDatagram
  <1>4. /\ pbx \in Pbx /\ "challenge" \in Response /\ "trying" \in Response /\ "ok" \in Response /\ "refused" \in Response
        /\ "pending" \in Response
    BY PbxTypes, Codes
  <1>5. \A r \in GwInvites : r \in GwRequests /\ r.kind = "invite" BY GwNames
  <1>6. CASE pbx.resp[m.r] # "none"
    <2>1. UNCHANGED mine /\ pbx' = pbx /\ net' = (net \ {m}) \cup {Reply(m.r, pbx.resp[m.r])} BY <1>6 DEF PbxIsAsked, Answers
    <2>2. pbx.resp[m.r] \in Response BY <1>2, <1>6, PbxTypes
    <2>3. \A d \in net' : d \in net \/ d.what # "ack" BY <1>2, <2>1, <2>2, NewReply, Codes
    <2> QED BY <2>1, <2>3, QuietPeer
  <1>7. CASE pbx.resp[m.r] = "none" /\ PbxInvited(m)
    <2>1. m.r \in GwInvites /\ dir = "out" BY <1>3, <1>7, PbxStates DEF PbxInvited
    <2>2. PICK c \in {"challenge", "trying"}, g \in {pbx, [pbx EXCEPT !.st = "trying"]} :
            PAnswers({m}, m.r, c, g) /\ (g = pbx \/ pbx.st = "idle")
      BY <1>7 DEF PbxInvited
    <2>3. g \in Pbx /\ g.resp = pbx.resp /\ g.unacked = pbx.unacked /\ g.open = pbx.open
          /\ (g.st = pbx.st \/ (pbx.st = "idle" /\ g.st = "trying"))
      BY <1>4, <2>2 DEF Pbx, PbxState
    <2>4. /\ UNCHANGED mine /\ pbx'.st = g.st /\ pbx'.open = g.open
          /\ pbx'.resp[m.r] = c /\ \A q \in GwRequests \ {m.r} : pbx'.resp[q] = g.resp[q]
          /\ pbx.unacked \subseteq pbx'.unacked /\ \A d \in net' : d \in net \/ d.what # "ack"
      <3>1. Gave(m.r, c, g) BY <1>2, <1>4, <2>2, <2>3, PbxAnswersWhat
      <3> QED BY <2>3, <3>1 DEF Gave
    <2>5. \A r \in GwInvites : pbx'.resp[r] = "ok" <=> pbx.resp[r] = "ok" BY <1>5, <1>7, <2>3, <2>4
    <2>6. CASE pbx'.st = pbx.st BY <2>3, <2>4, <2>5, <2>6, QuietPeer
    <2>7. CASE pbx.st = "idle" /\ pbx'.st = "trying"
      <3>1. Forward(pbx'.st) BY <2>7 DEF Forward
      <3> QED BY <2>1, <2>3, <2>4, <2>5, <2>7, <3>1 DEF PeerMoves
    <2> QED BY <2>3, <2>4, <2>6, <2>7
  <1>8. CASE pbx.resp[m.r] = "none" /\ PbxCancelled(m)
    <2> DEFINE inv == Branch(m.r)
    <2>1. m.r.kind = "cancel" /\ inv \in GwInvites /\ inv \in GwRequests /\ inv # m.r /\ m.r \notin GwInvites
      BY <1>2, <1>8, GwNames DEF PbxCancelled
    <2>2. dir = "out" BY <1>2, <1>3, <2>1, PbxStates
    <2>3. CASE pbx.resp[inv] \in Provisional
      <3>1. /\ pbx' = [pbx EXCEPT !.st = "down", !.resp[m.r] = "ok", !.resp[inv] = "cancelled", !.unacked = @ \cup {inv}]
            /\ net' = (net \ {m}) \cup {Reply(m.r, "ok"), Reply(inv, "cancelled")}
            /\ UNCHANGED mine
        BY <1>8, <2>3 DEF PbxCancelled, Answers
      <3> HIDE DEF inv
      <3>2. /\ pbx'.st = "down" /\ pbx'.open = pbx.open
            /\ pbx'.resp = [[pbx.resp EXCEPT ![m.r] = "ok"] EXCEPT ![inv] = "cancelled"]
        BY <1>4, <3>1 DEF Pbx
      <3>3. pbx.resp \in [GwRequests -> Response \cup {"none"}] BY PbxTypes
      <3>4. pbx'.resp[inv] = "cancelled" /\ \A q \in GwRequests \ {m.r, inv} : pbx'.resp[q] = pbx.resp[q]
        BY <1>2, <2>1, <3>2, <3>3
      <3>5. \A r \in GwInvites : pbx'.resp[r] = "ok" <=> pbx.resp[r] = "ok" BY <1>5, <2>1, <2>3, <3>4, Codes DEF Provisional
      <3>6. pbx.st \in {"trying", "ringing"} BY <2>1, <2>2, <2>3 DEF DialogInv, CalledInv
      <3>7. \A d \in net' : d \in net \/ d.what # "ack" BY <3>1 DEF Reply, Datagram
      <3>8. Forward(pbx'.st) BY <3>2 DEF Forward
      <3> QED BY <2>2, <3>1, <3>2, <3>5, <3>6, <3>7, <3>8 DEF PeerMoves
    <2>4. CASE pbx.resp[inv] \notin Provisional
      <3>1. PAnswers({m}, m.r, "ok", pbx) BY <1>8, <2>4 DEF PbxCancelled
      <3>2. /\ UNCHANGED mine /\ pbx'.st = pbx.st /\ pbx'.open = pbx.open
            /\ \A q \in GwRequests \ {m.r} : pbx'.resp[q] = pbx.resp[q]
            /\ pbx.unacked \subseteq pbx'.unacked /\ \A d \in net' : d \in net \/ d.what # "ack"
        <4>1. Gave(m.r, "ok", pbx) BY <1>2, <1>4, <3>1, PbxAnswersWhat
        <4> QED BY <4>1 DEF Gave
      <3> QED BY <1>5, <2>1, <3>2, QuietPeer
    <2> QED BY <2>3, <2>4
  <1>9. CASE pbx.resp[m.r] = "none" /\ PbxByed(m)
    <2>1. m.r = Bye /\ m.r \notin GwInvites /\ ~IsInvite(m.r) BY <1>9, GwNames DEF PbxByed, IsInvite
    <2>2. gw.st = "terminated" BY <1>3, <2>1 DEF DialogInv, HangupInv
    <2>3. CASE pbx.st \in {"calling", "proceeding", "cancelling", "up"}
      <3> DEFINE g == [pbx EXCEPT !.st = "down", !.unacked = {}, !.open = {}]
      <3>1. PAnswers({m}, m.r, "ok", g) BY <1>9, <2>3 DEF PbxByed
      <3>2. g = [st |-> "down", resp |-> pbx.resp, unacked |-> {}, open |-> {}, held |-> pbx.held, rn |-> pbx.rn]
        <4> DEFINE q == [pbx EXCEPT !.st = "down", !.unacked = {}]
        <4>1. q = [st |-> "down", resp |-> pbx.resp, unacked |-> {}, open |-> pbx.open, held |-> pbx.held, rn |-> pbx.rn]
          BY PbxTypes, PbxRecord
        <4>2. g = [q EXCEPT !.open = {}] OBVIOUS
        <4> HIDE DEF q, g
        <4> QED BY <4>1, <4>2
      <3> HIDE DEF g
      <3>3. g \in Pbx BY <1>4, <3>2 DEF Pbx, PbxState
      <3>4. /\ UNCHANGED mine /\ pbx'.st = "down" /\ \A q \in GwRequests \ {m.r} : pbx'.resp[q] = pbx.resp[q]
            /\ \A d \in net' : d \in net \/ d.what # "ack"
        <4>1. Gave(m.r, "ok", g) BY <1>2, <1>4, <3>1, <3>3, PbxAnswersWhat
        <4> QED BY <3>2, <4>1 DEF Gave
      <3>5. Forward(pbx'.st) BY <3>4 DEF Forward
      <3> QED BY <1>5, <2>1, <2>2, <3>4, <3>5 DEF PeerMoves
    <2>4. CASE pbx.st \notin {"calling", "proceeding", "cancelling", "up"}
      <3>1. PAnswers({m}, m.r, "ok", pbx) BY <1>9, <2>4 DEF PbxByed
      <3>2. /\ UNCHANGED mine /\ pbx'.st = pbx.st /\ pbx'.open = pbx.open
            /\ \A q \in GwRequests \ {m.r} : pbx'.resp[q] = pbx.resp[q]
            /\ pbx.unacked \subseteq pbx'.unacked /\ \A d \in net' : d \in net \/ d.what # "ack"
        <4>1. Gave(m.r, "ok", pbx) BY <1>2, <1>4, <3>1, PbxAnswersWhat
        <4> QED BY <4>1 DEF Gave
      <3> QED BY <1>5, <2>1, <3>2, QuietPeer
    <2> QED BY <2>3, <2>4
  <1>10. CASE pbx.resp[m.r] = "none" /\ PbxReinvited(m)
    <2>1. m.r.kind = "re" /\ m.r \notin GwInvites BY <1>5, <1>10 DEF PbxReinvited
    <2>2. PICK c \in {"refused", "pending", "ok"}, g \in {pbx, [pbx EXCEPT !.held = m.hold]} : PAnswers({m}, m.r, c, g)
      BY <1>10 DEF PbxReinvited
    <2>3. m.hold \in BOOLEAN BY <1>1, NetNames, PbxTypes
    <2>4. g \in Pbx /\ g.resp = pbx.resp /\ g.unacked = pbx.unacked /\ g.open = pbx.open /\ g.st = pbx.st
      BY <1>4, <2>2, <2>3 DEF Pbx
    <2>5. /\ UNCHANGED mine /\ pbx'.st = pbx.st /\ pbx'.open = pbx.open
          /\ \A q \in GwRequests \ {m.r} : pbx'.resp[q] = pbx.resp[q]
          /\ pbx.unacked \subseteq pbx'.unacked /\ \A d \in net' : d \in net \/ d.what # "ack"
      <3>1. Gave(m.r, c, g) BY <1>2, <1>4, <2>2, <2>4, PbxAnswersWhat
      <3> QED BY <2>4, <3>1 DEF Gave
    <2> QED BY <1>5, <2>1, <2>5, QuietPeer
  <1> QED BY <1>6, <1>7, <1>8, <1>9, <1>10 DEF PbxIsAsked

\* The PBX rings, picks up or refuses.
LEMMA PbxServesMoves ==
  ASSUME DialogInv, (\E c \in {"ringing", "early"} : PbxRings(c)) \/ PbxPicksUp \/ PbxRefuses
  PROVE  PeerMoves
  <1> DEFINE s == Serving
  <1>1. pbx.st \in {"trying", "ringing"} BY DEF PbxRings, PbxPicksUp, PbxRefuses
  <1>2. dir = "out" /\ s \in GwInvites /\ s \in GwRequests /\ pbx.resp[s] \in Provisional BY <1>1, Served
  <1>3. PICK c \in {"ringing", "early", "ok", "refused"}, st \in {"ringing", "up", "down"} :
          PAnswers({}, s, c, [pbx EXCEPT !.st = st]) /\ (c = "ok" <=> st = "up")
    BY DEF PbxRings, PbxPicksUp, PbxRefuses
  <1> HIDE DEF s
  <1> DEFINE g == [pbx EXCEPT !.st = st]
  <1>4. g \in Pbx /\ g.st = st /\ g.resp = pbx.resp /\ g.unacked = pbx.unacked /\ g.open = pbx.open
    BY PbxTypes DEF Pbx, PbxState
  <1>5. c \in Response /\ (c = "ok" => c \in Final) /\ PAnswers({}, s, c, g) BY <1>3, Codes
  <1> HIDE DEF g
  <1>6. /\ UNCHANGED mine /\ pbx'.st = st /\ pbx'.open = pbx.open
        /\ pbx'.resp[s] = c /\ \A q \in GwRequests \ {s} : pbx'.resp[q] = pbx.resp[q]
        /\ pbx'.unacked = (IF IsInvite(s) /\ c \in Final THEN pbx.unacked \cup {s} ELSE pbx.unacked)
        /\ \A d \in net' : d \in net \/ d.what # "ack"
    <2>1. Gave(s, c, g) BY <1>2, <1>4, <1>5, PbxAnswersWhat
    <2> QED BY <1>4, <2>1 DEF Gave
  <1>7. IsInvite(s) BY <1>2, GwNames DEF IsInvite
  <1>8. \A r \in GwInvites : pbx'.resp[r] = pbx.resp[r] \/ (r = s /\ pbx'.resp[r] = c) BY <1>2, <1>6, GwNames
  <1>9. pbx.resp[s] # "ok" BY <1>2, Codes
  <1>10. Forward(pbx'.st) BY <1>1, <1>6 DEF Forward
  <1> QED BY <1>1, <1>2, <1>3, <1>5, <1>6, <1>7, <1>8, <1>9, <1>10 DEF PeerMoves

LEMMA InitAgrees ==
  ASSUME Init
  PROVE  AgreeInv
  <1>1. /\ net = {} /\ \A r \in GwRequests : fut[r] = "none" /\ pbx.resp[r] = "none"
        /\ pbx.st = "idle" /\ gw.st # "connected"
        /\ \A r \in PbxRequests : cache[r] = "none"
    BY DEF Init
  <1>2. /\ Bye \in GwRequests /\ PInvite \in PbxRequests /\ \A r \in GwInvites : r \in GwRequests BY GwNames, PbxNames
  <1> QED BY <1>1, <1>2 DEF AgreeInv

LEMMA GatewayAgrees ==
  ASSUME DialogInv, AgreeInv, DialogInv', Gateway
  PROVE  AgreeInv'
  <1>1. CASE FlowStart \/ FlowChallenged \/ FlowFails \/ FlowUp \/ FlowTooLate BY <1>1, FlowMoves, ClientAgrees
  <1>2. CASE HangupNew \/ Cancel \/ Hangup \/ NoAck BY <1>2, HangupMoves, ClientAgrees
  <1>3. CASE \E r \in GwRequests : HangupReturns(r) \/ Deadline(r) \/ Retransmit(r)
    BY <1>3, HangupReturnsMoves, DeadlineMoves, RetransmitMoves, ClientAgrees
  <1>4. CASE Reinvite \/ ReinviteAgain \/ ReinviteDone \/ ReinviteRefused BY <1>4, ReMoves, ClientAgrees
  <1>5. CASE Ringing \/ Answer \/ Reject \/ RetransmitFinal
    BY <1>5, RingingMoves, AnswerMoves, RejectMoves, RetransmitFinalMoves, ServerAgrees
  <1> QED BY <1>1, <1>2, <1>3, <1>4, <1>5 DEF Gateway

LEMMA DeliveryAgrees ==
  ASSUME DialogInv, AgreeInv, DialogInv', Delivery
  PROVE  AgreeInv'
  <1>1. PICK m \in net :
          \/ HandleResponse(m) \/ Repeated(m) \/ HandleNewInvite(m) \/ HandleAck(m) \/ HandleCancel(m)
          \/ HandleBye(m) \/ HandleReinvite(m) \/ ReinviteAsNew(m)
          \/ PbxHears(m) \/ PbxIsAsked(m) \/ PbxAcked(m)
    BY DEF Delivery
  <1>2. CASE HandleResponse(m) BY <1>2, HandleResponseMoves, ClientAgrees
  <1>3. CASE Repeated(m) \/ HandleNewInvite(m) \/ HandleAck(m) \/ HandleCancel(m)
    BY <1>3, RepeatedMoves, HandleNewInviteMoves, HandleAckMoves, HandleCancelMoves, ServerAgrees
  <1>4. CASE HandleBye(m) \/ HandleReinvite(m) \/ ReinviteAsNew(m) BY <1>4, HandleByeMoves, HandleReinviteMoves, ServerAgrees
  <1>5. CASE PbxHears(m) \/ PbxIsAsked(m) \/ PbxAcked(m) BY <1>5, PbxHearsMoves, PbxIsAskedMoves, PbxAckedMoves, PeerAgrees
  <1> QED BY <1>1, <1>2, <1>3, <1>4, <1>5

LEMMA PbxAgrees ==
  ASSUME DialogInv, AgreeInv, DialogInv', Peer \/ Lose
  PROVE  AgreeInv'
  <1>1. CASE PbxCalls \/ PbxCancels \/ PbxHangsUp \/ PbxReinvites BY <1>1, PbxAsksMoves, PeerAgrees
  <1>2. CASE PbxRepeats \/ PbxRepeatsFinal \/ Lose BY <1>2, PbxStaysMoves, PeerAgrees
  <1>3. CASE PbxGivesUpCall \/ \E r \in GwRequests : PbxMissesAck(r) BY <1>3, PbxGivesUpCallMoves, PbxMissesAckMoves, PeerAgrees
  <1>4. CASE (\E c \in {"ringing", "early"} : PbxRings(c)) \/ PbxPicksUp \/ PbxRefuses BY <1>4, PbxServesMoves, PeerAgrees
  <1> QED BY <1>1, <1>2, <1>3, <1>4 DEF Peer

LEMMA StutterAgrees ==
  ASSUME AgreeInv, UNCHANGED vars
  PROVE  AgreeInv'
  BY DEF vars, AgreeInv, Followed, ByeUnderWay, dir

\* When nothing is under way and nobody waits, the agreement is exact.
LEMMA AgreedAtRest ==
  ASSUME DialogInv, AgreeInv
  PROVE  AgreeAtRest
  <1> SUFFICES ASSUME Rest, ~gaveUp PROVE pbx.st = "up" <=> gw.st = "connected" BY DEF AgreeAtRest
  <1>1. net = {} /\ ~last.timer /\ pbx.open = {} /\ pbx.unacked = {} /\ \A r \in GwRequests : fut[r] \in {"none", "over"}
    BY DEF Rest
  <1>2. Bye \in GwRequests /\ \A r \in GwInvites : r \in GwRequests BY GwNames
  <1>3. dir \in {"out", "in"} /\ gw.st \in CallState BY Callee, ClientTypes
  <1>4. fut[Bye] # "open" BY <1>1, <1>2
  <1>5. ASSUME gw.st = "connected" PROVE pbx.st = "up"
    <2>1. CASE dir = "out"
      <3>1. PICK r \in GwInvites : pbx.resp[r] = "ok" BY <1>5, <2>1 DEF DialogInv, CalledInv
      <3> QED BY <1>1, <1>5, <3>1 DEF AgreeInv
    <2>2. CASE dir = "in" BY <1>1, <1>5, <2>2 DEF AgreeInv
    <2> QED BY <1>3, <2>1, <2>2
  <1>6. ASSUME pbx.st = "up" PROVE gw.st = "connected"
    <2>1. fut[Bye] = "none" BY <1>4, <1>6, ByeSettled
    <2>2. CASE dir = "out"
      <3>1. PICK r \in GwInvites : pbx.resp[r] = "ok" BY <1>6, <2>2 DEF DialogInv, CalledInv
      <3>2. Followed(r) BY <1>1, <1>6, <3>1 DEF AgreeInv
      <3> QED BY <2>1, <3>2 DEF Followed
    <2>3. CASE dir = "in"
      <3>1. cache[PInvite] = "ok" BY <1>6, <2>3 DEF DialogInv, AnswerInv
      <3>2. gw.st # "terminated" BY <1>4, <1>6, <2>3, <3>1 DEF AgreeInv, ByeUnderWay
      <3>3. gw.st \in {"none", "new", "ringing", "connected", "terminated"} BY <2>3 DEF DialogInv, FlowInv
      <3>4. "ok" \notin Provisional /\ "ok" \notin {"none", "refused"} BY Codes
      <3> QED BY <2>3, <3>1, <3>2, <3>3, <3>4 DEF DialogInv, AnswerInv
    <2> QED BY <1>3, <2>2, <2>3
  <1> QED BY <1>5, <1>6

\* When all has come to rest and no request was given up although copies of it
\* were still being sent, the gateway has a call that is up exactly if the PBX
\* has (SipAccount of account.py: _invite_flow, hangup, _bye_after_cancel, the ACK timer).
THEOREM Agree == Spec => []AgreeAtRest
  <1>1. Init => DialogInv /\ AgreeInv BY InitDialog, InitAgrees
  <1>2. DialogInv /\ AgreeInv /\ [Next]_vars => (DialogInv /\ AgreeInv)'
    <2> SUFFICES ASSUME DialogInv, AgreeInv, [Next]_vars PROVE DialogInv' /\ AgreeInv' OBVIOUS
    <2>1. DialogInv' BY NextDialog, StutterDialog
    <2>2. CASE Gateway BY <2>1, <2>2, GatewayAgrees
    <2>3. CASE Delivery BY <2>1, <2>3, DeliveryAgrees
    <2>4. CASE Peer \/ Lose BY <2>1, <2>4, PbxAgrees
    <2>5. CASE Over BY <2>1, <2>5, StutterAgrees DEF Over
    <2>6. CASE UNCHANGED vars BY <2>1, <2>6, StutterAgrees
    <2> QED BY <2>1, <2>2, <2>3, <2>4, <2>5, <2>6 DEF Next
  <1>3. DialogInv /\ AgreeInv => AgreeAtRest BY AgreedAtRest
  <1> QED BY <1>1, <1>2, <1>3, PTL DEF Spec

-----------------------------------------------------------------------------
(* Hold is where the gateway thinks it is *)

\* What all steps but those of a re-INVITE of the gateway leave alone.
HoldSteady ==
    /\ gw'.re = gw.re /\ gw'.rn = gw.rn /\ gw'.hold = gw.hold /\ pbx'.held = pbx.held
    /\ gaveUp => gaveUp'
    /\ \A r \in GwRequests : r.kind = "re" =>
        /\ fut'[r] = "over" => fut[r] = "over"
        /\ pbx'.resp[r] = "ok" <=> pbx.resp[r] = "ok"
        /\ pbx.resp[r] # "none" => pbx'.resp[r] # "none"
    /\ \A m \in net' : m \in net \/ m.what # "request" \/ m.r \notin GwRequests \/ m.r.kind # "re"

LEMMA SteadyHolds ==
  ASSUME DialogInv, HoldInv, HoldSteady
  PROVE  HoldInv'
  <1>1. Pending' <=> Pending BY DEF HoldSteady, Pending
  <1>2. Pending => Re(gw.rn) \in GwRequests /\ Re(gw.rn).kind = "re" BY ReWaits DEF Pending
  <1>3. gw'.rn = gw.rn /\ gw'.hold = gw.hold /\ pbx'.held = pbx.held /\ (gaveUp => gaveUp') BY DEF HoldSteady
  <1>4. Pending => (pbx'.resp[Re(gw.rn)] = "ok" <=> pbx.resp[Re(gw.rn)] = "ok") BY <1>2 DEF HoldSteady
  <1>5. ~gaveUp' => (pbx'.held <=> IF Pending' /\ pbx'.resp[Re(gw'.rn)] = "ok" THEN ~gw'.hold ELSE gw'.hold)
    BY <1>1, <1>3, <1>4 DEF HoldInv
  <1>6. ~gaveUp' => \A r \in GwRequests : r.kind = "re" /\ fut'[r] = "over" => pbx'.resp[r] # "none"
    BY DEF HoldInv, HoldSteady
  <1>7. \A m \in net' : m.what = "request" /\ m.r \in GwRequests /\ m.r.kind = "re" /\ Pending' /\ m.r.n = gw'.rn
          => m.hold = ~gw'.hold
    BY <1>1, <1>3 DEF HoldInv, HoldSteady
  <1> QED BY <1>5, <1>6, <1>7 DEF HoldInv

\* The flow of a call and its end.
LEMMA FlowSteady ==
  ASSUME DialogInv, FlowStart \/ FlowChallenged \/ FlowFails \/ FlowUp \/ FlowTooLate
  PROVE  HoldSteady
  <1>1. gw \in SipCall /\ Ended(gw) \in SipCall /\ Ended(gw).re = gw.re /\ Ended(gw).rn = gw.rn /\ Ended(gw).hold = gw.hold
    BY ClientTypes, EndedFrame
  <1>2. gw'.re = gw.re /\ gw'.rn = gw.rn /\ gw'.hold = gw.hold
    BY <1>1 DEF FlowStart, FlowChallenged, FlowFails, FlowUp, FlowTooLate, SipCall
  <1>3. UNCHANGED <<pbx, gaveUp>> BY DEF FlowStart, FlowChallenged, FlowFails, FlowUp, FlowTooLate
  <1>4. PICK q \in GwInvites : \A m \in net' : m \in net \/ m = Ask(q) \/ m = Ack(q) \/ m = Ask(Bye)
    <2>1. CASE FlowStart BY <2>1, GwNames DEF FlowStart, Send
    <2>2. CASE FlowChallenged BY <2>2, GwNames DEF FlowChallenged, Send
    <2>3. CASE FlowFails BY <2>3, GwNames DEF FlowFails
    <2>4. CASE FlowUp \/ FlowTooLate
      <3>1. Invite(gw.inv) \in GwInvites BY <2>4, FlowWaits, Codes DEF FlowUp, FlowTooLate
      <3> QED BY <2>4, <3>1 DEF FlowUp, FlowTooLate, Send
    <2> QED BY <2>1, <2>2, <2>3, <2>4
  <1>5. q \in GwRequests /\ q.kind = "invite" /\ Bye \in GwRequests /\ Bye.kind = "bye" BY GwNames
  <1>6. Ask(q).r = q /\ Ack(q).r = q /\ Ask(Bye).r = Bye BY <1>5, NewAsk, NewAck
  <1>7. \A m \in net' : m \in net \/ m.r.kind # "re" BY <1>4, <1>5, <1>6
  <1>8. ASSUME NEW r \in GwRequests, r.kind = "re" PROVE fut'[r] = fut[r]
    <2>1. fut \in [GwRequests -> {"none", "open", "over"} \cup Final] BY PbxTypes
    <2>2. \A n \in {1, 2} : r # Invite(n) BY <1>8, GwNames
    <2>3. r # Bye BY <1>8, GwNames
    <2>4. FlowChallenged => gw.inv = 1 BY DEF FlowChallenged
    <2>5. ~FlowStart => gw.inv \in {1, 2}
      BY FlowWaits, Codes, ClientTypes DEF FlowChallenged, FlowFails, FlowUp, FlowTooLate, FlowGets, DialogInv, FlowInv
    <2> HIDE DEF Invite, Bye
    <2>6. r # Invite(1) /\ r # Invite(2) /\ (~FlowStart => r # Invite(gw.inv)) BY <2>2, <2>5
    <2> QED BY <1>8, <2>1, <2>3, <2>6
        DEF FlowStart, FlowChallenged, FlowFails, FlowUp, FlowTooLate, Begin, Return, ReturnThenBegin
  <1> QED BY <1>2, <1>3, <1>7, <1>8 DEF HoldSteady

LEMMA HangupSteady ==
  ASSUME DialogInv, HangupNew \/ Cancel \/ Hangup \/ NoAck \/ \E r \in GwRequests : HangupReturns(r)
  PROVE  HoldSteady
  <1>1. gw'.re = gw.re /\ gw'.rn = gw.rn /\ gw'.hold = gw.hold
    BY ClientTypes, EndedFrame DEF HangupNew, Cancel, Hangup, NoAck, SendBye, HangupReturns
  <1>2. UNCHANGED pbx /\ (gaveUp => gaveUp') BY DEF HangupNew, Cancel, Hangup, NoAck, HangupReturns
  <1>3. Bye \in GwRequests /\ Bye.kind = "bye" BY GwNames
  <1>4. CASE HangupNew BY <1>1, <1>2, <1>4 DEF HangupNew, clients, HoldSteady
  <1>5. CASE Cancel \/ Hangup \/ NoAck
    <2>1. PICK c \in GwRequests : c.kind # "re" /\ Begin(c) /\ net' = net \cup {Ask(c)}
      <3>1. CASE Cancel
        <4>1. gw.inv \in {1, 2} BY <3>1, ClientTypes DEF Cancel, DialogInv, FlowInv
        <4>2. CancelOf(Invite(gw.inv)) \in GwRequests /\ CancelOf(Invite(gw.inv)).kind # "re" BY <4>1, GwNames
        <4> QED BY <3>1, <4>2 DEF Cancel, Send
      <3>2. CASE Hangup \/ NoAck BY <1>3, <3>2 DEF Hangup, NoAck, SendBye, Send
      <3> QED BY <1>5, <3>1, <3>2
    <2>2. \A q \in GwRequests \ {c} : fut'[q] = fut[q] BY <2>1, BeginFrame, ClientTypes
    <2>3. Ask(c).r = c BY NewAsk
    <2> QED BY <1>1, <1>2, <2>1, <2>2, <2>3 DEF HoldSteady
  <1>6. CASE \E r \in GwRequests : HangupReturns(r)
    <2>1. PICK r \in GwRequests : r.kind \in {"cancel", "bye"} /\ Return(r) /\ net' = net BY <1>6 DEF HangupReturns
    <2>2. \A q \in GwRequests \ {r} : fut'[q] = fut[q] BY <2>1, ReturnFrame, ClientTypes
    <2> QED BY <1>1, <1>2, <2>1, <2>2 DEF HoldSteady
  <1> QED BY <1>4, <1>5, <1>6

\* Answers to requests of the PBX.
LEMMA ServerSteady ==
  ASSUME DialogInv, ServerMoves, gw' = gw \/ gw' = Ended(gw) \/ \E s : gw' = [gw EXCEPT !.st = s]
  PROVE  HoldSteady
  <1>1. gw'.re = gw.re /\ gw'.rn = gw.rn /\ gw'.hold = gw.hold BY ClientTypes, EndedFrame DEF SipCall
  <1> QED BY <1>1, Codes DEF ServerMoves, HoldSteady

LEMMA CalleeSteady ==
  ASSUME DialogInv, Ringing \/ Answer \/ Reject \/ RetransmitFinal
  PROVE  HoldSteady
  <1>1. ServerMoves BY RingingMoves, AnswerMoves, RejectMoves, RetransmitFinalMoves
  <1>2. gw' = gw \/ gw' = Ended(gw) \/ \E s : gw' = [gw EXCEPT !.st = s] BY DEF Ringing, Answer, Reject, RetransmitFinal
  <1> QED BY <1>1, <1>2, ServerSteady

LEMMA RequestSteady ==
  ASSUME DialogInv, NEW m \in net,
         \/ Repeated(m) \/ HandleNewInvite(m) \/ HandleAck(m) \/ HandleCancel(m)
         \/ HandleBye(m) \/ HandleReinvite(m) \/ ReinviteAsNew(m)
  PROVE  HoldSteady
  <1>1. ServerMoves
    BY RepeatedMoves, HandleNewInviteMoves, HandleAckMoves, HandleCancelMoves, HandleByeMoves, HandleReinviteMoves
  <1>2. gw' = gw \/ gw' = Ended(gw) \/ \E s : gw' = [gw EXCEPT !.st = s]
    BY DEF Repeated, HandleNewInvite, HandleAck, HandleCancel, HandleBye, HandleReinvite, ReinviteAsNew
  <1> QED BY <1>1, <1>2, ServerSteady

\* A response: only a final one to a re-INVITE changes the future of one, and never to "over".
LEMMA ResponseSteady ==
  ASSUME DialogInv, NEW m \in net, HandleResponse(m)
  PROVE  HoldSteady
  <1>1. m.r \in GwRequests BY HandleResponseKeeps
  <1>2. UNCHANGED <<scene, last, table, cache, pbx, gaveUp>> BY DEF HandleResponse
  <1>3. CASE StrayResponse(m)
    <2>1. gw' = gw /\ fut' = fut /\ \A d \in net' : d \in net \/ d = Ack(gw.lastAck) BY <1>3 DEF StrayResponse, Answers
    <2>2. Ack(gw.lastAck).what # "request" BY DEF Ack, Datagram
    <2> QED BY <1>2, <2>1, <2>2 DEF HoldSteady
  <1>4. CASE ProvisionalResponse(m)
    <2>1. /\ fut' = fut /\ net' = net \ {m} /\ gw'.re = gw.re /\ gw'.rn = gw.rn /\ gw'.hold = gw.hold
      BY <1>1, <1>2, <1>4, ProvisionalKeeps
    <2> QED BY <1>2, <2>1 DEF HoldSteady
  <1>5. CASE FinalResponse(m)
    <2>1. /\ gw' = gw
          /\ \A q \in GwRequests : fut'[q] = fut[q] \/ (fut[q] = "open" /\ fut'[q] \in Final)
          /\ \A d \in net' : d \in net \/ \E q \in GwRequests : d = Ack(q) /\ pbx.resp[q] \in Failure
      BY <1>1, <1>2, <1>5, FinalKeeps
    <2>2. \A q \in GwRequests : fut'[q] = "over" => fut[q] = "over" BY <2>1, Codes
    <2>3. \A d \in net' : d \in net \/ d.what # "request" BY <2>1, NewAck
    <2> QED BY <1>2, <2>1, <2>2, <2>3 DEF HoldSteady
  <1> QED BY <1>3, <1>4, <1>5 DEF HandleResponse

\* A re-INVITE is sent: it is new, and asks for the contrary of what is so.
LEMMA SendReHolds ==
  ASSUME DialogInv, HoldInv, Reinvite \/ ReinviteAgain
  PROVE  HoldInv'
  <1> DEFINE r == Re(gw.rn + 1)
  <1>1. gw.re \in {"idle", "asleep"} /\ gw.rn < MaxRe /\ gw.rn + 1 \in 1..MaxRe
    BY ClientTypes, BoundsAssumption DEF Reinvite, ReinviteAgain, DialogInv, ReInv
  <1>2. PICK pc \in {"first", "second"} : gw' = [gw EXCEPT !.re = pc, !.rn = gw.rn + 1] BY DEF Reinvite, ReinviteAgain, SendRe
  <1>3. UNCHANGED <<pbx, gaveUp>> /\ Begin(r) /\ net' = net \cup {Offer(r, ~gw.hold)}
    BY DEF Reinvite, ReinviteAgain, SendRe, Send
  <1>4. gw'.re = pc /\ gw'.rn = gw.rn + 1 /\ gw'.hold = gw.hold BY <1>2, ClientTypes DEF SipCall
  <1>5. r \in GwRequests /\ r.kind = "re" /\ r.n = gw.rn + 1 BY <1>1, GwNames
  <1>6. r = Re(gw'.rn) BY <1>4
  <1> HIDE DEF r
  <1>7. ~(r.n <= gw.rn) BY <1>5, ClientTypes
  <1>8. fut[r] = "none" BY <1>5, <1>7 DEF DialogInv, ReInv
  <1>9. pbx.resp[r] = "none" BY <1>5, <1>8 DEF DialogInv, RespInv
  <1>10. fut'[r] = "open" /\ \A q \in GwRequests \ {r} : fut'[q] = fut[q] BY <1>3, <1>5, BeginFrame, ClientTypes
  <1>11. Offer(r, ~gw.hold).r = r /\ Offer(r, ~gw.hold).hold = ~gw.hold BY <1>5, NewOffer
  <1>12. ~Pending BY <1>1 DEF Pending
  <1>13. \A q \in GwRequests : q.kind = "re" /\ q.n = gw.rn + 1 => q = r BY <1>5, GwNames
  <1>14. \A m \in net : m.r # r BY <1>5, <1>8 DEF DialogInv, NetInv, GwDatagram
  <1>15. ~gaveUp' => (pbx'.held <=> IF Pending' /\ pbx'.resp[Re(gw'.rn)] = "ok" THEN ~gw'.hold ELSE gw'.hold)
    BY <1>3, <1>4, <1>6, <1>9, <1>12 DEF HoldInv
  <1>16. ~gaveUp' => \A q \in GwRequests : q.kind = "re" /\ fut'[q] = "over" => pbx'.resp[q] # "none"
    BY <1>3, <1>5, <1>10 DEF HoldInv
  <1>17. \A m \in net' : m.what = "request" /\ m.r \in GwRequests /\ m.r.kind = "re" /\ Pending' /\ m.r.n = gw'.rn
          => m.hold = ~gw'.hold
    BY <1>3, <1>4, <1>11, <1>13, <1>14
  <1> QED BY <1>15, <1>16, <1>17 DEF HoldInv

\* Its end: with a 200 the two have changed places together, with a failure neither has moved.
LEMMA ReEndHolds ==
  ASSUME DialogInv, HoldInv, ReinviteDone \/ ReinviteRefused
  PROVE  HoldInv'
  <1> DEFINE r == Re(gw.rn)
  <1>1. PICK c \in Final : ReGets(c) /\ (ReinviteDone => c = "ok") /\ (ReinviteRefused => c # "ok")
    BY Codes DEF ReinviteDone, ReinviteRefused, ReGets
  <1>2. gw.re \in {"first", "second"} /\ fut[r] = c BY <1>1 DEF ReGets
  <1>3. r \in GwRequests /\ r.kind = "re" /\ r.n = gw.rn /\ pbx.resp[r] = c BY <1>1, <1>2, ReWaits
  <1>4. UNCHANGED <<pbx, gaveUp>> /\ Return(r) BY DEF ReinviteDone, ReinviteRefused
  <1>5. gw'.re \in {"idle", "asleep"} /\ gw'.rn = gw.rn /\ gw'.hold = (IF c = "ok" THEN ~gw.hold ELSE gw.hold)
    BY <1>1, ClientTypes DEF ReinviteDone, ReinviteRefused, SipCall
  <1>6. pbx.resp[Re(gw.rn)] = c BY <1>3
  <1>7. Pending /\ ~Pending' BY <1>2, <1>5 DEF Pending
  <1> HIDE DEF r
  <1>8. \A q \in GwRequests \ {r} : fut'[q] = fut[q] BY <1>3, <1>4, ReturnFrame, ClientTypes
  <1>9. c # "none" BY Codes, <1>1
  <1>10. ~gaveUp' => (pbx'.held <=> gw'.hold)
    <2>1. CASE c = "ok" BY <1>4, <1>5, <1>6, <1>7, <2>1 DEF HoldInv
    <2>2. CASE c # "ok" BY <1>4, <1>5, <1>6, <1>7, <2>2 DEF HoldInv
    <2> QED BY <2>1, <2>2
  <1>11. ~gaveUp' => \A q \in GwRequests : q.kind = "re" /\ fut'[q] = "over" => pbx'.resp[q] # "none"
    BY <1>3, <1>4, <1>8, <1>9 DEF HoldInv
  <1> QED BY <1>7, <1>10, <1>11 DEF HoldInv

\* A re-INVITE that is given up was still being repeated.
LEMMA DeadlineHolds ==
  ASSUME DialogInv, HoldInv, NEW r \in GwRequests, Deadline(r)
  PROVE  HoldInv'
  <1>1. fut[r] = "open" /\ net' = {} /\ Return(r) /\ pbx' = pbx /\ gaveUp' = (gaveUp \/ r \in armed) BY DEF Deadline
  <1>2. CASE r.kind = "re"
    <2>1. gaveUp' BY <1>1, <1>2 DEF DialogInv, ReInv
    <2> QED BY <1>1, <2>1 DEF HoldInv
  <1>3. CASE r.kind # "re"
    <2>1. gw'.re = gw.re /\ gw'.rn = gw.rn /\ gw'.hold = gw.hold
      <3>1. Ended(gw) \in SipCall /\ Ended(gw).re = gw.re /\ Ended(gw).rn = gw.rn /\ Ended(gw).hold = gw.hold
        BY ClientTypes, EndedFrame
      <3>2. gw' = gw \/ gw' = [Ended(gw) EXCEPT !.flow = "done"] BY <1>3 DEF Deadline
      <3> QED BY <3>1, <3>2 DEF SipCall
    <2>2. \A q \in GwRequests \ {r} : fut'[q] = fut[q] BY <1>1, ReturnFrame, ClientTypes
    <2>3. HoldSteady BY <1>1, <1>3, <2>1, <2>2 DEF HoldSteady
    <2> QED BY <2>3, SteadyHolds
  <1> QED BY <1>2, <1>3

\* A repeat asks for what the first copy has asked for.
LEMMA RetransmitHolds ==
  ASSUME DialogInv, HoldInv, NEW r \in GwRequests, Retransmit(r)
  PROVE  HoldInv'
  <1>1. UNCHANGED <<gw, fut, pbx, gaveUp>> BY RetransmitKeeps DEF clients
  <1>2. PICK s \in GwRequests : net' = net \cup {Offer(s, s.kind = "re" /\ ~gw.hold)} BY RetransmitKeeps
  <1>3. (s.kind = "re" /\ ~gw.hold) \in BOOLEAN OBVIOUS
  <1>4. /\ Offer(s, s.kind = "re" /\ ~gw.hold).r = s
        /\ Offer(s, s.kind = "re" /\ ~gw.hold).hold = (s.kind = "re" /\ ~gw.hold)
    BY <1>3, NewOffer
  <1>5. \A m \in net' : m \in net \/ (m.r = s /\ m.hold = (s.kind = "re" /\ ~gw.hold)) BY <1>2, <1>4
  <1>6. Pending' <=> Pending BY <1>1 DEF Pending
  <1>7. \A m \in net' : m.what = "request" /\ m.r \in GwRequests /\ m.r.kind = "re" /\ Pending' /\ m.r.n = gw'.rn
          => m.hold = ~gw'.hold
    <2> SUFFICES ASSUME NEW m \in net', m.what = "request", m.r \in GwRequests, m.r.kind = "re", Pending, m.r.n = gw.rn
                 PROVE  m.hold = ~gw.hold
      BY <1>1, <1>6
    <2>1. CASE m \in net BY <2>1 DEF HoldInv
    <2>2. CASE m.r = s /\ m.hold = (s.kind = "re" /\ ~gw.hold) BY <2>2
    <2> QED BY <1>5, <2>1, <2>2
  <1> QED BY <1>1, <1>6, <1>7 DEF HoldInv

\* The PBX takes a re-INVITE: it is the one the gateway waits for.
LEMMA TakenReHolds ==
  ASSUME DialogInv, HoldInv, NEW m \in net, m.what = "request", m.r \in GwRequests, m.r.kind = "re", pbx.resp[m.r] = "none",
         UNCHANGED mine, pbx'.held = m.hold, pbx'.resp[m.r] = "ok", \A q \in GwRequests \ {m.r} : pbx'.resp[q] = pbx.resp[q],
         \A d \in net' : d \in net \/ d.what # "request"
  PROVE  HoldInv'
  <1>1. gw' = gw /\ fut' = fut /\ (gaveUp' <=> gaveUp) BY DEF mine, clients
  <1>2. Pending' <=> Pending BY <1>1 DEF Pending
  <1>3. fut[m.r] # "none" BY DEF DialogInv, NetInv, GwDatagram
  <1>4. ~gaveUp => Pending /\ m.r = Re(gw.rn) /\ m.hold = ~gw.hold
    <2> SUFFICES ASSUME ~gaveUp PROVE Pending /\ m.r = Re(gw.rn) /\ m.hold = ~gw.hold OBVIOUS
    <2>1. fut[m.r] # "over" BY DEF HoldInv
    <2>2. fut[m.r] \in Live BY <1>3, <2>1, PbxTypes DEF Live
    <2>3. Pending /\ m.r.n = gw.rn BY <2>2 DEF DialogInv, ReInv
    <2>4. m.r = Re(gw.rn) BY <2>3, GwNames
    <2> QED BY <2>3, <2>4 DEF HoldInv
  <1>5. ~gaveUp' => (pbx'.held <=> IF Pending' /\ pbx'.resp[Re(gw'.rn)] = "ok" THEN ~gw'.hold ELSE gw'.hold)
    BY <1>1, <1>2, <1>4
  <1>6. ~gaveUp' => \A q \in GwRequests : q.kind = "re" /\ fut'[q] = "over" => pbx'.resp[q] # "none"
    BY <1>1 DEF HoldInv
  <1>7. \A d \in net' : d.what = "request" /\ d.r \in GwRequests /\ d.r.kind = "re" /\ Pending' /\ d.r.n = gw'.rn
          => d.hold = ~gw'.hold
    BY <1>1, <1>2 DEF HoldInv
  <1> QED BY <1>5, <1>6, <1>7 DEF HoldInv

\* Steps of the PBX that answer no re-INVITE.
LEMMA PeerSteady ==
  ASSUME UNCHANGED mine, pbx'.held = pbx.held, \A r \in GwRequests : r.kind = "re" => pbx'.resp[r] = pbx.resp[r],
         \A d \in net' : d \in net \/ d.what # "request" \/ d.r \notin GwRequests
  PROVE  HoldSteady
  BY DEF mine, clients, HoldSteady

LEMMA PbxAsksSteady ==
  ASSUME DialogInv, PbxCalls \/ PbxCancels \/ PbxHangsUp \/ PbxReinvites \/ PbxGivesUpCall \/ (\E r \in GwRequests : PbxMissesAck(r))
  PROVE  HoldSteady
  <1>1. UNCHANGED mine /\ pbx'.held = pbx.held /\ pbx'.resp = pbx.resp
    BY PbxTypes DEF PbxCalls, PbxCancels, PbxHangsUp, PbxReinvites, PbxGivesUpCall, PbxMissesAck, PAsk, Pbx
  <1>2. PICK r \in {PInvite, PCancel, PBye, PRe(pbx.rn + 1)} : net' \subseteq net \cup {Ask(r)}
    BY DEF PbxCalls, PbxCancels, PbxHangsUp, PbxReinvites, PbxGivesUpCall, PbxMissesAck, PAsk, Send
  <1>3. r.by = "pbx" BY DEF PInvite, PCancel, PBye, PRe, Request
  <1>4. r \notin GwRequests BY <1>3, GwNames
  <1>5. Ask(r).r = r BY DEF Ask, Datagram
  <1> QED BY <1>1, <1>2, <1>4, <1>5, PeerSteady

LEMMA PbxStaysSteady ==
  ASSUME DialogInv, PbxRepeats \/ PbxRepeatsFinal \/ Lose
  PROVE  HoldSteady
  <1>1. UNCHANGED mine /\ pbx' = pbx BY PbxStaysKeeps
  <1>2. \A d \in net' : d \in net \/ d.what # "request" \/ d.r \notin GwRequests
    <2>1. CASE PbxRepeats
      <3>1. PICK r \in pbx.open : net' = net \cup {Ask(r)} BY <2>1 DEF PbxRepeats, Repeat, Send
      <3>2. r \notin GwRequests BY PbxTypes, Apart DEF Pbx
      <3>3. Ask(r).r = r BY DEF Ask, Datagram
      <3> QED BY <3>1, <3>2, <3>3
    <2>2. CASE Lose BY <2>2 DEF Lose, Answers
    <2>3. CASE PbxRepeatsFinal
      <3>1. PICK r \in pbx.unacked : net' = net \cup {Reply(r, pbx.resp[r])} BY <2>3 DEF PbxRepeatsFinal, Repeat, Send
      <3>2. r \in GwRequests BY PbxTypes DEF Pbx
      <3>3. pbx.resp[r] \in Final BY <3>1, <3>2 DEF DialogInv, RespInv
      <3>4. pbx.resp[r] # "request" BY <3>3, Codes
      <3> QED BY <3>1, <3>4 DEF Reply, Datagram
    <2> QED BY <2>1, <2>2, <2>3
  <1> QED BY <1>1, <1>2, PeerSteady

LEMMA PbxHearsSteady ==
  ASSUME DialogInv, NEW m \in net, PbxHears(m) \/ PbxAcked(m)
  PROVE  HoldSteady
  <1>1. CASE PbxHears(m)
    <2>1. UNCHANGED mine /\ pbx'.resp = pbx.resp /\ pbx'.held = pbx.held BY <1>1, PbxHearsFrame
    <2>2. \A d \in net' : d \in net \/ d = Ack(m.r) \/ d = Ask(PBye) BY <1>1, PbxHearsFrame
    <2>3. Ack(m.r).what = "ack" /\ Ask(PBye).r = PBye BY DEF Ack, Ask, Datagram
    <2>4. PBye \notin GwRequests BY PbxNames, Apart
    <2> QED BY <2>1, <2>2, <2>3, <2>4, PeerSteady
  <1>2. CASE PbxAcked(m)
    <2>1. UNCHANGED mine /\ pbx' = [pbx EXCEPT !.unacked = @ \ {m.r}] /\ net' = net \ {m} BY <1>2 DEF PbxAcked, Answers
    <2>2. pbx'.resp = pbx.resp /\ pbx'.held = pbx.held BY <2>1, PbxTypes DEF Pbx
    <2> QED BY <2>1, <2>2, PeerSteady
  <1> QED BY <1>1, <1>2

LEMMA PbxServesSteady ==
  ASSUME DialogInv, (\E c \in {"ringing", "early"} : PbxRings(c)) \/ PbxPicksUp \/ PbxRefuses
  PROVE  HoldSteady
  <1> DEFINE s == Serving
  <1>1. s \in GwInvites /\ s \in GwRequests BY Served DEF PbxRings, PbxPicksUp, PbxRefuses
  <1>2. PICK c \in {"ringing", "early", "ok", "refused"}, st \in {"ringing", "up", "down"} :
          PAnswers({}, s, c, [pbx EXCEPT !.st = st])
    BY DEF PbxRings, PbxPicksUp, PbxRefuses
  <1> HIDE DEF s
  <1> DEFINE g == [pbx EXCEPT !.st = st]
  <1>3. g \in Pbx /\ g.resp = pbx.resp /\ g.held = pbx.held BY PbxTypes DEF Pbx, PbxState
  <1>4. c \in Response /\ PAnswers({}, s, c, g) BY <1>2, Codes
  <1> HIDE DEF g
  <1>5. Gave(s, c, g) BY <1>1, <1>3, <1>4, PbxAnswersWhat
  <1>6. s.kind = "invite" BY <1>1, GwNames
  <1>7. \A d \in net' : d \in net \/ d.what # "request" BY <1>5, Codes DEF Gave
  <1> QED BY <1>3, <1>5, <1>6, <1>7, PeerSteady DEF Gave

LEMMA PbxIsAskedHolds ==
  ASSUME DialogInv, HoldInv, NEW m \in net, PbxIsAsked(m)
  PROVE  HoldInv'
  <1>1. m.r.by = "gw" /\ m.what = "request" /\ m \in net BY DEF PbxIsAsked
  <1>2. m.r \in GwRequests /\ m.hold \in BOOLEAN BY <1>1, NetNames, PbxTypes
  <1>3. /\ pbx \in Pbx /\ "challenge" \in Response /\ "trying" \in Response /\ "ok" \in Response /\ "refused" \in Response
        /\ "pending" \in Response
    BY PbxTypes, Codes
  <1>4. CASE pbx.resp[m.r] # "none"
    <2>1. UNCHANGED mine /\ pbx' = pbx /\ net' = (net \ {m}) \cup {Reply(m.r, pbx.resp[m.r])} BY <1>4 DEF PbxIsAsked, Answers
    <2>2. pbx.resp[m.r] \in Response BY <1>2, <1>4, PbxTypes
    <2>3. \A d \in net' : d \in net \/ d.what # "request" BY <1>2, <2>1, <2>2, NewReply, Codes
    <2> QED BY <2>1, <2>3, PeerSteady, SteadyHolds
  <1>5. CASE pbx.resp[m.r] = "none" /\ m.r.kind # "re" /\ \E c \in Response, g \in Pbx :
               PAnswers({m}, m.r, c, g) /\ g.resp = pbx.resp /\ g.held = pbx.held
    <2>1. PICK c \in Response, g \in Pbx : PAnswers({m}, m.r, c, g) /\ g.resp = pbx.resp /\ g.held = pbx.held BY <1>5
    <2>2. Gave(m.r, c, g) BY <1>2, <2>1, PbxAnswersWhat
    <2>3. \A d \in net' : d \in net \/ d.what # "request" BY <2>2, Codes DEF Gave
    <2>4. HoldSteady BY <1>5, <2>1, <2>2, <2>3, PeerSteady DEF Gave
    <2> QED BY <2>4, SteadyHolds
  <1>6. CASE pbx.resp[m.r] = "none" /\ PbxInvited(m)
    <2>1. m.r.kind # "re" BY <1>6, GwNames DEF PbxInvited
    <2>2. PICK c \in {"challenge", "trying"}, g \in {pbx, [pbx EXCEPT !.st = "trying"]} : PAnswers({m}, m.r, c, g)
      BY <1>6 DEF PbxInvited
    <2>3. g \in Pbx /\ g.resp = pbx.resp /\ g.held = pbx.held BY <1>3, <2>2 DEF Pbx, PbxState
    <2>4. c \in Response BY <1>3, <2>2
    <2> QED BY <1>5, <1>6, <2>1, <2>2, <2>3, <2>4
  <1>7. CASE pbx.resp[m.r] = "none" /\ PbxCancelled(m)
    <2> DEFINE inv == Branch(m.r)
    <2>1. m.r.kind = "cancel" /\ inv \in GwInvites /\ inv \in GwRequests /\ inv.kind = "invite"
      BY <1>2, <1>7, GwNames DEF PbxCancelled
    <2>2. CASE pbx.resp[inv] \in Provisional
      <3>1. /\ pbx' = [pbx EXCEPT !.st = "down", !.resp[m.r] = "ok", !.resp[inv] = "cancelled", !.unacked = @ \cup {inv}]
            /\ net' = (net \ {m}) \cup {Reply(m.r, "ok"), Reply(inv, "cancelled")}
            /\ UNCHANGED mine
        BY <1>7, <2>2 DEF PbxCancelled, Answers
      <3> HIDE DEF inv
      <3>2. /\ pbx'.held = pbx.held
            /\ pbx'.resp = [[pbx.resp EXCEPT ![m.r] = "ok"] EXCEPT ![inv] = "cancelled"]
        BY <1>3, <3>1 DEF Pbx
      <3>3. pbx.resp \in [GwRequests -> Response \cup {"none"}] BY PbxTypes
      <3>4. \A q \in GwRequests : q.kind = "re" => pbx'.resp[q] = pbx.resp[q] BY <2>1, <3>2, <3>3
      <3>5. \A d \in net' : d \in net \/ d.what # "request" BY <3>1 DEF Reply, Datagram
      <3> QED BY <3>1, <3>2, <3>4, <3>5, PeerSteady, SteadyHolds
    <2>3. CASE pbx.resp[inv] \notin Provisional
      <3>1. PAnswers({m}, m.r, "ok", pbx) BY <1>7, <2>3 DEF PbxCancelled
      <3> QED BY <1>3, <1>5, <1>7, <2>1, <3>1
    <2> QED BY <2>2, <2>3
  <1>8. CASE pbx.resp[m.r] = "none" /\ PbxByed(m)
    <2> DEFINE g == [pbx EXCEPT !.st = "down", !.unacked = {}, !.open = {}]
    <2>1. m.r.kind # "re" BY <1>8, GwNames DEF PbxByed
    <2>2. PAnswers({m}, m.r, "ok", g) \/ PAnswers({m}, m.r, "ok", pbx) BY <1>8 DEF PbxByed
    <2>3. g = [st |-> "down", resp |-> pbx.resp, unacked |-> {}, open |-> {}, held |-> pbx.held, rn |-> pbx.rn]
      <3> DEFINE q == [pbx EXCEPT !.st = "down", !.unacked = {}]
      <3>1. q = [st |-> "down", resp |-> pbx.resp, unacked |-> {}, open |-> pbx.open, held |-> pbx.held, rn |-> pbx.rn]
        BY PbxTypes, PbxRecord
      <3>2. g = [q EXCEPT !.open = {}] OBVIOUS
      <3> HIDE DEF q, g
      <3> QED BY <3>1, <3>2
    <2> HIDE DEF g
    <2>4. g \in Pbx /\ g.resp = pbx.resp /\ g.held = pbx.held BY <1>3, <2>3 DEF Pbx, PbxState
    <2> QED BY <1>3, <1>5, <1>8, <2>1, <2>2, <2>4
  <1>9. CASE pbx.resp[m.r] = "none" /\ PbxReinvited(m)
    <2>1. m.r.kind = "re" BY <1>9 DEF PbxReinvited
    <2>2. CASE \E c \in {"refused", "pending"} : PAnswers({m}, m.r, c, pbx)
      <3>1. PICK c \in {"refused", "pending"} : PAnswers({m}, m.r, c, pbx) BY <2>2
      <3>2. c \in Response /\ c # "ok" /\ c # "none" BY <1>3, <3>1
      <3>3. Gave(m.r, c, pbx) BY <1>2, <1>3, <3>1, <3>2, PbxAnswersWhat
      <3>4. \A d \in net' : d \in net \/ d.what # "request" BY <3>3, Codes DEF Gave
      <3>5. \A q \in GwRequests : /\ pbx'.resp[q] = "ok" <=> pbx.resp[q] = "ok"
                                  /\ pbx.resp[q] # "none" => pbx'.resp[q] # "none"
        BY <1>9, <3>2, <3>3 DEF Gave
      <3>6. HoldSteady BY <3>3, <3>4, <3>5 DEF Gave, HoldSteady, mine, clients
      <3> QED BY <3>6, SteadyHolds
    <2>3. CASE PAnswers({m}, m.r, "ok", [pbx EXCEPT !.held = m.hold])
      <3> DEFINE g == [pbx EXCEPT !.held = m.hold]
      <3>1. g \in Pbx /\ g.resp = pbx.resp /\ g.held = m.hold BY <1>2, <1>3 DEF Pbx
      <3>2. PAnswers({m}, m.r, "ok", g) BY <2>3
      <3> HIDE DEF g
      <3>3. Gave(m.r, "ok", g) BY <1>2, <1>3, <3>1, <3>2, PbxAnswersWhat
      <3>4. \A d \in net' : d \in net \/ d.what # "request" BY <3>3, Codes DEF Gave
      <3>5. UNCHANGED mine /\ pbx'.held = m.hold /\ pbx'.resp[m.r] = "ok" /\ \A q \in GwRequests \ {m.r} : pbx'.resp[q] = pbx.resp[q]
        BY <3>1, <3>3 DEF Gave
      <3> QED BY <1>1, <1>2, <1>9, <2>1, <3>4, <3>5, TakenReHolds
    <2> QED BY <1>9, <2>2, <2>3 DEF PbxReinvited
  <1> QED BY <1>4, <1>6, <1>7, <1>8, <1>9 DEF PbxIsAsked

LEMMA InitHolds ==
  ASSUME Init
  PROVE  HoldInv
  <1>1. /\ net = {} /\ \A r \in GwRequests : fut[r] = "none"
        /\ pbx.held = FALSE /\ gw.hold = FALSE /\ gw.re = "idle"
    BY DEF Init
  <1> QED BY <1>1 DEF HoldInv, Pending

LEMMA NextHolds ==
  ASSUME DialogInv, HoldInv, Next
  PROVE  HoldInv'
  <1>1. CASE Gateway
    <2>1. CASE FlowStart \/ FlowChallenged \/ FlowFails \/ FlowUp \/ FlowTooLate BY <2>1, FlowSteady, SteadyHolds
    <2>2. CASE HangupNew \/ Cancel \/ Hangup \/ NoAck \/ \E r \in GwRequests : HangupReturns(r)
      BY <2>2, HangupSteady, SteadyHolds
    <2>3. CASE \E r \in GwRequests : Deadline(r) \/ Retransmit(r) BY <2>3, DeadlineHolds, RetransmitHolds
    <2>4. CASE Reinvite \/ ReinviteAgain \/ ReinviteDone \/ ReinviteRefused BY <2>4, SendReHolds, ReEndHolds
    <2>5. CASE Ringing \/ Answer \/ Reject \/ RetransmitFinal BY <2>5, CalleeSteady, SteadyHolds
    <2> QED BY <1>1, <2>1, <2>2, <2>3, <2>4, <2>5 DEF Gateway
  <1>2. CASE Delivery
    <2>1. PICK m \in net :
            \/ HandleResponse(m) \/ Repeated(m) \/ HandleNewInvite(m) \/ HandleAck(m) \/ HandleCancel(m)
            \/ HandleBye(m) \/ HandleReinvite(m) \/ ReinviteAsNew(m)
            \/ PbxHears(m) \/ PbxIsAsked(m) \/ PbxAcked(m)
      BY <1>2 DEF Delivery
    <2>2. CASE HandleResponse(m) BY <2>2, ResponseSteady, SteadyHolds
    <2>3. CASE \/ Repeated(m) \/ HandleNewInvite(m) \/ HandleAck(m) \/ HandleCancel(m)
               \/ HandleBye(m) \/ HandleReinvite(m) \/ ReinviteAsNew(m)
      BY <2>3, RequestSteady, SteadyHolds
    <2>4. CASE PbxHears(m) \/ PbxAcked(m) BY <2>4, PbxHearsSteady, SteadyHolds
    <2>5. CASE PbxIsAsked(m) BY <2>5, PbxIsAskedHolds
    <2> QED BY <2>1, <2>2, <2>3, <2>4, <2>5
  <1>3. CASE Peer \/ Lose
    <2>1. CASE \/ PbxCalls \/ PbxCancels \/ PbxHangsUp \/ PbxReinvites \/ PbxGivesUpCall
               \/ (\E r \in GwRequests : PbxMissesAck(r))
      BY <2>1, PbxAsksSteady, SteadyHolds
    <2>2. CASE PbxRepeats \/ PbxRepeatsFinal \/ Lose BY <2>2, PbxStaysSteady, SteadyHolds
    <2>3. CASE (\E c \in {"ringing", "early"} : PbxRings(c)) \/ PbxPicksUp \/ PbxRefuses BY <2>3, PbxServesSteady, SteadyHolds
    <2> QED BY <1>3, <2>1, <2>2, <2>3 DEF Peer
  <1>4. CASE Over
    <2>1. HoldSteady BY <1>4 DEF Over, vars, HoldSteady
    <2> QED BY <2>1, SteadyHolds
  <1> QED BY <1>1, <1>2, <1>3, <1>4 DEF Next

\* SipCall.local_hold tells what the PBX was told last, also after re-INVITEs
\* that crossed, were refused with 491 and tried again (SipAccount.reinvite).
THEOREM HoldIsKnown == Spec => []HoldAgrees
  <1>1. Init => DialogInv /\ HoldInv BY InitDialog, InitHolds
  <1>2. DialogInv /\ HoldInv /\ [Next]_vars => (DialogInv /\ HoldInv)'
    <2> SUFFICES ASSUME DialogInv, HoldInv, [Next]_vars PROVE DialogInv' /\ HoldInv' OBVIOUS
    <2>1. DialogInv' BY NextDialog
    <2>2. CASE Next BY <2>1, <2>2, NextHolds
    <2>3. CASE UNCHANGED vars
      <3>1. HoldSteady BY <2>3 DEF vars, HoldSteady
      <3> QED BY <2>1, <3>1, SteadyHolds
    <2> QED BY <2>2, <2>3
  <1>3. DialogInv /\ HoldInv => HoldAgrees
    <2> SUFFICES ASSUME HoldInv, Rest, ~gaveUp PROVE pbx.held <=> gw.hold BY DEF HoldAgrees
    <2>1. ~Pending BY DEF Rest, Pending
    <2> QED BY <2>1 DEF HoldInv
  <1> QED BY <1>1, <1>2, <1>3, PTL DEF Spec
=============================================================================
