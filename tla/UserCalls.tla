----------------------------- MODULE UserCalls -----------------------------
(***************************************************************************)
(* The calls of one Telegram user as CallManager keeps them                *)
(* (src/sipgram/manager.py): the slots active / held / waiting for SIP     *)
(* legs, the Telegram call, the audio bridge between the two, and the      *)
(* handlers that change them.                                              *)
(*                                                                         *)
(* Every handler is an asyncio task.  A task runs alone until it awaits,   *)
(* so a step of this module is what a task does between two awaits after   *)
(* which it reads or writes shared state.  "running" names the task that   *)
(* has finished a step without awaiting: nothing else may run before its   *)
(* next step.  UserState.lock is the FIFO queue "lockq": its head holds    *)
(* the lock, and a task that asks for a lock it already holds waits        *)
(* forever, as with asyncio.Lock.                                          *)
(*                                                                         *)
(* A task is named by what it serves: a SIP leg (the incoming-call         *)
(* handler or _dial_leg, then the watcher started by _watch_leg), a        *)
(* Telegram call (_tg_incoming, then the watcher started by _watch_tg and  *)
(* _reconnect, which that watcher spawns) or a command of the user.        *)
(*                                                                         *)
(* Far ends, the network and the Telegram engine are the environment.      *)
(* Screening, do-not-disturb and the gateway's capacity appear as the      *)
(* nondeterministic refusal of a call.  The code ignores the results of    *)
(* hold() and unhold(), so only the time they take is modelled.            *)
(***************************************************************************)
EXTENDS Naturals, Sequences

CONSTANTS
    InLegs,        \* SIP calls the PBX may place
    OutLegs,       \* SIP calls the gateway may place
    TgCalls,       \* Telegram calls, in either direction
    Cmds,          \* commands the user may send
    Kinds,         \* the kinds of command a run explores
    CallWaiting,   \* calls.call_waiting
    Reconnect,     \* calls.reconnect_timeout > 0
    NotifyRaises,  \* may a chat notification raise?
    None           \* Python's None

Legs == InLegs \cup OutLegs
Proc == Legs \cup TgCalls \cup Cmds

ASSUME DisjointAssumption ==
    /\ InLegs \cap OutLegs = {} /\ Legs \cap TgCalls = {}
    /\ Legs \cap Cmds = {} /\ TgCalls \cap Cmds = {}

ASSUME NoneAssumption == None \notin Proc

ASSUME FlagsAssumption == {CallWaiting, Reconnect, NotifyRaises} \subseteq BOOLEAN

VARIABLES
    sip,      \* state of every SIP call
    tgs,      \* state of every Telegram call in TgCallEngine
    u,        \* UserState: tg, pending, active, held, waiting, bridge, reconnect
    pairs,    \* CallManager.sip_bridges
    lockq,    \* UserState.lock: the holder, then the waiters in order
    running,  \* the task that goes on without awaiting
    pc,       \* where each task is
    my        \* the local variables of each task: tg, leg, and a list of legs to do

vars == <<sip, tgs, u, pairs, lockq, running, pc, my>>

SipState == {"none", "new", "ringing", "calling", "up", "dead"}
TgState  == {"none", "setup", "up", "closing", "ended"}
User     == [tg : TgCalls \cup {None}, pending : BOOLEAN,
             active : Legs \cup {None}, held : Legs \cup {None}, waiting : Legs \cup {None},
             bridge : (Legs \X TgCalls) \cup {None}, reconnect : TgCalls \cup {None}]
Locals   == [tg : TgCalls \cup {None}, leg : Legs \cup {None}, todo : Seq(Legs)]

\* Where a task waits for the lock, where it holds it, and everywhere else.
LockLabel == {"ringLock", "endLock", "dialLock", "accLock", "tgEndLock", "recLock", "cancelled",
              "eeLock", "swLock", "consLock", "cbLock", "xferLock", "confLock"}
HoldLabel == {"endNext", "endUnhold", "endHang", "unlock", "dialHang", "recHang", "recUnhold",
              "eeCancel", "swHold", "swUnhold", "consHold", "dirHang"}
FreeLabel == {"idle", "done", "watch", "offer", "ringNotify", "ringing", "ringFailed", "ringMissed",
              "ringCancel", "reserved", "invite", "invite2", "dialFailed", "dialFailed2",
              "dialUnhold", "accepting", "recStart", "recHold", "recCalling", "recFailed", "eeLegs",
              "xferUnhold", "cbNotify", "cbCalling", "confRefer"}
Label     == LockLabel \cup HoldLabel \cup FreeLabel

NoLocals == [tg |-> None, leg |-> None, todo |-> <<>>]

Init ==
    /\ sip = [l \in Legs |-> "none"] /\ tgs = [t \in TgCalls |-> "none"]
    /\ u = [tg |-> None, pending |-> FALSE, active |-> None, held |-> None, waiting |-> None,
            bridge |-> None, reconnect |-> None]
    /\ pairs = {} /\ lockq = <<>> /\ running = None
    /\ pc = [p \in Proc |-> "idle"] /\ my = [p \in Proc |-> NoLocals]

-----------------------------------------------------------------------------
(* The event loop and the lock.                                            *)

At(p, l)   == running = None /\ pc[p] = l          \* after an await
Turn(p, l) == running \in {None, p} /\ pc[p] = l   \* after an await, or without one

\* What follows a step: go on at l after an await, without one, or either.
Await(p, l)  == pc' = [pc EXCEPT ![p] = l] /\ running' = None
GoOn(p, l)   == pc' = [pc EXCEPT ![p] = l] /\ running' = p
Either(p, l) == pc' = [pc EXCEPT ![p] = l] /\ running' \in {None, p}
Finish(p)    == Await(p, "done") /\ my' = [my EXCEPT ![p] = NoLocals]

\* A task ends and the one it set aside for its leg goes on in its place.
HandOver(p, next) ==
    /\ pc' = [pc EXCEPT ![p] = "done", ![my[p].leg] = next]
    /\ running' = IF next = "done" THEN None ELSE my[p].leg
    /\ my' = [my EXCEPT ![p] = NoLocals]

\* "async with u.lock": a free lock is taken without awaiting.
HasLock(p) ==
    /\ lockq # <<>> /\ Head(lockq) = p
    /\ \A i \in 2..Len(lockq) : lockq[i] # p
HasPlace(p) == \E i \in 1..Len(lockq) : lockq[i] = p
Queue(q, p)   == lockq' = Append(q, p) /\ running' = IF q = <<>> THEN p ELSE None
Acquire(p, l) == Queue(lockq, p) /\ pc' = [pc EXCEPT ![p] = l]
Locked(p, l)  == Turn(p, l) /\ HasLock(p)
Release       == lockq' = Tail(lockq)

-----------------------------------------------------------------------------
(* Helpers on calls.                                                       *)

Some(l)   == IF l = None THEN <<>> ELSE <<l>>
Alive(l)  == l # None /\ sip[l] \notin {"none", "dead"}
Up(l)     == l # None /\ sip[l] = "up"
SlotLegs  == {u.active, u.held, u.waiting} \ {None}

\* UserState.legs(); the mutants forget a slot.
NoWaitingList == Some(u.active) \o Some(u.held)
NoHeldList == Some(u.active) \o Some(u.waiting)
SlotList  == Some(u.active) \o Some(u.held) \o Some(u.waiting)

\* UserState.busy
Busy == u.tg # None \/ u.pending

\* TgCallEngine.calls holds at most one call of this user.
EngineFree == \A t \in TgCalls : tgs[t] \in {"none", "ended"}
Settled    == \A t \in TgCalls : tgs[t] # "closing"
Fresh(t)   == tgs[t] = "none" /\ pc[t] = "idle"

\* SipCall.ringing, answer, and hangup or reject: nothing happens on a call that is over.
Ring(l)   == sip' = [sip EXCEPT ![l] = IF @ = "new" THEN "ringing" ELSE @]
Answer(l) == sip' = [sip EXCEPT ![l] = IF @ = "ringing" THEN "up" ELSE @]
End(l)    == sip' = [sip EXCEPT ![l] = "dead"]

\* TgCall.hangup(), if there is a call: ENDED is reached only after the requests it awaits.
HangTg(t) == tgs' = [x \in TgCalls |-> IF x = t /\ tgs[x] \in {"setup", "up"} THEN "closing" ELSE tgs[x]]

\* TgCallEngine.cancel(user): whatever call the engine has for the user.
CancelEngine == tgs' = [t \in TgCalls |-> IF tgs[t] \in {"setup", "up"} THEN "closing" ELSE tgs[t]]

\* Mutant: a second call of the user is placed beside the first.
PlaceCallMutant(p, t) ==
    /\ Fresh(t)
    /\ tgs' = [tgs EXCEPT ![t] = "setup"] /\ my' = [my EXCEPT ![p].tg = t]

\* TgCallEngine.call: a second call of the user is refused; any call may also fail at once.
PlaceCall(p, t) ==
    /\ EngineFree /\ Fresh(t)
    /\ tgs' = [tgs EXCEPT ![t] = "setup"] /\ my' = [my EXCEPT ![p].tg = t]

\* ... and its result: the user picked up and media connected, though the call may be going
\* down again, or be over, before the task that awaits it resumes; or they did not.
PickedUp(p) ==
    /\ my[p].tg # None /\ tgs[my[p].tg] \in {"setup", "closing", "ended"}
    /\ tgs' = [tgs EXCEPT ![my[p].tg] = IF @ = "setup" THEN "up" ELSE @]
NotPickedUp(p) == my[p].tg # None /\ tgs[my[p].tg] = "ended"

\* hold() and unhold() await a re-INVITE only on a connected call.
AfterReinvite(p, next, l) ==
    /\ pc' = [pc EXCEPT ![p] = next]
    /\ running' \in IF Up(l) THEN {None, p} ELSE {p}

\* CallManager._attach
Attached(v, l) == [v EXCEPT !.active = l, !.bridge = <<l, v.tg>>]

\* The leg that _dial_leg will place is set aside when the call or command arrives.
Reserve(p, next) ==
    \E l \in OutLegs :
        /\ pc[l] = "idle"
        /\ my' = [my EXCEPT ![p].leg = l]
        /\ pc' = [pc EXCEPT ![p] = next, ![l] = "reserved"]

\* A command of the user; one that changes nothing is not a step.
Command(c, k) == At(c, "idle") /\ k \in Kinds

-----------------------------------------------------------------------------
(* SIP -> Telegram: _sip_incoming, _ring_users, _offer_waiting.            *)

\* The PBX calls; choosing targets and screening may await.
Arrive(l) ==
    /\ At(l, "idle")
    /\ sip' = [sip EXCEPT ![l] = "new"] /\ Either(l, "offer")
    /\ UNCHANGED <<tgs, u, pairs, lockq, my>>

\* No target, a screening rule, do-not-disturb or the gateway at capacity.
OfferReject(l) ==
    /\ Turn(l, "offer")
    /\ End(l) /\ Finish(l)
    /\ UNCHANGED <<tgs, u, pairs, lockq>>

\* A busy user is offered the call as a waiting one; no lock is taken.
CanWait == CallWaiting /\ u.waiting = None /\ u.held = None /\ u.reconnect = None /\ u.tg # None
OfferWaiting(l) ==
    /\ Turn(l, "offer") /\ Busy
    /\ \/ /\ CanWait
          /\ u' = [u EXCEPT !.waiting = l]
          /\ Ring(l) /\ Await(l, "watch") /\ my' = my
       \/ ~CanWait /\ End(l) /\ Finish(l) /\ u' = u
    /\ UNCHANGED <<tgs, pairs, lockq>>

OfferRing(l) ==
    /\ Turn(l, "offer") /\ ~Busy
    /\ u' = [u EXCEPT !.pending = TRUE]
    /\ Ring(l) /\ Either(l, "ringNotify")
    /\ UNCHANGED <<tgs, pairs, lockq, my>>

RingCall(l) ==
    /\ Turn(l, "ringNotify")
    /\ \/ \E t \in TgCalls : PlaceCall(l, t) /\ Await(l, "ringing")
       \/ Await(l, "ringFailed") /\ UNCHANGED <<tgs, my>>
    /\ UNCHANGED <<sip, u, pairs, lockq>>

\* The chat is told of a missed call before the caller is rejected.
RingFail(l) ==
    /\ At(l, "ringFailed") \/ (At(l, "ringing") /\ NotPickedUp(l))
    /\ Alive(l)
    /\ u' = [u EXCEPT !.pending = FALSE] /\ Either(l, "ringMissed")
    /\ UNCHANGED <<sip, tgs, pairs, lockq, my>>

RingMissed(l) ==
    /\ Turn(l, "ringMissed")
    /\ End(l) /\ Finish(l)
    /\ UNCHANGED <<tgs, u, pairs, lockq>>

\* The caller gave up first: the engine's call of the user is cancelled.
RingGone(l) ==
    /\ At(l, "ringFailed") \/ At(l, "ringing")
    /\ ~Alive(l)
    /\ CancelEngine
    /\ IF EngineFree THEN GoOn(l, "ringCancel") ELSE Await(l, "ringCancel")
    /\ UNCHANGED <<sip, u, pairs, lockq, my>>

\* Mutant: tg_pending stays set.
RingCancelledMutant(l) ==
    /\ Turn(l, "ringCancel") /\ Settled
    /\ Finish(l)
    /\ UNCHANGED <<sip, tgs, u, pairs, lockq>>

RingCancelled(l) ==
    /\ Turn(l, "ringCancel") /\ Settled
    /\ u' = [u EXCEPT !.pending = FALSE]
    /\ Finish(l)
    /\ UNCHANGED <<sip, tgs, pairs, lockq>>

RingWin(l) ==
    /\ At(l, "ringing") /\ Alive(l) /\ PickedUp(l)
    /\ u' = [u EXCEPT !.pending = FALSE] /\ Acquire(l, "ringLock")
    /\ UNCHANGED <<sip, pairs, my>>

RingAttach(l) ==
    /\ Locked(l, "ringLock") /\ Release
    /\ u' = Attached([u EXCEPT !.tg = my[l].tg], l) /\ Answer(l)
    /\ pc' = [pc EXCEPT ![l] = "watch", ![my[l].tg] = "watch"] /\ running' = None
    /\ my' = [my EXCEPT ![l] = NoLocals]
    /\ UNCHANGED <<tgs, pairs>>

-----------------------------------------------------------------------------
(* The watcher of a leg: _leg_ended, _resume_held, _waiting_timeout.       *)

WaitingTimeout(l) ==
    /\ running = None
    /\ u.waiting = l /\ Alive(l) /\ End(l)
    /\ UNCHANGED <<tgs, u, pairs, lockq, running, pc, my>>

LegEnded(l) ==
    /\ At(l, "watch") /\ sip[l] = "dead"
    /\ Acquire(l, "endLock")
    /\ UNCHANGED <<sip, tgs, u, pairs, my>>

\* Mutant: the held slot keeps the dead leg.
EndIdleMutant(l) ==
    /\ Locked(l, "endLock") /\ l \in {u.waiting, u.held}
    /\ u' = [u EXCEPT !.waiting = IF @ = l THEN None ELSE @]
    /\ Await(l, "unlock")
    /\ UNCHANGED <<sip, tgs, pairs, lockq, my>>

\* The first of the slots waiting, held, active that has the leg is cleared.
EndIdle(l) ==
    /\ Locked(l, "endLock")
    /\ \/ u.waiting = l /\ u' = [u EXCEPT !.waiting = None]
       \/ u.waiting # l /\ u.held = l /\ u' = [u EXCEPT !.held = None]
    /\ Await(l, "unlock")
    /\ UNCHANGED <<sip, tgs, pairs, lockq, my>>

\* Mutant: the bridge goes on.
EndActiveKeepsBridge(l) ==
    /\ Locked(l, "endLock")
    /\ l \notin {u.waiting, u.held} /\ u.active = l
    /\ u' = [u EXCEPT !.active = None]
    /\ Either(l, "endNext")
    /\ UNCHANGED <<sip, tgs, pairs, lockq, my>>

EndActive(l) ==
    /\ Locked(l, "endLock")
    /\ l \notin {u.waiting, u.held} /\ u.active = l
    /\ u' = [u EXCEPT !.active = None, !.bridge = None]
    /\ Either(l, "endNext")
    /\ UNCHANGED <<sip, tgs, pairs, lockq, my>>

\* What the Telegram user hears next: the held leg, else the waiting one, else nothing.
EndResume(l) ==
    /\ Turn(l, "endNext")
    /\ u.held # None /\ u.tg # None
    /\ my' = [my EXCEPT ![l].leg = u.held] /\ u' = [u EXCEPT !.held = None]
    /\ AfterReinvite(l, "endUnhold", u.held)
    /\ UNCHANGED <<sip, tgs, pairs, lockq>>

\* Mutant: the held leg is taken off hold and forgotten.
EndResumedMutant(l) ==
    /\ Turn(l, "endUnhold")
    /\ Await(l, "unlock")
    /\ UNCHANGED <<sip, tgs, u, pairs, lockq, my>>

EndResumed(l) ==
    /\ Turn(l, "endUnhold")
    /\ u' = Attached(u, my[l].leg)
    /\ Await(l, "unlock")
    /\ UNCHANGED <<sip, tgs, pairs, lockq, my>>

EndAnswerWaiting(l) ==
    /\ Turn(l, "endNext")
    /\ u.held = None /\ u.waiting # None /\ u.tg # None
    /\ Answer(u.waiting) /\ u' = Attached([u EXCEPT !.waiting = None], u.waiting)
    /\ Await(l, "unlock")
    /\ UNCHANGED <<tgs, pairs, lockq, my>>

EndHangTg(l) ==
    /\ Turn(l, "endNext")
    /\ u.held = None /\ u.waiting = None /\ u.tg # None
    /\ HangTg(u.tg) /\ u' = [u EXCEPT !.tg = None]
    /\ my' = [my EXCEPT ![l].tg = u.tg]
    /\ Await(l, "endHang")
    /\ UNCHANGED <<sip, pairs, lockq>>

\* The end of "async with u.lock": there is nothing to do, the last await inside is over,
\* or the task was cancelled while it waited for the lock.
NothingToDo(p) ==
    \/ Locked(p, "endLock") /\ p \notin SlotLegs
    \/ Turn(p, "endNext") /\ u.tg = None
    \/ Locked(p, "tgEndLock") /\ u.tg # p
    \/ Locked(p, "swLock") /\ (u.tg = None \/ (u.waiting = None /\ u.held = None))
    \/ Locked(p, "xferLock") /\ ~(Up(u.active) /\ u.held # None)
    \/ Locked(p, "cancelled")
Unlock(p) ==
    /\ \/ NothingToDo(p) \/ At(p, "unlock") \/ Turn(p, "dialHang")
       \/ (At(p, "endHang") \/ At(p, "dirHang")) /\ NotPickedUp(p)
    /\ Release /\ Finish(p)
    /\ UNCHANGED <<sip, tgs, u, pairs>>

-----------------------------------------------------------------------------
(* Telegram -> SIP: _tg_incoming and _dial_leg.                            *)

\* _tg_incoming up to accept().
TgIncoming(t) ==
    /\ At(t, "idle") /\ Fresh(t) /\ EngineFree /\ ~Busy
    /\ tgs' = [tgs EXCEPT ![t] = "setup"]
    /\ u' = [u EXCEPT !.pending = TRUE]
    /\ Reserve(t, "accepting")
    /\ UNCHANGED <<sip, pairs, lockq, running>>

\* A busy user, or one without a number to dial, is declined.
TgDecline(t) ==
    /\ At(t, "idle") /\ Fresh(t) /\ EngineFree
    /\ tgs' = [tgs EXCEPT ![t] = "closing"]
    /\ Finish(t)
    /\ UNCHANGED <<sip, u, pairs, lockq>>

AcceptFail(t) ==
    /\ At(t, "accepting") /\ tgs[t] = "ended"
    /\ u' = [u EXCEPT !.pending = FALSE]
    /\ HandOver(t, "done")
    /\ UNCHANGED <<sip, tgs, pairs, lockq>>

AcceptOk(t) ==
    /\ At(t, "accepting") /\ tgs[t] = "setup"
    /\ tgs' = [tgs EXCEPT ![t] = "up"]
    /\ Acquire(t, "accLock")
    /\ UNCHANGED <<sip, u, pairs, my>>

\* The user is on the line; _dial_leg goes on as the task of the leg.
Accepted(t) ==
    /\ Locked(t, "accLock") /\ Release
    /\ u' = [u EXCEPT !.pending = FALSE, !.tg = t]
    /\ pc' = [pc EXCEPT ![t] = "watch", ![my[t].leg] = "invite"] /\ running' = my[t].leg
    /\ my' = [my EXCEPT ![t] = NoLocals]
    /\ UNCHANGED <<sip, tgs, pairs>>

\* sip.invite awaits its RTP socket; it may raise when no port is free.
Invite(l) ==
    /\ Turn(l, "invite") \/ Turn(l, "invite2")
    /\ \/ sip' = [sip EXCEPT ![l] = "calling"] /\ Acquire(l, "dialLock")
       \/ /\ Await(l, IF pc[l] = "invite2" THEN "dialFailed2" ELSE "dialFailed")
          /\ UNCHANGED <<sip, lockq>>
    /\ UNCHANGED <<tgs, u, pairs, my>>

\* After a failed consultation the held leg comes back, without the lock.
DialResume(l) ==
    /\ At(l, "dialFailed2") /\ u.held # None
    /\ \/ /\ u.tg # None
          /\ my' = [my EXCEPT ![l].leg = u.held] /\ u' = [u EXCEPT !.held = None]
          /\ AfterReinvite(l, "dialUnhold", u.held)
       \/ u.tg = None /\ Finish(l) /\ u' = u
    /\ UNCHANGED <<sip, tgs, pairs, lockq>>

\* _attach asserts that the Telegram call is still there.
DialResumed(l) ==
    /\ Turn(l, "dialUnhold")
    /\ u' = IF u.tg # None THEN Attached(u, my[l].leg) ELSE u
    /\ Finish(l)
    /\ UNCHANGED <<sip, tgs, pairs, lockq>>

DialGiveUp(l) ==
    /\ At(l, "dialFailed") \/ (At(l, "dialFailed2") /\ u.held = None)
    /\ \/ u.tg # None /\ Acquire(l, "eeLock") /\ my' = my
       \/ u.tg = None /\ Finish(l) /\ lockq' = lockq
    /\ UNCHANGED <<sip, tgs, u, pairs>>

\* Mutant: attached without looking at the Telegram call.
DialAttachMutant(l) ==
    /\ Locked(l, "dialLock") /\ Release
    /\ u' = Attached(u, l) /\ Await(l, "watch")
    /\ UNCHANGED <<sip, tgs, pairs, my>>

\* The Telegram side may have left while the call was placed.
DialAttach(l) ==
    /\ Locked(l, "dialLock")
    /\ \/ /\ u.tg = None
          /\ End(l) /\ Either(l, "dialHang")
          /\ UNCHANGED <<u, lockq>>
       \/ /\ u.tg # None
          /\ u' = Attached(u, l)
          /\ Release /\ Await(l, "watch") /\ sip' = sip
    /\ UNCHANGED <<tgs, pairs, my>>

-----------------------------------------------------------------------------
(* The watcher of a Telegram call: _tg_ended and _reconnect.               *)

TgEnded(t) ==
    /\ At(t, "watch") /\ tgs[t] = "ended"
    /\ \/ u.tg = t /\ Acquire(t, "tgEndLock") /\ my' = my
       \/ u.tg # t /\ Finish(t) /\ lockq' = lockq
    /\ UNCHANGED <<sip, tgs, u, pairs>>

\* A lost connection is reconnected, a hangup ends everything; the lock is free in between.
CanReconnect == Reconnect /\ Up(u.active) /\ u.reconnect = None
\* Mutant: _end_everything is called under the lock.
TgDroppedLocked(t) ==
    /\ Locked(t, "tgEndLock") /\ u.tg = t
    /\ u' = [u EXCEPT !.tg = None, !.bridge = None]
    /\ Queue(lockq, t) /\ pc' = [pc EXCEPT ![t] = "eeLock"]
    /\ UNCHANGED <<sip, tgs, pairs, my>>

TgDropped(t) ==
    /\ Locked(t, "tgEndLock") /\ u.tg = t
    /\ \/ /\ CanReconnect
          /\ u' = [u EXCEPT !.tg = None, !.bridge = None, !.reconnect = t]
          /\ Release /\ Await(t, "recStart")
       \/ /\ u' = [u EXCEPT !.tg = None, !.bridge = None]
          /\ Queue(Tail(lockq), t) /\ pc' = [pc EXCEPT ![t] = "eeLock"]
    /\ UNCHANGED <<sip, tgs, pairs, my>>

\* hold() and the notice are awaited before tg_pending marks the user busy.
RecStart(t) ==
    /\ At(t, "recStart")
    /\ \/ u.active # None /\ my' = [my EXCEPT ![t].leg = u.active] /\ Await(t, "recHold")
       \/ u.active = None /\ Finish(t)
    /\ UNCHANGED <<sip, tgs, u, pairs, lockq>>

RecCall(t) ==
    /\ At(t, "recHold")
    /\ \/ /\ \E n \in TgCalls : PlaceCall(t, n)
          /\ u' = [u EXCEPT !.pending = TRUE] /\ Await(t, "recCalling")
       \/ /\ u' = [u EXCEPT !.pending = FALSE, !.reconnect = None] /\ Await(t, "recFailed")
          /\ UNCHANGED <<tgs, my>>
    /\ UNCHANGED <<sip, pairs, lockq>>

RecFail(t) ==
    /\ At(t, "recCalling") /\ NotPickedUp(t)
    /\ u' = [u EXCEPT !.pending = FALSE, !.reconnect = None] /\ Await(t, "recFailed")
    /\ UNCHANGED <<sip, tgs, pairs, lockq, my>>

RecWin(t) ==
    /\ At(t, "recCalling") /\ PickedUp(t)
    /\ Acquire(t, "recLock")
    /\ UNCHANGED <<sip, u, pairs, my>>

\* Mutant: nobody watches the new Telegram call.
RecAttachMutant(t) ==
    /\ Locked(t, "recLock")
    /\ u.active = my[t].leg /\ Alive(u.active)
    /\ u' = [u EXCEPT !.pending = FALSE, !.reconnect = None, !.tg = my[t].tg]
    /\ Either(t, "recUnhold")
    /\ UNCHANGED <<sip, tgs, pairs, lockq, my>>

RecAttach(t) ==
    /\ Locked(t, "recLock")
    /\ u.active = my[t].leg /\ Alive(u.active)
    /\ u' = [u EXCEPT !.pending = FALSE, !.reconnect = None, !.tg = my[t].tg]
    /\ pc' = [pc EXCEPT ![t] = "recUnhold", ![my[t].tg] = "watch"]
    /\ running' \in {None, t}
    /\ UNCHANGED <<sip, tgs, pairs, lockq, my>>

RecAttached(t) ==
    /\ Turn(t, "recUnhold") /\ Release
    /\ u' = Attached(u, my[t].leg)
    /\ Finish(t)
    /\ UNCHANGED <<sip, tgs, pairs>>

\* The far end left meanwhile: the new Telegram call is hung up.
RecAbandon(t) ==
    /\ Locked(t, "recLock")
    /\ u.active # my[t].leg \/ ~Alive(my[t].leg)
    /\ u' = [u EXCEPT !.pending = FALSE, !.reconnect = None]
    /\ HangTg(my[t].tg) /\ Await(t, "recHang")
    /\ UNCHANGED <<sip, pairs, lockq, my>>

\* Both failures end everything, the second one inside "async with u.lock".
RecEnd(t) ==
    /\ At(t, "recFailed") \/ (At(t, "recHang") /\ NotPickedUp(t))
    /\ Acquire(t, "eeLock")
    /\ UNCHANGED <<sip, tgs, u, pairs, my>>

-----------------------------------------------------------------------------
(* _end_everything, as a part of the task that calls it.                   *)

\* reconnect_task.cancel(): a task waiting for the lock keeps its place in the queue.
EndEverything(p) ==
    /\ Locked(p, "eeLock")
    /\ my' = [q \in Proc |-> IF q = p THEN
                 [my[q] EXCEPT !.todo = SlotList, !.tg = u.tg]
               ELSE IF q = u.reconnect THEN NoLocals ELSE my[q]]
    /\ u' = [u EXCEPT !.active = None, !.held = None, !.waiting = None,
                      !.bridge = None, !.tg = None, !.reconnect = None]
    /\ pc' = [q \in Proc |-> IF q = p THEN IF u.pending THEN "eeCancel" ELSE "eeLegs"
               ELSE IF q # u.reconnect THEN pc[q]
               ELSE IF pc[q] = "recLock" THEN "cancelled" ELSE "done"]
    /\ \/ /\ u.pending /\ CancelEngine
          /\ running' = IF EngineFree THEN p ELSE None
          /\ lockq' = lockq
       \/ ~u.pending /\ running' = p /\ Release /\ tgs' = tgs
    /\ UNCHANGED <<sip, pairs>>

EeCancelled(p) ==
    /\ Turn(p, "eeCancel") /\ Settled /\ Release
    /\ u' = [u EXCEPT !.pending = FALSE] /\ GoOn(p, "eeLegs")
    /\ UNCHANGED <<sip, tgs, pairs, my>>

\* The legs are ended one after the other, each BYE or CANCEL awaited; then the Telegram call.
EeLeg(p) ==
    /\ Turn(p, "eeLegs") /\ my[p].todo # <<>>
    /\ End(Head(my[p].todo)) /\ my' = [my EXCEPT ![p].todo = Tail(@)]
    /\ Either(p, "eeLegs")
    /\ UNCHANGED <<tgs, u, pairs, lockq>>

EeTg(p) ==
    /\ Turn(p, "eeLegs") /\ my[p].todo = <<>>
    /\ HangTg(my[p].tg) /\ Finish(p)
    /\ UNCHANGED <<sip, u, pairs, lockq>>

-----------------------------------------------------------------------------
(* _hangup, _decline and _switch.                                          *)

Hangup(c) ==
    /\ Command(c, "hangup")
    /\ \/ Alive(u.active) /\ End(u.active) /\ Finish(c) /\ lockq' = lockq
       \/ ~Alive(u.active) /\ Busy /\ Acquire(c, "eeLock") /\ UNCHANGED <<sip, my>>
    /\ UNCHANGED <<tgs, u, pairs>>

\* /decline rejects the waiting call; with none, or as /decline-incoming, the ringing one.
Decline(c) ==
    /\ Command(c, "decline")
    /\ \/ u.waiting # None /\ End(u.waiting) /\ tgs' = tgs
       \/ u.pending /\ CancelEngine /\ sip' = sip
    /\ Finish(c)
    /\ UNCHANGED <<u, pairs, lockq>>

Switch(c) ==
    /\ Command(c, "switch")
    /\ Acquire(c, "swLock")
    /\ UNCHANGED <<sip, tgs, u, pairs, my>>

\* The bridge stops while the leg that is talking is put on hold.
SwitchToWaiting(c) ==
    /\ Locked(c, "swLock")
    /\ u.waiting # None /\ u.tg # None
    /\ my' = [my EXCEPT ![c].leg = u.waiting]
    /\ u' = [u EXCEPT !.waiting = None, !.bridge = IF u.active # None THEN None ELSE @]
    /\ AfterReinvite(c, "swHold", u.active)
    /\ UNCHANGED <<sip, tgs, pairs, lockq>>

\* Mutant: the leg that was talking is not kept.
SwitchedToWaitingMutant(c) ==
    /\ Turn(c, "swHold")
    /\ u' = Attached(u, my[c].leg)
    /\ Answer(my[c].leg) /\ Await(c, "unlock")
    /\ UNCHANGED <<tgs, pairs, lockq, my>>

\* The active leg becomes the held one, whatever was held before.
SwitchedToWaiting(c) ==
    /\ Turn(c, "swHold")
    /\ u' = Attached([u EXCEPT !.held = IF u.active # None THEN u.active ELSE @], my[c].leg)
    /\ Answer(my[c].leg) /\ Await(c, "unlock")
    /\ UNCHANGED <<tgs, pairs, lockq, my>>

SwitchToHeld(c) ==
    /\ Locked(c, "swLock")
    /\ u.waiting = None /\ u.held # None /\ u.tg # None
    /\ my' = [my EXCEPT ![c].leg = u.held, ![c].todo = Some(u.active)]
    /\ u' = [u EXCEPT !.bridge = IF u.active # None THEN None ELSE @]
    /\ Either(c, "swUnhold")
    /\ UNCHANGED <<sip, tgs, pairs, lockq>>

\* Mutant: the held slot is not given to the leg that was talking.
SwitchedToHeldMutant(c) ==
    /\ Turn(c, "swUnhold")
    /\ u' = Attached(u, my[c].leg)
    /\ Await(c, "unlock")
    /\ UNCHANGED <<sip, tgs, pairs, lockq, my>>

SwitchedToHeld(c) ==
    /\ Turn(c, "swUnhold")
    /\ u' = Attached([u EXCEPT !.held = IF my[c].todo = <<>> THEN None ELSE Head(my[c].todo)], my[c].leg)
    /\ Await(c, "unlock")
    /\ UNCHANGED <<sip, tgs, pairs, lockq, my>>

-----------------------------------------------------------------------------
(* _dial: a second call, the callback mode ("dial"), and _dial_direct.     *)

\* A second call: the active leg is held first.  The slots are read without the lock.
Consult(c) ==
    /\ Command(c, "dial") \/ Command(c, "direct")
    /\ u.tg # None /\ ~u.pending
    /\ u.held = None /\ u.waiting = None /\ u.active # None
    /\ Reserve(c, "consLock") /\ Queue(lockq, c)
    /\ UNCHANGED <<sip, tgs, u, pairs>>

ConsultHold(c) ==
    /\ Locked(c, "consLock") /\ u.active # None
    /\ my' = [my EXCEPT ![c].todo = <<u.active>>]
    /\ u' = [u EXCEPT !.bridge = None]
    /\ AfterReinvite(c, "consHold", u.active)
    /\ UNCHANGED <<sip, tgs, pairs, lockq>>

\* Without an active leg by now, reading its peer raises and the command ends.
ConsultRaise(c) ==
    /\ Locked(c, "consLock") /\ u.active = None /\ Release
    /\ HandOver(c, "done")
    /\ UNCHANGED <<sip, tgs, u, pairs>>

ConsultHeld(c) ==
    /\ Turn(c, "consHold") /\ Release
    /\ u' = [u EXCEPT !.held = Head(my[c].todo), !.active = None]
    /\ HandOver(c, "invite2")
    /\ UNCHANGED <<sip, tgs, pairs>>

\* _dial calls the user before the PBX; _dial_direct first places the PBX call, the leg
\* "todo", which nothing watches before the user answers.
Callback(c) ==
    /\ Command(c, "dial") \/ Command(c, "direct")
    /\ ~Busy
    /\ u' = [u EXCEPT !.pending = TRUE] /\ Reserve(c, "cbNotify")
    /\ UNCHANGED <<sip, tgs, pairs, lockq, running>>

CbCall(c) ==
    /\ At(c, "cbNotify")
    /\ \E t \in TgCalls :
        /\ EngineFree /\ Fresh(t)
        /\ tgs' = [tgs EXCEPT ![t] = "setup"]
        /\ \/ "dial" \in Kinds /\ my' = [my EXCEPT ![c].tg = t] /\ sip' = sip
           \/ /\ "direct" \in Kinds
              /\ my' = [my EXCEPT ![c].tg = t, ![c].todo = <<my[c].leg>>]
              /\ sip' = [sip EXCEPT ![my[c].leg] = "calling"]
    /\ Await(c, "cbCalling")
    /\ UNCHANGED <<u, pairs, lockq>>

\* Mutant: tg_pending stays set.
CbFailMutant(c) ==
    /\ At(c, "cbNotify") \/ (At(c, "cbCalling") /\ NotPickedUp(c))
    /\ IF my[c].todo # <<>> THEN End(my[c].leg) ELSE sip' = sip
    /\ HandOver(c, "done")
    /\ UNCHANGED <<tgs, u, pairs, lockq>>

CbFail(c) ==
    /\ At(c, "cbNotify") \/ (At(c, "cbCalling") /\ NotPickedUp(c))
    /\ u' = [u EXCEPT !.pending = FALSE]
    /\ IF my[c].todo # <<>> THEN End(my[c].leg) ELSE sip' = sip
    /\ HandOver(c, "done")
    /\ UNCHANGED <<tgs, pairs, lockq>>

CbWin(c) ==
    /\ At(c, "cbCalling") /\ PickedUp(c)
    /\ Acquire(c, "cbLock")
    /\ UNCHANGED <<sip, u, pairs, my>>

CbConnected(c) ==
    /\ Locked(c, "cbLock") /\ my[c].todo = <<>> /\ Release
    /\ u' = [u EXCEPT !.pending = FALSE, !.tg = my[c].tg]
    /\ pc' = [pc EXCEPT ![c] = "done", ![my[c].tg] = "watch", ![my[c].leg] = "invite"]
    /\ running' = my[c].leg /\ my' = [my EXCEPT ![c] = NoLocals]
    /\ UNCHANGED <<sip, tgs, pairs>>

DirectAttach(c) ==
    /\ Locked(c, "cbLock") /\ my[c].todo # <<>> /\ Alive(my[c].leg) /\ Release
    /\ u' = Attached([u EXCEPT !.pending = FALSE, !.tg = my[c].tg], my[c].leg)
    /\ pc' = [pc EXCEPT ![c] = "done", ![my[c].tg] = "watch", ![my[c].leg] = "watch"]
    /\ running' = None /\ my' = [my EXCEPT ![c] = NoLocals]
    /\ UNCHANGED <<sip, tgs, pairs>>

\* The PBX call is over before the user answered: the Telegram call is hung up.
DirectLost(c) ==
    /\ Locked(c, "cbLock") /\ my[c].todo # <<>> /\ ~Alive(my[c].leg)
    /\ u' = [u EXCEPT !.pending = FALSE, !.tg = my[c].tg] /\ HangTg(my[c].tg)
    /\ pc' = [pc EXCEPT ![c] = "dirHang", ![my[c].tg] = "watch", ![my[c].leg] = "done"]
    /\ running' = None
    /\ UNCHANGED <<sip, pairs, lockq, my>>

-----------------------------------------------------------------------------
(* _transfer and _conference.                                              *)

\* Attended transfer: both legs leave the user's slots and are bridged to each other.
Transfer(c) ==
    /\ Command(c, "transfer")
    /\ Acquire(c, "xferLock")
    /\ UNCHANGED <<sip, tgs, u, pairs, my>>

TransferLegs(c) ==
    /\ Locked(c, "xferLock") /\ Release
    /\ Up(u.active) /\ u.held # None
    /\ my' = [my EXCEPT ![c].tg = u.tg, ![c].todo = <<u.active, u.held>>]
    /\ u' = [u EXCEPT !.active = None, !.held = None, !.bridge = None, !.tg = None]
    /\ AfterReinvite(c, "xferUnhold", u.held)
    /\ UNCHANGED <<sip, tgs, pairs>>

Transferred(c) ==
    /\ Turn(c, "xferUnhold")
    /\ pairs' = pairs \cup {{my[c].todo[1], my[c].todo[2]}}
    /\ HangTg(my[c].tg) /\ Finish(c)
    /\ UNCHANGED <<sip, u, lockq>>

\* The watcher of the pair: either side ending ends both.
PairEnded(p) ==
    /\ running = None
    /\ \E l \in p : ~Alive(l)
    /\ sip' = [l \in Legs |-> IF l \in p THEN "dead" ELSE sip[l]]
    /\ pairs' = pairs \ {p}
    /\ UNCHANGED <<tgs, u, lockq, running, pc, my>>

\* _conference refers the held and the active leg to the room and then dials the room.
Conference(c) ==
    /\ Command(c, "conf") /\ Up(u.active)
    /\ \E l \in OutLegs :
        /\ pc[l] = "idle"
        /\ my' = [my EXCEPT ![c].leg = l, ![c].todo = Some(u.held) \o <<u.active>>]
        /\ pc' = [pc EXCEPT ![c] = "confRefer", ![l] = "reserved"]
    /\ UNCHANGED <<sip, tgs, u, pairs, lockq, running>>

\* A leg the PBX has taken over is ended; one REFER that fails ends the command.
ConfRefer(c) ==
    /\ At(c, "confRefer") /\ my[c].todo # <<>>
    /\ \/ /\ Up(Head(my[c].todo)) /\ End(Head(my[c].todo))
          /\ my' = [my EXCEPT ![c].todo = Tail(@)] /\ Await(c, "confRefer")
       \/ HandOver(c, "done") /\ sip' = sip
    /\ UNCHANGED <<tgs, u, pairs, lockq>>

ConfMoved(c) ==
    /\ At(c, "confRefer") /\ my[c].todo = <<>>
    /\ Acquire(c, "confLock")
    /\ UNCHANGED <<sip, tgs, u, pairs, my>>

ConfJoin(c) ==
    /\ Locked(c, "confLock") /\ Release
    /\ u' = [u EXCEPT !.active = None, !.held = None, !.bridge = None]
    /\ pc' = [pc EXCEPT ![c] = "done", ![my[c].leg] = "invite"] /\ running' = None
    /\ my' = [my EXCEPT ![c] = NoLocals]
    /\ UNCHANGED <<sip, tgs, pairs>>

-----------------------------------------------------------------------------
(* A notification that raises ends its task where it stands; leaving       *)
(* "async with" frees the lock.                                            *)

NotifyLabels == {"ringNotify", "ringMissed", "cbNotify", "recHold", "recFailed",
                 "dialFailed", "dialFailed2", "endNext", "unlock", "eeLegs"}

\* Mutant: a notice of _end_everything that raises frees the lock of another task.
NotifyRaiseMutant(p) ==
    /\ NotifyRaises
    /\ running = None /\ pc[p] \in NotifyLabels
    /\ lockq' = IF pc[p] \in HoldLabel \cup {"eeLegs"} /\ lockq # <<>> THEN Tail(lockq) ELSE lockq
    /\ IF pc[p] = "cbNotify" THEN HandOver(p, "done") ELSE Finish(p)
    /\ UNCHANGED <<sip, tgs, u, pairs>>

NotifyRaise(p) ==
    /\ NotifyRaises
    /\ running = None /\ pc[p] \in NotifyLabels
    /\ lockq' = IF pc[p] \in HoldLabel THEN Tail(lockq) ELSE lockq
    /\ IF pc[p] = "cbNotify" THEN HandOver(p, "done") ELSE Finish(p)
    /\ UNCHANGED <<sip, tgs, u, pairs>>

-----------------------------------------------------------------------------
(* The environment: far ends, the network, the Telegram engine.            *)

\* A far end hangs up, cancels or refuses, or a transaction times out.
SipEnds(l) ==
    /\ running = None
    /\ Alive(l) /\ End(l)
    /\ UNCHANGED <<tgs, u, pairs, lockq, running, pc, my>>

SipAnswers(l) ==
    /\ running = None
    /\ sip[l] = "calling" /\ sip' = [sip EXCEPT ![l] = "up"]
    /\ UNCHANGED <<tgs, u, pairs, lockq, running, pc, my>>

\* The user hangs up, or the connection is lost.
TgEnds(t) ==
    /\ running = None
    /\ tgs[t] = "up" /\ tgs' = [tgs EXCEPT ![t] = "ended"]
    /\ UNCHANGED <<sip, u, pairs, lockq, running, pc, my>>

\* A call being set up is refused or not answered in time; our own teardown completes.
TgGone(t) ==
    /\ running = None
    /\ tgs[t] \in {"setup", "closing"} /\ tgs' = [tgs EXCEPT ![t] = "ended"]
    /\ UNCHANGED <<sip, u, pairs, lockq, running, pc, my>>

-----------------------------------------------------------------------------

InLegStep(l) == OfferReject(l) \/ OfferWaiting(l) \/ OfferRing(l) \/ RingCall(l) \/ RingFail(l)
    \/ RingMissed(l) \/ RingGone(l) \/ RingCancelled(l) \/ RingWin(l) \/ RingAttach(l)

OutLegStep(l) == Invite(l) \/ DialResume(l) \/ DialResumed(l) \/ DialGiveUp(l) \/ DialAttach(l)

LegStep(l) == LegEnded(l) \/ EndIdle(l) \/ EndActive(l) \/ EndResume(l) \/ EndResumed(l)
    \/ EndAnswerWaiting(l) \/ EndHangTg(l) \/ WaitingTimeout(l)

TgStep(t) == AcceptFail(t) \/ AcceptOk(t) \/ Accepted(t) \/ TgEnded(t) \/ TgDropped(t) \/ TgGone(t)

RecStep(t) == RecStart(t) \/ RecCall(t) \/ RecFail(t) \/ RecWin(t) \/ RecAttach(t)
    \/ RecAttached(t) \/ RecAbandon(t) \/ RecEnd(t)

EeStep(p) == EndEverything(p) \/ EeCancelled(p) \/ EeLeg(p) \/ EeTg(p)

CommandStart(c) == Hangup(c) \/ Decline(c) \/ Switch(c) \/ Consult(c) \/ Callback(c)
    \/ Transfer(c) \/ Conference(c)

SwitchStep(c) == SwitchToWaiting(c) \/ SwitchedToWaiting(c) \/ SwitchToHeld(c) \/ SwitchedToHeld(c)

DialStep(c) == ConsultHold(c) \/ ConsultRaise(c) \/ ConsultHeld(c) \/ CbCall(c) \/ CbFail(c)
    \/ CbWin(c) \/ CbConnected(c) \/ DirectAttach(c) \/ DirectLost(c)

MoveStep(c) == TransferLegs(c) \/ Transferred(c) \/ ConfRefer(c) \/ ConfMoved(c) \/ ConfJoin(c)

\* What the handlers do by themselves, as against what far ends and users choose to do.
SystemStep(p) ==
    \/ p \in InLegs /\ InLegStep(p)
    \/ p \in OutLegs /\ OutLegStep(p)
    \/ p \in Legs /\ LegStep(p)
    \/ p \in TgCalls /\ (TgStep(p) \/ RecStep(p))
    \/ p \in Cmds /\ (SwitchStep(p) \/ DialStep(p) \/ MoveStep(p))
    \/ EeStep(p) \/ Unlock(p)

EnvironmentStep(p) ==
    \/ p \in InLegs /\ Arrive(p)
    \/ p \in OutLegs /\ SipAnswers(p)
    \/ p \in Legs /\ SipEnds(p)
    \/ p \in TgCalls /\ (TgIncoming(p) \/ TgDecline(p) \/ TgEnds(p))
    \/ p \in Cmds /\ CommandStart(p)
    \/ NotifyRaise(p)

\* The calls and commands of the run are over, or wait for the far ends.
Quiet ==
    /\ running = None /\ lockq = <<>>
    /\ \A p \in Proc : pc[p] \in {"idle", "done", "watch"}
    /\ UNCHANGED vars

Next ==
    \/ \E p \in Proc : SystemStep(p) \/ EnvironmentStep(p)
    \/ \E p \in pairs : PairEnded(p)
    \/ Quiet

Spec == Init /\ [][Next]_vars

\* The event loop runs every task that can go on; a request and a ring have time limits.
Fairness ==
    /\ \A p \in Proc : WF_vars(SystemStep(p))
    /\ WF_vars(\E p \in pairs : PairEnded(p))

FairSpec == Spec /\ Fairness

-----------------------------------------------------------------------------
(* Properties.                                                             *)

TypeOK ==
    /\ sip \in [Legs -> SipState] /\ tgs \in [TgCalls -> TgState]
    /\ u \in User /\ pairs \subseteq SUBSET Legs
    /\ lockq \in Seq(Proc) /\ running \in Proc \cup {None}
    /\ pc \in [Proc -> Label] /\ my \in [Proc -> Locals]

\* The audio bridge joins the calls the user is told about: a leg is never attached or dropped
\* without its bridge (_attach, _stop_bridge), and a bridge that outlives a change of the
\* Telegram call carries a call that is over, never a live one beside u.tg.
BridgeMatches == u.bridge # None =>
    u.bridge[1] = u.active /\ (u.bridge[2] = u.tg \/ tgs[u.bridge[2]] = "ended")

\* A leg with a live SIP call is always reachable: in a slot of the user, in a transferred
\* pair, or in the hands of a task that is still working on it.  A leg that is none of these
\* stays connected with nobody able to hang it up.
NoOrphanLeg == \A l \in Legs : Alive(l) /\ pc[l] = "watch" =>
    \/ l \in SlotLegs
    \/ \E p \in pairs : l \in p
    \/ \E p \in Proc : my[p].leg = l \/ \E i \in 1..Len(my[p].todo) : my[p].todo[i] = l

\* tg_pending is set only while a task is at work that will clear it; otherwise the user
\* answers 486 to every caller and cannot dial.
PendingBacked == u.pending => \E p \in Proc : pc[p] \in
    {"ringNotify", "ringing", "ringFailed", "ringCancel", "accepting", "accLock",
     "cbNotify", "cbCalling", "cbLock", "recCalling", "recLock", "eeCancel"}

\* The user's Telegram call has a watcher that has not finished: its end is never missed.
TgWatched == u.tg # None => pc[u.tg] \in {"watch", "tgEndLock"}

\* Every leg in a slot has a watcher that has not finished: its end clears the slot.
LegWatched == \A l \in SlotLegs : pc[l] \in {"watch", "endLock"}

\* One leg is never in two slots.
SlotsDistinct ==
    /\ u.active # None => u.active \notin {u.held, u.waiting}
    /\ u.held # None => u.held # u.waiting

\* A task never asks for the lock it holds: nobody would be served again.
NoSelfWait == \A i, j \in 1..Len(lockq) : lockq[i] = lockq[j] => i = j

\* A connected Telegram user is never left in silence: there is an active leg, or a task
\* that is attaching one or taking the call down.
TgServed == u.tg # None /\ tgs[u.tg] = "up" =>
    \/ u.active # None \/ lockq # <<>>
    \/ \E p \in Proc : pc[p] \in
           {"invite", "invite2", "dialFailed", "dialFailed2", "dialUnhold", "eeLegs"}

\* The code between acquiring and releasing UserState.lock runs for its holder only, though
\* tasks queue, are cancelled and raise meanwhile.
LockHeld == \A p \in Proc : pc[p] \in HoldLabel => lockq # <<>> /\ Head(lockq) = p

\* A Telegram call that has not been let go is replaced by another one only when one of the
\* two is over: _ring_users clears tg_pending before it waits for the lock, and whatever is
\* placed or accepted in that window, no live call loses its place to another live one.
TgKept == [][u.tg # None /\ u'.tg \notin {u.tg, None} =>
                 "ended" \in {tgs[u.tg], tgs[u'.tg]}]_vars

\* No caller is left ringing: an offered call is answered, rejected or given up.
NeverLeftRinging == \A l \in InLegs : sip[l] = "ringing" ~> sip[l] # "ringing"

\* When the Telegram call of the user ends, the legs in the slots end too (or talk to each
\* other after a transfer).
HangupEndsLegs == \A l \in Legs, t \in TgCalls :
    (u.tg = t /\ tgs[t] = "ended" /\ l \in SlotLegs) ~> (~Alive(l) \/ \E p \in pairs : l \in p)

\* The user does not stay busy with a call that is only being set up.
PendingSettles == u.pending ~> ~u.pending

\* Whoever waits for UserState.lock gets it and gives it back.
LockServed == \A p \in Proc : HasPlace(p) ~> ~HasPlace(p)

=============================================================================
