--------------------------- MODULE UserCallsSlots ---------------------------
(***************************************************************************)
(* Proofs about the slots active, held and waiting of a user who neither   *)
(* dials nor calls back, for any number of calls and of other commands:    *)
(* every leg in a slot has a watcher, no leg is in two slots, and, without *)
(* reconnection, the audio bridge joins the user's own calls.              *)
(*                                                                         *)
(* While a leg is put on hold or taken off it, it is in no slot: a task    *)
(* has it in its hands.  "Hands" says what such a task knows of the slots, *)
(* which stays true because it holds the lock.  "dial" and "direct" are    *)
(* left out because a consultation that fails resumes the held leg without *)
(* the lock (manager.py:615).                                              *)
(*                                                                         *)
(* The bridge may outlive a change of u.tg: _tg_incoming fills the slot    *)
(* beside an older call that is over.  That it is over follows from the    *)
(* order of the queue, "AccOrder".                                         *)
(*                                                                         *)
(* The last part is about the legs that are in no slot.  "NoneLost" says   *)
(* where each of them is: in a transferred pair, or with a task that works *)
(* on it.                                                                  *)
(***************************************************************************)
EXTENDS UserCallsQueue

-----------------------------------------------------------------------------
(* The inductive invariant.                                                *)

NoCalls == Kinds \cap {"dial", "direct"} = {}

\* Where a leg waits to be ended, where a task works on the slots, and where only the commands
\* that place a call lead.
Watching   == {"watch", "endLock"}
HandLabels == {"endNext", "endUnhold", "swHold", "swUnhold", "recUnhold"}
DialLabels == {"consLock", "consHold", "invite2", "dialFailed2", "dialUnhold", "cbNotify",
               "cbCalling", "cbLock", "dirHang"}

NoDial == \A p \in Proc : pc[p] \notin DialLabels

\* What a task that is changing the slots knows of them.
HandOf(p) ==
    /\ pc[p] \in {"endUnhold", "swHold"} =>
         my[p].leg \in Legs /\ pc[my[p].leg] \in Watching /\ my[p].leg \notin SlotLegs
    /\ pc[p] = "swUnhold" => my[p].leg = u.held /\ u.held # None /\ my[p].todo = Some(u.active)
    /\ pc[p] \in {"endNext", "endUnhold"} => u.active = None
    /\ pc[p] = "recUnhold" => my[p].leg = u.active
Hands == \A p \in Proc : HandOf(p)

SlotInv == NoDial /\ LegWatched /\ SlotsDistinct /\ Hands

-----------------------------------------------------------------------------
(* What a step of the task p may do.                                       *)

DialMove == \A q \in Proc : pc'[q] \in DialLabels => pc[q] \in DialLabels

SlotsKept == u'.active = u.active /\ u'.held = u.held /\ u'.waiting = u.waiting

\* Most steps leave the slots alone, and a leg that is in one keeps its watcher.
Plain(p) ==
    /\ DialMove /\ SlotsKept /\ pc'[p] \notin HandLabels
    /\ p \in Legs /\ pc[p] \in Watching =>
         pc'[p] \in Watching \/ (p \notin SlotLegs /\ HasLock(p))

\* Another step changes the slots under the lock.
Alone(p) == HasLock(p) \/ pc[p] \in HoldLabel

-----------------------------------------------------------------------------
(* What follows from it.                                                   *)

LEMMA HandsHold == HandLabels \subseteq HoldLabel /\ Watching \cap HoldLabel = {}
  BY DEF HandLabels, HoldLabel, Watching

\* Nobody works on the slots beside the holder of the lock.
LEMMA OnlyHolder ==
  ASSUME LockHeld, NEW p \in Proc, Alone(p), NEW q \in Proc, q # p
  PROVE  pc[q] \notin HandLabels
  BY HandsHold DEF LockHeld, Alone, HasLock

\* A step of a task does not touch the watcher of another.
LEMMA OthersWatch ==
  ASSUME PcT, NEW p \in Proc, OthersMove(p), NEW q \in Proc, q # p
  PROVE  /\ pc[q] \in Watching => pc'[q] \in Watching
         /\ pc'[q] \in HandLabels => pc[q] \in HandLabels /\ my'[q] = my[q]
  BY DEF OthersMove, Untouched, Begins, Cancels, Watching, HandLabels

\* A leg in a slot is watched after a step of another task.
LEMMA WatchKept ==
  ASSUME PcT, UT, SlotInv, NEW p \in Proc, OthersMove(p), NEW l \in SlotLegs \ {p}
  PROVE  l \in Legs /\ pc[l] \in Watching /\ pc'[l] \in Watching
  <1>1. l \in Legs BY SlotT DEF SlotLegs
  <1>2. pc[l] \in Watching BY DEF SlotInv, LegWatched, Watching
  <1> QED BY <1>1, <1>2, OthersWatch DEF Proc

LEMMA PlainKeeps ==
  ASSUME PcT, MyT, UT, LockHeld, SlotInv, NEW p \in Proc, OthersMove(p), Plain(p)
  PROVE  SlotInv'
  <1>1. NoDial' BY DEF Plain, DialMove, SlotInv, NoDial
  <1>2. SlotsDistinct' BY DEF Plain, SlotsKept, SlotInv, SlotsDistinct
  <1>3. SlotLegs' = SlotLegs BY DEF Plain, SlotsKept, SlotLegs
  <1>4. SlotLegs \subseteq Proc BY SlotT DEF SlotLegs, Proc
  <1>5. LegWatched'
    <2> SUFFICES ASSUME NEW l \in SlotLegs PROVE pc'[l] \in Watching
      BY <1>3 DEF LegWatched, Watching
    <2>1. l \in Proc \cap Legs /\ pc[l] \in Watching BY <1>4, SlotT
         DEF SlotInv, LegWatched, Watching, SlotLegs
    <2> QED BY <2>1, OthersWatch DEF Plain
  <1>6. ASSUME NEW q \in Proc, pc'[q] \in HandLabels PROVE HandOf(q)'
    <2>1. q # p /\ pc'[q] = pc[q] /\ my'[q] = my[q] BY <1>6, OthersWatch
         DEF Plain, OthersMove, Untouched, Begins, Cancels, HandLabels
    <2>2. HandOf(q) BY DEF SlotInv, Hands
    <2>3. ASSUME my[q].leg \in Legs, pc[my[q].leg] \in Watching
          PROVE  pc'[my[q].leg] \in Watching
      <3>1. my[q].leg \in Proc BY <2>3 DEF Proc
      <3>2. ~Alone(p) BY <1>6, <2>1, OnlyHolder
      <3>3. CASE my[q].leg = p BY <2>3, <3>2, <3>3 DEF Plain, Alone
      <3>4. CASE my[q].leg # p BY <2>3, <3>1, <3>4, OthersWatch
      <3> QED BY <3>3, <3>4
    <2> QED BY <1>3, <2>1, <2>2, <2>3 DEF HandOf, Plain, SlotsKept, Some
  <1>7. Hands' BY <1>6 DEF Hands, HandOf, HandLabels
  <1> QED BY <1>1, <1>2, <1>5, <1>7 DEF SlotInv

LEMMA AloneKeeps ==
  ASSUME PcT, UT, LockHeld, SlotInv, NEW p \in Proc, Alone(p), OthersMove(p), DialMove,
         \A l \in SlotLegs' : l \in SlotLegs \ {p} \/ pc'[l] \in Watching,
         SlotsDistinct', HandOf(p)'
  PROVE  SlotInv'
  <1>1. NoDial' BY DEF DialMove, SlotInv, NoDial
  <1>2. LegWatched' BY WatchKept DEF LegWatched, Watching
  <1>3. ASSUME NEW q \in Proc, q # p PROVE HandOf(q)'
    <2>1. pc'[q] \notin HandLabels BY <1>3, OnlyHolder, OthersWatch
    <2> QED BY <2>1 DEF HandOf, HandLabels
  <1>4. Hands' BY <1>3 DEF Hands
  <1> QED BY <1>1, <1>2, <1>4 DEF SlotInv

LEMMA StillSlots == ASSUME SlotInv, Still PROVE SlotInv'
  BY DEF Still, SlotInv, NoDial, LegWatched, SlotsDistinct, Hands, HandOf, SlotLegs

USE NoneAssumption, DisjointAssumption
    DEF Inv, Typed, Guarded, LockHeld, Plain, DialMove, SlotsKept, Watching, HandLabels, DialLabels,
        SlotLegs, PcT, MyT, UT, User, Locals, LocalsOK, Reserved, ResLabels, Proc, Legs

\* _sip_incoming and _ring_users.
LEMMA InLegStepSlots ==
  ASSUME Inv, Watched, Reserved, SlotInv, NoCalls, NEW p \in InLegs,
         OthersMove(p), InLegStep(p)
  PROVE  Plain(p) \/ SlotInv'
  <1> p \in Proc OBVIOUS
  <1>1. ASSUME OfferReject(p) PROVE Plain(p) BY <1>1 DEF OfferReject, Turn, Finish, Await
  <1>2. CASE OfferWaiting(p)
    <2>1. DialMove /\ pc[p] = "offer" /\ pc'[p] \in {"watch", "done"}
      BY <1>2 DEF OfferWaiting, Turn, Await, Finish
    <2>2. CASE ~CanWait
      <3>1. u' = u BY <1>2, <2>2 DEF OfferWaiting
      <3> QED BY <2>1, <3>1
    <2>3. CASE CanWait
      <3>1. u' = [u EXCEPT !.waiting = p] /\ pc'[p] = "watch" BY <1>2, <2>3
           DEF OfferWaiting, Await
      <3>2. u \in User OBVIOUS
      <3>3. u'.waiting = p /\ u'.active = u.active /\ u'.held = u.held
        BY ONLY <3>1, <3>2 DEF User
      <3>4. p \notin SlotLegs BY <2>1 DEF SlotInv, LegWatched
      <3>5. NoDial' BY <2>1 DEF SlotInv, NoDial
      <3>6. LegWatched'
        <4> SUFFICES ASSUME NEW l \in SlotLegs' PROVE pc'[l] \in Watching
          BY DEF LegWatched
        <4>1. l = p \/ l \in SlotLegs \ {p} BY <3>3
        <4> QED BY <3>1, <4>1, WatchKept
      <3>7. SlotsDistinct' BY <3>3, <3>4 DEF SlotInv, SlotsDistinct
      <3>8. ASSUME NEW q \in Proc, q # p, pc'[q] \in HandLabels PROVE HandOf(q)'
        <4>1. pc'[q] = pc[q] /\ my'[q] = my[q] BY <3>8, OthersWatch
             DEF OthersMove, Untouched, Begins, Cancels
        <4>2. HandOf(q) BY DEF SlotInv, Hands
        <4>3. CASE pc[q] \in {"endUnhold", "swHold"}
          <5>1. /\ my[q].leg \in Legs /\ pc[my[q].leg] \in Watching /\ my[q].leg \notin SlotLegs
                /\ my[q].leg # p
            BY <2>1, <4>2, <4>3 DEF HandOf
          <5>2. pc'[my[q].leg] \in Watching BY <5>1, OthersWatch
          <5>3. my[q].leg \notin SlotLegs' BY <3>3, <5>1
          <5> QED BY <3>3, <4>1, <4>2, <5>1, <5>2, <5>3 DEF HandOf
        <4>4. CASE pc[q] \notin {"endUnhold", "swHold"}
          BY <3>3, <4>1, <4>2, <4>4 DEF HandOf, Some
        <4> QED BY <4>3, <4>4
      <3>9. Hands' BY <3>1, <3>8 DEF Hands, HandOf
      <3> QED BY <3>5, <3>6, <3>7, <3>9 DEF SlotInv
    <2> QED BY <2>2, <2>3
  <1>3. ASSUME OfferRing(p) PROVE Plain(p) BY <1>3 DEF OfferRing, Turn, Either
  <1>4. ASSUME RingCall(p) PROVE Plain(p) BY <1>4 DEF RingCall, Turn, PlaceCall, Fresh, Await
  <1>5. ASSUME RingFail(p) PROVE Plain(p) BY <1>5 DEF RingFail, At, Either
  <1>6. ASSUME RingMissed(p) PROVE Plain(p) BY <1>6 DEF RingMissed, Turn, Finish, Await
  <1>7. ASSUME RingGone(p) PROVE Plain(p) BY <1>7 DEF RingGone, At, GoOn, Await
  <1>8. ASSUME RingCancelled(p) PROVE Plain(p) BY <1>8 DEF RingCancelled, Turn, Finish, Await
  <1>9. ASSUME RingWin(p) PROVE Plain(p) BY <1>9 DEF RingWin, At, Acquire, Queue
  <1>10. CASE RingAttach(p)
    <2>1. /\ pc[p] = "ringLock" /\ pc'[p] = "watch"
          /\ Alone(p)
      BY <1>10 DEF RingAttach, Locked, Turn, HasLock, Release, Attached, Alone, HoldLabel
    <2>2. DialMove BY <1>10 DEF RingAttach, Locked, Turn, HasLock, Release, Attached
    <2>3. u'.active = p /\ u'.held = u.held /\ u'.waiting = u.waiting
      <3>1. u' = [[u EXCEPT !.tg = my[p].tg] EXCEPT !.active = p, !.bridge = <<p, my[p].tg>>]
        BY <1>10 DEF RingAttach, Attached
      <3>2. u \in User OBVIOUS
      <3> QED BY ONLY <3>1, <3>2 DEF User
    <2>4. \A l \in SlotLegs' : l \in SlotLegs \ {p} \/ pc'[l] \in Watching
      BY <2>1, <2>3 DEF SlotInv, LegWatched, SlotsDistinct
    <2>5. SlotsDistinct' BY <2>1, <2>3 DEF SlotInv, LegWatched, SlotsDistinct
    <2>6. HandOf(p)' BY <2>1, <2>3 DEF HandOf
    <2> QED BY <2>1, <2>2, <2>4, <2>5, <2>6, AloneKeeps
  <1> QED BY <1>1, <1>2, <1>3, <1>4, <1>5, <1>6, <1>7, <1>8, <1>9, <1>10 DEF InLegStep

\* _dial_leg.
LEMMA OutLegStepSlots ==
  ASSUME Inv, Watched, Reserved, SlotInv, NoCalls, NEW p \in OutLegs,
         OthersMove(p), OutLegStep(p)
  PROVE  Plain(p) \/ SlotInv'
  <1> p \in Proc OBVIOUS
  <1>1. ASSUME Invite(p) PROVE Plain(p) BY <1>1 DEF Invite, Turn, Acquire, Queue, Await
  <1>2. CASE DialResume(p) BY <1>2 DEF DialResume, At, SlotInv, NoDial
  <1>3. CASE DialResumed(p) BY <1>3 DEF DialResumed, Turn, SlotInv, NoDial
  <1>4. ASSUME DialGiveUp(p) PROVE Plain(p)
    BY <1>4 DEF DialGiveUp, At, Acquire, Queue, Finish, Await
  <1>5. CASE DialAttach(p)
    <2>1. pc[p] = "dialLock" /\ pc'[p] \in {"dialHang", "watch"} /\ Alone(p)
      BY <1>5 DEF DialAttach, Locked, Turn, Either, Await, Alone
    <2>2. DialMove BY <1>5 DEF DialAttach, Either, Await
    <2>3. CASE u.tg = None
      <3>1. u' = u BY <1>5, <2>3 DEF DialAttach
      <3> QED BY <2>1, <2>2, <3>1
    <2>4. CASE u.tg # None
      <3>1. u' = [u EXCEPT !.active = p, !.bridge = <<p, u.tg>>] /\ pc'[p] = "watch"
        BY <1>5, <2>4 DEF DialAttach, Attached, Await
      <3>2. u \in User OBVIOUS
      <3>3. u'.active = p /\ u'.held = u.held /\ u'.waiting = u.waiting
        BY ONLY <3>1, <3>2 DEF User
      <3>4. \A l \in SlotLegs' : l \in SlotLegs \ {p} \/ pc'[l] \in Watching
        BY <2>1, <3>1, <3>3 DEF SlotInv, LegWatched
      <3>5. SlotsDistinct' BY <2>1, <3>3 DEF SlotInv, LegWatched, SlotsDistinct
      <3>6. HandOf(p)' BY <3>1 DEF HandOf
      <3> QED BY <2>1, <2>2, <3>4, <3>5, <3>6, AloneKeeps
    <2> QED BY <2>3, <2>4
  <1> QED BY <1>1, <1>2, <1>3, <1>4, <1>5 DEF OutLegStep

\* The watcher of a leg.
LEMMA LegStepSlots ==
  ASSUME Inv, Watched, Reserved, SlotInv, NoCalls, NEW p \in Legs,
         OthersMove(p), LegStep(p)
  PROVE  Plain(p) \/ SlotInv'
  <1> p \in Proc OBVIOUS
  <1>1. ASSUME LegEnded(p) PROVE Plain(p) BY <1>1 DEF LegEnded, At, Acquire, Queue
  <1>2. CASE EndIdle(p)
    <2>1. pc[p] = "endLock" /\ pc'[p] = "unlock" /\ Alone(p)
      BY <1>2 DEF EndIdle, Locked, Turn, Await, Alone
    <2>2. DialMove BY <1>2 DEF EndIdle, Await
    <2>3. /\ u'.active = u.active
          /\ \/ u.waiting = p /\ u'.waiting = None /\ u'.held = u.held
             \/ u.held = p /\ u'.held = None /\ u'.waiting = u.waiting
      <3>1. \/ u.waiting = p /\ u' = [u EXCEPT !.waiting = None]
            \/ u.held = p /\ u' = [u EXCEPT !.held = None]
        BY <1>2 DEF EndIdle
      <3>2. u \in User OBVIOUS
      <3> QED BY ONLY <3>1, <3>2 DEF User
    <2>4. \A l \in SlotLegs' : l \in SlotLegs \ {p} \/ pc'[l] \in Watching
      BY <2>3 DEF SlotInv, SlotsDistinct
    <2>5. SlotsDistinct' BY <2>3 DEF SlotInv, SlotsDistinct
    <2>6. HandOf(p)' BY <2>1 DEF HandOf
    <2> QED BY <2>1, <2>2, <2>4, <2>5, <2>6, AloneKeeps
  <1>3. CASE EndActive(p)
    <2>1. /\ pc[p] = "endLock" /\ pc'[p] = "endNext"
          /\ Alone(p)
      BY <1>3 DEF EndActive, Locked, Turn, HasLock, Either, Alone, HoldLabel
    <2>2. DialMove BY <1>3 DEF EndActive, Locked, Turn, HasLock, Either
    <2>3. u'.active = None /\ u'.held = u.held /\ u'.waiting = u.waiting
      <3>1. u' = [u EXCEPT !.active = None, !.bridge = None] BY <1>3 DEF EndActive
      <3>2. u \in User OBVIOUS
      <3> QED BY ONLY <3>1, <3>2 DEF User
    <2>7. p \notin {u.waiting, u.held} /\ u.active = p BY <1>3 DEF EndActive
    <2>4. \A l \in SlotLegs' : l \in SlotLegs \ {p} \/ pc'[l] \in Watching
      BY <2>1, <2>3, <2>7 DEF SlotInv, LegWatched, SlotsDistinct
    <2>5. SlotsDistinct' BY <2>1, <2>3, <2>7 DEF SlotInv, LegWatched, SlotsDistinct
    <2>6. HandOf(p)' BY <2>1, <2>3, <2>7 DEF HandOf
    <2> QED BY <2>1, <2>2, <2>4, <2>5, <2>6, AloneKeeps
  <1>4. CASE EndResume(p)
    <2>1. /\ pc[p] = "endNext" /\ pc'[p] = "endUnhold"
          /\ Alone(p)
      BY <1>4 DEF EndResume, Turn, AfterReinvite, Alone, HoldLabel
    <2>2. DialMove BY <1>4 DEF EndResume, Turn, AfterReinvite
    <2>3. u'.active = u.active /\ u'.held = None /\ u'.waiting = u.waiting
      <3>1. u' = [u EXCEPT !.held = None] BY <1>4 DEF EndResume
      <3>2. u \in User OBVIOUS
      <3> QED BY ONLY <3>1, <3>2 DEF User
    <2>7. HandOf(p) BY DEF SlotInv, Hands
    <2>8. u.active = None BY <2>1, <2>7 DEF HandOf
    <2>9. my'[p].leg = u.held /\ u.held \in SlotLegs \ {p}
      BY <1>4, <2>1 DEF EndResume, SlotInv, LegWatched
    <2>10. my'[p].leg \in Legs /\ pc'[my'[p].leg] \in Watching BY <2>9, WatchKept
    <2>4. \A l \in SlotLegs' : l \in SlotLegs \ {p} \/ pc'[l] \in Watching
      BY <2>1, <2>3, <2>8 DEF SlotInv, LegWatched, SlotsDistinct
    <2>5. SlotsDistinct' BY <2>1, <2>3, <2>8 DEF SlotInv, LegWatched, SlotsDistinct
    <2>6. HandOf(p)' BY <2>1, <2>3, <2>8, <2>9, <2>10 DEF HandOf, SlotInv, SlotsDistinct
    <2> QED BY <2>1, <2>2, <2>4, <2>5, <2>6, AloneKeeps
  <1>5. CASE EndResumed(p)
    <2>1. /\ pc[p] = "endUnhold" /\ pc'[p] = "unlock"
          /\ Alone(p)
      BY <1>5 DEF EndResumed, Turn, Attached, Await, Alone, HoldLabel
    <2>2. DialMove BY <1>5 DEF EndResumed, Turn, Attached, Await
    <2>3. u'.active = my[p].leg /\ u'.held = u.held /\ u'.waiting = u.waiting
      <3>1. u' = [u EXCEPT !.active = my[p].leg, !.bridge = <<my[p].leg, u.tg>>]
        BY <1>5 DEF EndResumed, Attached
      <3>2. u \in User OBVIOUS
      <3> QED BY ONLY <3>1, <3>2 DEF User
    <2>7. HandOf(p) BY DEF SlotInv, Hands
    <2>8. /\ my[p].leg \in Legs /\ pc[my[p].leg] \in Watching /\ my[p].leg \notin SlotLegs
          /\ my[p].leg # p
      BY <2>1, <2>7 DEF HandOf
    <2>9. pc'[my[p].leg] \in Watching BY <2>8, OthersWatch
    <2>4. \A l \in SlotLegs' : l \in SlotLegs \ {p} \/ pc'[l] \in Watching
      BY <2>1, <2>3, <2>8, <2>9 DEF SlotInv, LegWatched, SlotsDistinct
    <2>5. SlotsDistinct' BY <2>1, <2>3, <2>8, <2>9 DEF SlotInv, LegWatched, SlotsDistinct
    <2>6. HandOf(p)' BY <2>1, <2>3, <2>8, <2>9 DEF HandOf
    <2> QED BY <2>1, <2>2, <2>4, <2>5, <2>6, AloneKeeps
  <1>6. CASE EndAnswerWaiting(p)
    <2>1. /\ pc[p] = "endNext" /\ pc'[p] = "unlock"
          /\ Alone(p)
      BY <1>6 DEF EndAnswerWaiting, Turn, Attached, Await, Alone, HoldLabel
    <2>2. DialMove BY <1>6 DEF EndAnswerWaiting, Turn, Attached, Await
    <2>3. u'.active = u.waiting /\ u'.held = u.held /\ u'.waiting = None
      <3>1. u' = [[u EXCEPT !.waiting = None] EXCEPT !.active = u.waiting,
                     !.bridge = <<u.waiting, u.tg>>]
        BY <1>6 DEF EndAnswerWaiting, Attached
      <3>2. u \in User OBVIOUS
      <3> QED BY ONLY <3>1, <3>2 DEF User
    <2>7. HandOf(p) BY DEF SlotInv, Hands
    <2>8. u.held = None /\ u.waiting # None BY <1>6 DEF EndAnswerWaiting
    <2>4. \A l \in SlotLegs' : l \in SlotLegs \ {p} \/ pc'[l] \in Watching
      BY <2>1, <2>3, <2>8 DEF SlotInv, LegWatched, SlotsDistinct
    <2>5. SlotsDistinct' BY <2>1, <2>3, <2>8 DEF SlotInv, LegWatched, SlotsDistinct
    <2>6. HandOf(p)' BY <2>1, <2>3, <2>8 DEF HandOf
    <2> QED BY <2>1, <2>2, <2>4, <2>5, <2>6, AloneKeeps
  <1>7. ASSUME EndHangTg(p) PROVE Plain(p) BY <1>7 DEF EndHangTg, Turn, Await
  <1>8. CASE WaitingTimeout(p)
    <2>1. Still BY <1>8 DEF WaitingTimeout, Still
    <2> QED BY <2>1, StillSlots
  <1> QED BY <1>1, <1>2, <1>3, <1>4, <1>5, <1>6, <1>7, <1>8 DEF LegStep

\* _tg_incoming and the watcher of a Telegram call.
LEMMA TgStepSlots ==
  ASSUME Inv, Watched, Reserved, SlotInv, NoCalls, NEW p \in TgCalls,
         OthersMove(p), TgStep(p)
  PROVE  Plain(p) \/ SlotInv'
  <1> p \in Proc OBVIOUS
  <1>1. ASSUME AcceptFail(p) PROVE Plain(p) BY <1>1 DEF AcceptFail, At, HandOver
  <1>2. ASSUME AcceptOk(p) PROVE Plain(p) BY <1>2 DEF AcceptOk, At, Acquire, Queue
  <1>3. CASE Accepted(p)
    <2>1. pc[p] = "accLock" /\ pc'[p] = "watch" BY <1>3 DEF Accepted, Locked, Turn, HasLock, Release
    <2>2. DialMove BY <1>3 DEF Accepted, Locked, Turn, HasLock, Release
    <2>3. SlotsKept
      <3>1. u' = [u EXCEPT !.pending = FALSE, !.tg = p] BY <1>3 DEF Accepted
      <3>2. u \in User OBVIOUS
      <3> QED BY ONLY <3>1, <3>2 DEF User, SlotsKept
    <2> QED BY <2>1, <2>2, <2>3
  <1>4. ASSUME TgEnded(p) PROVE Plain(p) BY <1>4 DEF TgEnded, At, Acquire, Queue, Finish, Await
  <1>5. CASE TgDropped(p)
    <2>1. pc[p] = "tgEndLock" /\ pc'[p] \in {"recStart", "eeLock"}
      BY <1>5 DEF TgDropped, Locked, Turn, HasLock, Release, Await, Queue
    <2>2. DialMove BY <1>5 DEF TgDropped, Locked, Turn, HasLock, Release, Await, Queue
    <2>3. SlotsKept
      <3>1. \/ u' = [u EXCEPT !.tg = None, !.bridge = None, !.reconnect = p]
            \/ u' = [u EXCEPT !.tg = None, !.bridge = None]
        BY <1>5 DEF TgDropped
      <3>2. u \in User OBVIOUS
      <3> QED BY ONLY <3>1, <3>2 DEF User, SlotsKept
    <2> QED BY <2>1, <2>2, <2>3
  <1>6. CASE TgGone(p)
    <2>1. Still BY <1>6 DEF TgGone, Still
    <2> QED BY <2>1, StillSlots
  <1> QED BY <1>1, <1>2, <1>3, <1>4, <1>5, <1>6 DEF TgStep

\* _reconnect.
LEMMA RecStepSlots ==
  ASSUME Inv, Watched, Reserved, SlotInv, NoCalls, NEW p \in TgCalls,
         OthersMove(p), RecStep(p)
  PROVE  Plain(p) \/ SlotInv'
  <1> p \in Proc OBVIOUS
  <1>1. ASSUME RecStart(p) PROVE Plain(p) BY <1>1 DEF RecStart, At, Await, Finish
  <1>2. CASE RecCall(p)
    <2>1. pc[p] = "recHold" /\ pc'[p] \in {"recCalling", "recFailed"}
      BY <1>2 DEF RecCall, At, PlaceCall, Fresh, Await
    <2>2. DialMove BY <1>2 DEF RecCall, At, PlaceCall, Fresh, Await
    <2>3. SlotsKept
      <3>1. \/ u' = [u EXCEPT !.pending = TRUE]
            \/ u' = [u EXCEPT !.pending = FALSE, !.reconnect = None]
        BY <1>2 DEF RecCall
      <3>2. u \in User OBVIOUS
      <3> QED BY ONLY <3>1, <3>2 DEF User, SlotsKept
    <2> QED BY <2>1, <2>2, <2>3
  <1>3. ASSUME RecFail(p) PROVE Plain(p) BY <1>3 DEF RecFail, At, Await
  <1>4. ASSUME RecWin(p) PROVE Plain(p) BY <1>4 DEF RecWin, At, Acquire, Queue
  <1>5. CASE RecAttach(p)
    <2>1. /\ pc[p] = "recLock" /\ pc'[p] = "recUnhold"
          /\ Alone(p)
      BY <1>5 DEF RecAttach, Locked, Turn, HasLock, Alone, HoldLabel
    <2>2. DialMove BY <1>5 DEF RecAttach, Locked, Turn, HasLock
    <2>3. u'.active = u.active /\ u'.held = u.held /\ u'.waiting = u.waiting
      <3>1. u' = [u EXCEPT !.pending = FALSE, !.reconnect = None, !.tg = my[p].tg]
        BY <1>5 DEF RecAttach
      <3>2. u \in User OBVIOUS
      <3> QED BY ONLY <3>1, <3>2 DEF User
    <2>8. u.active = my[p].leg /\ my'[p] = my[p] BY <1>5 DEF RecAttach
    <2>4. \A l \in SlotLegs' : l \in SlotLegs \ {p} \/ pc'[l] \in Watching
      BY <2>1, <2>3, <2>8 DEF SlotInv, LegWatched, SlotsDistinct
    <2>5. SlotsDistinct' BY <2>1, <2>3, <2>8 DEF SlotInv, LegWatched, SlotsDistinct
    <2>6. HandOf(p)' BY <2>1, <2>3, <2>8 DEF HandOf
    <2> QED BY <2>1, <2>2, <2>4, <2>5, <2>6, AloneKeeps
  <1>6. CASE RecAttached(p)
    <2>1. pc[p] = "recUnhold" /\ pc'[p] = "done"
      BY <1>6 DEF RecAttached, Turn, Release, Attached, Finish, Await
    <2>2. DialMove BY <1>6 DEF RecAttached, Turn, Release, Attached, Finish, Await
    <2>3. SlotsKept
      <3>1. u' = [u EXCEPT !.active = my[p].leg, !.bridge = <<my[p].leg, u.tg>>]
        BY <1>6 DEF RecAttached, Attached
      <3>2. my[p].leg = u.active BY <2>1 DEF SlotInv, Hands, HandOf
      <3>3. u \in User OBVIOUS
      <3> QED BY ONLY <3>1, <3>2, <3>3 DEF User, SlotsKept
    <2> QED BY <2>1, <2>2, <2>3
  <1>7. ASSUME RecAbandon(p) PROVE Plain(p) BY <1>7 DEF RecAbandon, Locked, Turn, HasLock, Await
  <1>8. ASSUME RecEnd(p) PROVE Plain(p) BY <1>8 DEF RecEnd, At, Acquire, Queue
  <1> QED BY <1>1, <1>2, <1>3, <1>4, <1>5, <1>6, <1>7, <1>8 DEF RecStep

\* _end_everything.
LEMMA EeStepSlots ==
  ASSUME Inv, Watched, Reserved, SlotInv, NoCalls, NEW p \in Proc,
         OthersMove(p), EeStep(p)
  PROVE  Plain(p) \/ SlotInv'
  <1>1. CASE EndEverything(p)
    <2>1. Alone(p) /\ pc'[p] \in {"eeCancel", "eeLegs"} BY <1>1 DEF EndEverything, Locked, Alone
    <2>2. DialMove BY <1>1 DEF EndEverything
    <2>3. u'.active = None /\ u'.held = None /\ u'.waiting = None
      <3>1. u' = [u EXCEPT !.active = None, !.held = None, !.waiting = None,
                           !.bridge = None, !.tg = None, !.reconnect = None]
        BY <1>1 DEF EndEverything
      <3>2. u \in User OBVIOUS
      <3> QED BY ONLY <3>1, <3>2 DEF User
    <2>4. \A l \in SlotLegs' : l \in SlotLegs \ {p} \/ pc'[l] \in Watching BY <2>3
    <2>5. SlotsDistinct' BY <2>3 DEF SlotsDistinct
    <2>6. HandOf(p)' BY <2>1 DEF HandOf
    <2> QED BY <2>1, <2>2, <2>4, <2>5, <2>6, AloneKeeps
  <1>2. ASSUME EeCancelled(p) PROVE Plain(p) BY <1>2 DEF EeCancelled, Turn, Release, GoOn
  <1>3. ASSUME EeLeg(p) PROVE Plain(p) BY <1>3 DEF EeLeg, Turn, Either
  <1>4. ASSUME EeTg(p) PROVE Plain(p) BY <1>4 DEF EeTg, Turn, Finish, Await
  <1> QED BY <1>1, <1>2, <1>3, <1>4 DEF EeStep

\* The commands.
LEMMA CommandStartSlots ==
  ASSUME Inv, Watched, Reserved, SlotInv, NoCalls, NEW p \in Cmds,
         OthersMove(p), CommandStart(p)
  PROVE  Plain(p) \/ SlotInv'
  <1> p \in Proc OBVIOUS
  <1>1. ASSUME Hangup(p) PROVE Plain(p)
    BY <1>1 DEF Hangup, Command, At, Finish, Await, Acquire, Queue
  <1>2. ASSUME Decline(p) PROVE Plain(p) BY <1>2 DEF Decline, Command, At, Finish, Await
  <1>3. ASSUME Switch(p) PROVE Plain(p) BY <1>3 DEF Switch, Command, At, Acquire, Queue
  <1>4. CASE Consult(p) BY <1>4 DEF Consult, Command, NoCalls
  <1>5. CASE Callback(p) BY <1>5 DEF Callback, Command, NoCalls
  <1>6. ASSUME Transfer(p) PROVE Plain(p) BY <1>6 DEF Transfer, Command, At, Acquire, Queue
  <1>7. ASSUME Conference(p) PROVE Plain(p) BY <1>7 DEF Conference, Command, At
  <1> QED BY <1>1, <1>2, <1>3, <1>4, <1>5, <1>6, <1>7 DEF CommandStart

\* _switch.
LEMMA SwitchStepSlots ==
  ASSUME Inv, Watched, Reserved, SlotInv, NoCalls, NEW p \in Cmds,
         OthersMove(p), SwitchStep(p)
  PROVE  Plain(p) \/ SlotInv'
  <1> p \in Proc OBVIOUS
  <1>1. CASE SwitchToWaiting(p)
    <2>1. /\ pc[p] = "swLock" /\ pc'[p] = "swHold"
          /\ Alone(p)
      BY <1>1 DEF SwitchToWaiting, Locked, Turn, HasLock, AfterReinvite, Alone, HoldLabel
    <2>2. DialMove BY <1>1 DEF SwitchToWaiting, Locked, Turn, HasLock, AfterReinvite
    <2>3. u'.active = u.active /\ u'.held = u.held /\ u'.waiting = None
      <3>1. u' = [u EXCEPT !.waiting = None,
                     !.bridge = IF u.active # None THEN None ELSE @]
        BY <1>1 DEF SwitchToWaiting
      <3>2. u \in User OBVIOUS
      <3> QED BY ONLY <3>1, <3>2 DEF User
    <2>9. my'[p].leg = u.waiting /\ u.waiting \in SlotLegs \ {p}
      BY <1>1, <2>1 DEF SwitchToWaiting, SlotInv, LegWatched
    <2>10. my'[p].leg \in Legs /\ pc'[my'[p].leg] \in Watching BY <2>9, WatchKept
    <2>4. \A l \in SlotLegs' : l \in SlotLegs \ {p} \/ pc'[l] \in Watching
      BY <2>1, <2>3 DEF SlotInv, LegWatched, SlotsDistinct
    <2>5. SlotsDistinct' BY <2>1, <2>3 DEF SlotInv, LegWatched, SlotsDistinct
    <2>6. HandOf(p)' BY <2>1, <2>3, <2>9, <2>10 DEF HandOf, SlotInv, SlotsDistinct
    <2> QED BY <2>1, <2>2, <2>4, <2>5, <2>6, AloneKeeps
  <1>2. CASE SwitchedToWaiting(p)
    <2>1. /\ pc[p] = "swHold" /\ pc'[p] = "unlock"
          /\ Alone(p)
      BY <1>2 DEF SwitchedToWaiting, Turn, Attached, Await, Alone, HoldLabel
    <2>2. DialMove BY <1>2 DEF SwitchedToWaiting, Turn, Attached, Await
    <2>3. /\ u'.active = my[p].leg /\ u'.waiting = u.waiting
          /\ u'.held = (IF u.active # None THEN u.active ELSE u.held)
      <3>1. u' = [[u EXCEPT !.held = IF u.active # None THEN u.active ELSE @]
                     EXCEPT !.active = my[p].leg, !.bridge = <<my[p].leg, u.tg>>]
        BY <1>2 DEF SwitchedToWaiting, Attached
      <3>2. u \in User OBVIOUS
      <3> QED BY ONLY <3>1, <3>2 DEF User
    <2>7. HandOf(p) BY DEF SlotInv, Hands
    <2>8. /\ my[p].leg \in Legs /\ pc[my[p].leg] \in Watching /\ my[p].leg \notin SlotLegs
          /\ my[p].leg # p
      BY <2>1, <2>7 DEF HandOf
    <2>9. pc'[my[p].leg] \in Watching BY <2>8, OthersWatch
    <2>4. \A l \in SlotLegs' : l \in SlotLegs \ {p} \/ pc'[l] \in Watching
      BY <2>1, <2>3, <2>8, <2>9 DEF SlotInv, LegWatched, SlotsDistinct
    <2>5. SlotsDistinct' BY <2>1, <2>3, <2>8, <2>9 DEF SlotInv, LegWatched, SlotsDistinct
    <2>6. HandOf(p)' BY <2>1, <2>3, <2>8, <2>9 DEF HandOf
    <2> QED BY <2>1, <2>2, <2>4, <2>5, <2>6, AloneKeeps
  <1>3. CASE SwitchToHeld(p)
    <2>1. /\ pc[p] = "swLock" /\ pc'[p] = "swUnhold"
          /\ Alone(p)
      BY <1>3 DEF SwitchToHeld, Locked, Turn, HasLock, Either, Alone, HoldLabel
    <2>2. DialMove BY <1>3 DEF SwitchToHeld, Locked, Turn, HasLock, Either
    <2>3. u'.active = u.active /\ u'.held = u.held /\ u'.waiting = u.waiting
      <3>1. u' = [u EXCEPT !.bridge = IF u.active # None THEN None ELSE @] BY <1>3 DEF SwitchToHeld
      <3>2. u \in User OBVIOUS
      <3> QED BY ONLY <3>1, <3>2 DEF User
    <2>8. u.held # None /\ my'[p].leg = u.held /\ my'[p].todo = Some(u.active)
      BY <1>3 DEF SwitchToHeld
    <2>4. \A l \in SlotLegs' : l \in SlotLegs \ {p} \/ pc'[l] \in Watching
      BY <2>1, <2>3 DEF SlotInv, LegWatched, SlotsDistinct
    <2>5. SlotsDistinct' BY <2>1, <2>3 DEF SlotInv, LegWatched, SlotsDistinct
    <2>6. HandOf(p)' BY <2>1, <2>3, <2>8 DEF HandOf, Some
    <2> QED BY <2>1, <2>2, <2>4, <2>5, <2>6, AloneKeeps
  <1>4. CASE SwitchedToHeld(p)
    <2>1. /\ pc[p] = "swUnhold" /\ pc'[p] = "unlock"
          /\ Alone(p)
      BY <1>4 DEF SwitchedToHeld, Turn, Attached, Await, Alone, HoldLabel
    <2>2. DialMove BY <1>4 DEF SwitchedToHeld, Turn, Attached, Await
    <2>3. u'.active = u.held /\ u'.held = u.active /\ u'.waiting = u.waiting
      <3>1. u' = [[u EXCEPT !.held = IF my[p].todo = <<>> THEN None ELSE Head(my[p].todo)]
                     EXCEPT !.active = my[p].leg, !.bridge = <<my[p].leg, u.tg>>]
        BY <1>4 DEF SwitchedToHeld, Attached
      <3>2. u \in User OBVIOUS
      <3>3. HandOf(p) BY DEF SlotInv, Hands
      <3>4. my[p].leg = u.held /\ my[p].todo = Some(u.active) BY <2>1, <3>3 DEF HandOf
      <3>5. (IF my[p].todo = <<>> THEN None ELSE Head(my[p].todo)) = u.active
        BY <3>4 DEF Some
      <3> QED BY ONLY <3>1, <3>2, <3>4, <3>5 DEF User
    <2>7. HandOf(p) BY DEF SlotInv, Hands
    <2>8. my[p].leg = u.held /\ u.held # None /\ my[p].todo = Some(u.active)
      BY <2>1, <2>7 DEF HandOf
    <2>4. \A l \in SlotLegs' : l \in SlotLegs \ {p} \/ pc'[l] \in Watching
      BY <2>1, <2>3, <2>8 DEF SlotInv, LegWatched, SlotsDistinct
    <2>5. SlotsDistinct' BY <2>1, <2>3, <2>8 DEF SlotInv, LegWatched, SlotsDistinct
    <2>6. HandOf(p)' BY <2>1, <2>3, <2>8 DEF HandOf
    <2> QED BY <2>1, <2>2, <2>4, <2>5, <2>6, AloneKeeps
  <1> QED BY <1>1, <1>2, <1>3, <1>4 DEF SwitchStep

\* _transfer and _conference.
LEMMA MoveStepSlots ==
  ASSUME Inv, Watched, Reserved, SlotInv, NoCalls, NEW p \in Cmds,
         OthersMove(p), MoveStep(p)
  PROVE  Plain(p) \/ SlotInv'
  <1> p \in Proc OBVIOUS
  <1>1. CASE TransferLegs(p)
    <2>1. /\ pc[p] = "xferLock" /\ pc'[p] = "xferUnhold"
          /\ Alone(p)
      BY <1>1 DEF TransferLegs, Locked, Turn, HasLock, Release, AfterReinvite, Alone, HoldLabel
    <2>2. DialMove BY <1>1 DEF TransferLegs, Locked, Turn, HasLock, Release, AfterReinvite
    <2>3. u'.active = None /\ u'.held = None /\ u'.waiting = u.waiting
      <3>1. u' = [u EXCEPT !.active = None, !.held = None, !.bridge = None, !.tg = None]
        BY <1>1 DEF TransferLegs
      <3>2. u \in User OBVIOUS
      <3> QED BY ONLY <3>1, <3>2 DEF User
    <2>4. \A l \in SlotLegs' : l \in SlotLegs \ {p} \/ pc'[l] \in Watching
      BY <2>1, <2>3 DEF SlotInv, LegWatched, SlotsDistinct
    <2>5. SlotsDistinct' BY <2>1, <2>3 DEF SlotInv, LegWatched, SlotsDistinct
    <2>6. HandOf(p)' BY <2>1, <2>3 DEF HandOf
    <2> QED BY <2>1, <2>2, <2>4, <2>5, <2>6, AloneKeeps
  <1>2. ASSUME Transferred(p) PROVE Plain(p) BY <1>2 DEF Transferred, Turn, Finish, Await
  <1>3. CASE ConfRefer(p)
    <2>1. pc[p] = "confRefer" /\ my[p].leg \in OutLegs BY <1>3 DEF ConfRefer, At
    <2>2. \/ pc' = [pc EXCEPT ![p] = "confRefer"]
          \/ pc' = [pc EXCEPT ![p] = "done", ![my[p].leg] = "done"]
      BY <1>3 DEF ConfRefer, Await, HandOver
    <2>3. DialMove /\ pc'[p] \in {"confRefer", "done"}
      <3>1. CASE pc' = [pc EXCEPT ![p] = "confRefer"] BY <2>1, <3>1
      <3>2. CASE pc' = [pc EXCEPT ![p] = "done", ![my[p].leg] = "done"]
        <4>1. \A q \in Proc : pc'[q] = pc[q] \/ pc'[q] = "done" BY <3>2
        <4>2. pc'[p] = "done" BY <2>1, <3>2
        <4> QED BY <4>1, <4>2
      <3> QED BY <2>2, <3>1, <3>2
    <2>4. SlotsKept BY <1>3 DEF ConfRefer
    <2> QED BY <2>1, <2>3, <2>4
  <1>4. ASSUME ConfMoved(p) PROVE Plain(p) BY <1>4 DEF ConfMoved, At, Acquire, Queue
  <1>5. CASE ConfJoin(p)
    <2>1. /\ pc[p] = "confLock" /\ pc'[p] = "done"
          /\ Alone(p)
      BY <1>5 DEF ConfJoin, Locked, Turn, HasLock, Release, Alone, HoldLabel
    <2>2. DialMove BY <1>5 DEF ConfJoin, Locked, Turn, HasLock, Release
    <2>3. u'.active = None /\ u'.held = None /\ u'.waiting = u.waiting
      <3>1. u' = [u EXCEPT !.active = None, !.held = None, !.bridge = None] BY <1>5 DEF ConfJoin
      <3>2. u \in User OBVIOUS
      <3> QED BY ONLY <3>1, <3>2 DEF User
    <2>4. \A l \in SlotLegs' : l \in SlotLegs \ {p} \/ pc'[l] \in Watching
      BY <2>1, <2>3 DEF SlotInv, LegWatched, SlotsDistinct
    <2>5. SlotsDistinct' BY <2>1, <2>3 DEF SlotInv, LegWatched, SlotsDistinct
    <2>6. HandOf(p)' BY <2>1, <2>3 DEF HandOf
    <2> QED BY <2>1, <2>2, <2>4, <2>5, <2>6, AloneKeeps
  <1> QED BY <1>1, <1>2, <1>3, <1>4, <1>5 DEF MoveStep

\* The end of a critical section.
LEMMA UnlockSlots ==
  ASSUME Inv, Watched, Reserved, SlotInv, NoCalls, NEW p \in Proc,
         OthersMove(p), Unlock(p)
  PROVE  Plain(p)
  <1>1. pc'[p] = "done" /\ DialMove BY DEF Unlock, Finish, Await
  <1>2. SlotsKept BY DEF Unlock
  <1>3. pc[p] \in Watching => p \notin SlotLegs /\ HasLock(p)
    BY DEF Unlock, NothingToDo, At, Turn, Locked
  <1> QED BY <1>1, <1>2, <1>3

\* A notice that raises.
LEMMA NotifyRaiseSlots ==
  ASSUME Inv, Watched, Reserved, SlotInv, NoCalls, NEW p \in Proc,
         OthersMove(p), NotifyRaise(p)
  PROVE  Plain(p)
  <1>1. pc[p] \in NotifyLabels /\ pc'[p] = "done"
    BY DEF NotifyRaise, HandOver, Finish, Await, NotifyLabels
  <1>2. DialMove
    <2>1. CASE pc[p] = "cbNotify" BY <2>1 DEF SlotInv, NoDial
    <2>2. CASE pc[p] # "cbNotify" BY <2>2 DEF NotifyRaise, Finish, Await
    <2> QED BY <2>1, <2>2
  <1>3. SlotsKept BY DEF NotifyRaise
  <1> QED BY <1>1, <1>2, <1>3 DEF NotifyLabels

\* The PBX calls.
LEMMA ArriveSlots ==
  ASSUME Inv, Watched, Reserved, SlotInv, NoCalls, NEW p \in InLegs,
         OthersMove(p), Arrive(p)
  PROVE  Plain(p)
  <1> p \in Proc OBVIOUS
  <1> QED BY DEF Arrive, At, Either

\* The user calls the gateway.
LEMMA TgIncomingSlots ==
  ASSUME Inv, Watched, Reserved, SlotInv, NoCalls, NEW p \in TgCalls,
         OthersMove(p), TgIncoming(p)
  PROVE  Plain(p)
  <1> p \in Proc OBVIOUS
  <1> QED BY DEF TgIncoming, At, Fresh, Reserve

\* A Telegram call that is refused at once.
LEMMA TgDeclineSlots ==
  ASSUME Inv, Watched, Reserved, SlotInv, NoCalls, NEW p \in TgCalls,
         OthersMove(p), TgDecline(p)
  PROVE  Plain(p)
  <1> p \in Proc OBVIOUS
  <1> QED BY DEF TgDecline, At, Fresh, Finish, Await

HIDE DEF Inv, Typed, Guarded, LockHeld, Plain, DialMove, SlotsKept, Watching, HandLabels,
         DialLabels, SlotLegs, PcT, MyT, UT, User, Locals, LocalsOK, Reserved, ResLabels, Proc, Legs

-----------------------------------------------------------------------------
(* Every step.                                                             *)

\* Nobody dials.
LEMMA NoDialStep == ASSUME SlotInv, NEW p \in Proc, DialStep(p) PROVE FALSE
  BY DEF SlotInv, NoDial, DialLabels, DialStep, ConsultHold, ConsultRaise, ConsultHeld,
     CbCall, CbFail, CbWin, CbConnected, DirectAttach, DirectLost, Locked, Turn, At

LEMMA NextSlots ==
  ASSUME Inv, Watched, Reserved, SlotInv, NoCalls, [Next]_vars
  PROVE  SlotInv'
  <1> USE DEF Inv, Typed, Guarded
  <1>1. ASSUME NEW p \in Proc, OthersMove(p), Plain(p) \/ SlotInv' PROVE SlotInv'
    BY <1>1, PlainKeeps
  <1>2. ASSUME NEW p \in InLegs, InLegStep(p) PROVE SlotInv'
    BY <1>1, <1>2, InLegStepMoves, InLegStepSlots DEF Moves, Proc, Legs
  <1>3. ASSUME NEW p \in OutLegs, OutLegStep(p) PROVE SlotInv'
    BY <1>1, <1>3, OutLegStepMoves, OutLegStepSlots DEF Moves, Proc, Legs
  <1>4. ASSUME NEW p \in Legs, LegStep(p) PROVE SlotInv'
    BY <1>1, <1>4, LegStepMoves, LegStepSlots, StillSlots DEF Moves, Proc
  <1>5. ASSUME NEW p \in TgCalls, TgStep(p) PROVE SlotInv'
    BY <1>1, <1>5, TgStepMoves, TgStepSlots, StillSlots DEF Moves, Proc
  <1>6. ASSUME NEW p \in TgCalls, RecStep(p) PROVE SlotInv'
    BY <1>1, <1>6, RecStepMoves, RecStepSlots DEF Moves, Proc
  <1>7. ASSUME NEW p \in Proc, EeStep(p) PROVE SlotInv'
    BY <1>1, <1>7, EeStepMoves, EeStepSlots DEF Moves
  <1>8. ASSUME NEW p \in Cmds, CommandStart(p) PROVE SlotInv'
    BY <1>1, <1>8, CommandStartMoves, CommandStartSlots DEF Moves, Proc
  <1>9. ASSUME NEW p \in Cmds, SwitchStep(p) PROVE SlotInv'
    BY <1>1, <1>9, SwitchStepMoves, SwitchStepSlots DEF Moves, Proc
  <1>10. ASSUME NEW p \in Cmds, MoveStep(p) PROVE SlotInv'
    BY <1>1, <1>10, MoveStepMoves, MoveStepSlots DEF Moves, Proc
  <1>11. ASSUME NEW p \in Cmds, DialStep(p) PROVE FALSE BY <1>11, NoDialStep DEF Proc
  <1>12. ASSUME NEW p \in Proc, Unlock(p) PROVE SlotInv'
    BY <1>1, <1>12, UnlockMoves, UnlockSlots DEF Moves
  <1>13. ASSUME NEW p \in Proc, NotifyRaise(p) PROVE SlotInv'
    BY <1>1, <1>13, NotifyRaiseMoves, NotifyRaiseSlots DEF Moves
  <1>14. ASSUME NEW p \in InLegs, Arrive(p) PROVE SlotInv'
    BY <1>1, <1>14, ArriveMoves, ArriveSlots DEF Moves, Proc, Legs
  <1>15. ASSUME NEW p \in TgCalls, TgIncoming(p) \/ TgDecline(p) PROVE SlotInv'
    BY <1>1, <1>15, TgIncomingMoves, TgDeclineMoves, TgIncomingSlots, TgDeclineSlots
       DEF Moves, Proc
  <1>16. ASSUME NEW p \in Proc, SystemStep(p) PROVE SlotInv'
    BY <1>2, <1>3, <1>4, <1>5, <1>6, <1>7, <1>9, <1>10, <1>11, <1>12, <1>16 DEF SystemStep
  <1>17. ASSUME NEW p \in Proc, EnvironmentStep(p) PROVE SlotInv'
    BY <1>8, <1>13, <1>14, <1>15, <1>17, SipAnswersMoves, SipEndsMoves, TgEndsMoves, StillSlots
       DEF EnvironmentStep
  <1>18. CASE \E p \in pairs : PairEnded(p)
    <2>1. Still BY <1>18 DEF PairEnded, Still
    <2> QED BY <2>1, StillSlots
  <1>19. CASE UNCHANGED vars
    <2>1. Still BY <1>19 DEF vars, Still
    <2> QED BY <2>1, StillSlots
  <1> QED BY <1>16, <1>17, <1>18, <1>19 DEF Next, Quiet

LEMMA InitSlots == Init => SlotInv
  <1> SUFFICES ASSUME Init PROVE SlotInv OBVIOUS
  <1>1. \A p \in Proc : pc[p] = "idle" BY DEF Init
  <1>2. u.active = None /\ u.held = None /\ u.waiting = None BY DEF Init
  <1> QED BY <1>1, <1>2
       DEF SlotInv, NoDial, LegWatched, SlotsDistinct, Hands, HandOf, SlotLegs, DialLabels

LEMMA SlotsHold ==
  ASSUME NoCalls
  PROVE  Spec => []SlotInv
  <1>1. Inv /\ Watched /\ Orderly /\ SlotInv /\ [Next]_vars => SlotInv'
    BY NextSlots DEF Orderly
  <1> QED BY <1>1, InitSlots, AllHolds, PTL DEF Spec

-----------------------------------------------------------------------------
(* The theorems.                                                           *)

\* Unless the user dials, every leg in a slot has a watcher that has not finished, through
\* every switch, transfer, conference, reconnection and takedown: the end of the call clears
\* the slot, and no slot keeps a call that is over for ever.
THEOREM SlotsAreWatched ==
  ASSUME NoCalls
  PROVE  Spec => []LegWatched
  <1>1. SlotInv => LegWatched BY DEF SlotInv
  <1> QED BY <1>1, SlotsHold, PTL

\* Unless the user dials, no leg is in two slots: ending one call never clears, and a switch
\* never holds, the one the user talks to.
THEOREM SlotsAreDistinct ==
  ASSUME NoCalls
  PROVE  Spec => []SlotsDistinct
  <1>1. SlotInv => SlotsDistinct BY DEF SlotInv
  <1> QED BY <1>1, SlotsHold, PTL

-----------------------------------------------------------------------------
(* The audio bridge, without reconnection.                                 *)

\* Between the end of the active leg and the attachment of the next there is no bridge.
OffLabels == {"endNext", "endUnhold"}
Off == \A p \in Proc : pc[p] \in OffLabels => u.bridge = None

\* A task that waits to enter the lock with an accepted call, behind one that has another call,
\* will find that call over; so will it that call in u.tg.
AccOrder == \A i, j \in 1..Len(lockq) : i < j /\ pc[lockq[j]] = "accLock" =>
    /\ pc[lockq[i]] = "ringLock" => tgs[my[lockq[i]].tg] = "ended"
    /\ pc[lockq[i]] = "accLock" => tgs[lockq[i]] = "ended"
AccTg  == \A t \in TgCalls : pc[t] = "accLock" /\ u.tg # None => tgs[u.tg] = "ended"
AccOwn == \A p \in Proc : pc[p] \in {"accepting", "accLock"} => p \in TgCalls

BridgeInv == BridgeMatches /\ Off /\ AccOrder /\ AccTg /\ AccOwn

\* What a step may do to the bridge: stop it, build it under the lock, or leave it, in which
\* case u.tg changes only by the task that has accepted a call.
BridgeMove(p) ==
    /\ \/ u'.bridge = None
       \/ Alone(p) /\ u'.tg \in TgCalls /\ u'.bridge = <<u'.active, u'.tg>>
       \/ /\ u'.bridge = u.bridge /\ u'.active = u.active
          /\ u'.tg = u.tg \/ (u'.tg = p /\ pc[p] = "accLock")
    /\ pc'[p] \in OffLabels => u'.bridge = None

\* What it may do to the calls that are waiting to become u.tg.
EndedStay == \A t \in TgCalls : tgs[t] = "ended" => tgs'[t] = "ended"
AccMove(p) ==
    /\ pc'[p] \in {"accepting", "accLock"} => p \in TgCalls
    /\ pc'[p] = "accLock" => pc[p] = "accepting" /\ tgs'[p] = "up" /\ u'.tg = u.tg
    /\ pc'[p] = "ringLock" => pc[p] = "ringing"
    /\ \/ u'.tg \in {u.tg, None}
       \/ HasLock(p) /\ pc[p] = "ringLock" /\ u'.tg = my[p].tg
       \/ HasLock(p) /\ pc[p] = "accLock" /\ u'.tg = p

Bridges(p) == BridgeMove(p) /\ EndedStay /\ AccMove(p)

-----------------------------------------------------------------------------
(* What follows from it.                                                   *)

LEMMA NotQueued ==
  ASSUME NEW p \in Proc
  PROVE  /\ pc[p] \in {"accLock", "ringLock"} => pc[p] \in QueueLabels
         /\ pc[p] \in OffLabels => pc[p] \in HandLabels /\ pc[p] \in HoldLabel
         /\ pc[p] \in {"accepting", "ringing"} => pc[p] \notin QueueLabels
  BY DEF QueueLabels, LockLabel, HoldLabel, OffLabels, HandLabels

\* A step of a task does not make another one wait with a call.
LEMMA OthersAcc ==
  ASSUME PcT, NEW p \in Proc, OthersMove(p), NEW q \in Proc, q # p,
         pc'[q] \in {"accepting", "accLock", "ringLock", "endNext", "endUnhold"}
  PROVE  pc'[q] = pc[q] /\ my'[q] = my[q]
  BY DEF OthersMove, Untouched, Begins, Cancels

\* The order of the queue: an entry that is not the task's own was there before.
LEMMA QueueOrder ==
  ASSUME LockT, LockHeld, OnlyQueued, HeldOnce, NoRec, NEW p \in Proc, LockMove(p),
         NEW i \in 1..Len(lockq'), NEW j \in 1..Len(lockq'), i < j
  PROVE  \/ \E m, n \in 1..Len(lockq) : m < n /\ lockq'[i] = lockq[m] /\ lockq'[j] = lockq[n]
         \/ /\ lockq'[j] = p /\ lockq'[i] # p
            /\ pc'[p] \in LockLabel /\ \E m \in 1..Len(lockq) : lockq'[i] = lockq[m]
  <1>1. Len(lockq) \in Nat BY DEF LockT
  <1>2. CASE lockq' = lockq BY <1>2
  <1>3. CASE /\ lockq' = Append(lockq, p) /\ pc'[p] \in LockLabel
             /\ pc[p] \notin QueueLabels \/ pc[p] = "recHang"
    <2>1. /\ Len(lockq') = Len(lockq) + 1 /\ lockq'[Len(lockq')] = p
          /\ \A k \in 1..Len(lockq) : lockq'[k] = lockq[k]
      BY <1>3 DEF LockT
    <2>2. pc[p] \notin QueueLabels BY <1>3 DEF NoRec, RecLabels
    <2>3. i \in 1..Len(lockq) BY <1>1, <2>1
    <2>4. lockq'[i] = lockq[i] /\ lockq[i] # p BY <2>1, <2>2, <2>3 DEF OnlyQueued
    <2>5. CASE j = Len(lockq') BY <1>3, <2>1, <2>3, <2>4, <2>5
    <2>6. CASE j # Len(lockq')
      <3>1. j \in 1..Len(lockq) /\ lockq'[j] = lockq[j] BY <1>1, <2>1, <2>6
      <3> QED BY <2>3, <2>4, <3>1
    <2> QED BY <2>5, <2>6
  <1>4. ASSUME lockq # <<>>, HasLock(p) \/ pc[p] \in HoldLabel
        PROVE  /\ Len(lockq) \in Nat \ {0} /\ Len(Tail(lockq)) = Len(lockq) - 1
               /\ \A k \in 1..Len(lockq) - 1 : /\ Tail(lockq)[k] = lockq[k + 1]
                                               /\ lockq[k + 1] # p
    BY <1>4 DEF LockT, HasLock, HeldOnce, LockHeld
  <1>5. CASE lockq # <<>> /\ lockq' = Tail(lockq) /\ (HasLock(p) \/ pc[p] \in HoldLabel)
    <2>1. i + 1 \in 1..Len(lockq) /\ j + 1 \in 1..Len(lockq) /\ i + 1 < j + 1
      BY <1>4, <1>5
    <2>2. lockq'[i] = lockq[i + 1] /\ lockq'[j] = lockq[j + 1] BY <1>4, <1>5
    <2> QED BY <2>1, <2>2
  <1>6. CASE HasLock(p) /\ lockq' = Append(Tail(lockq), p) /\ pc'[p] \in LockLabel
    <2>1. lockq # <<>> BY <1>6 DEF HasLock
    <2>2. Tail(lockq) \in Seq(Proc) BY <2>1 DEF LockT
    <2>3. /\ Len(lockq') = Len(lockq) /\ lockq'[Len(lockq)] = p /\ Len(lockq) \in Nat \ {0}
          /\ \A k \in 1..Len(lockq) - 1 : lockq'[k] = lockq[k + 1] /\ lockq[k + 1] # p
      <3>1. /\ Len(lockq') = Len(Tail(lockq)) + 1 /\ lockq'[Len(Tail(lockq)) + 1] = p
            /\ \A k \in 1..Len(Tail(lockq)) : lockq'[k] = Tail(lockq)[k]
        BY <1>6, <2>2
      <3> QED BY <1>4, <1>6, <2>1, <3>1
    <2>4. i + 1 \in 1..Len(lockq) /\ lockq'[i] = lockq[i + 1] /\ lockq'[i] # p BY <2>3
    <2>5. CASE j = Len(lockq) BY <1>6, <2>3, <2>4, <2>5
    <2>6. CASE j # Len(lockq)
      <3>1. j + 1 \in 1..Len(lockq) /\ lockq'[j] = lockq[j + 1] /\ i + 1 < j + 1 BY <2>3, <2>6
      <3> QED BY <2>4, <3>1
    <2> QED BY <2>5, <2>6
  <1> QED BY <1>2, <1>3, <1>5, <1>6 DEF LockMove

LEMMA OverOrLive ==
  ASSUME TgsT, NEW t \in TgCalls, tgs[t] # "none", tgs[t] \notin LiveTg
  PROVE  tgs[t] = "ended"
  BY DEF TgsT, TgState, LiveTg

\* The call of a task that has just accepted one is the only live one.
LEMMA OthersOver ==
  ASSUME TgsT, OneLive, NEW p \in TgCalls, tgs[p] = "up", NEW t \in TgCalls, t # p,
         tgs[t] # "none"
  PROVE  tgs[t] = "ended"
  BY OverOrLive DEF OneLive, LiveTg

LEMMA AccOrderMoves ==
  ASSUME Inv, Inv', Watched', Orderly, Orderly', NoRec, AccOrder, AccOwn, NEW p \in Proc, Moves(p),
         EndedStay, AccMove(p)
  PROVE  AccOrder'
  <1> SUFFICES ASSUME NEW i \in 1..Len(lockq'), NEW j \in 1..Len(lockq'), i < j,
                      pc'[lockq'[j]] = "accLock", NEW r, r = lockq'[i]
               PROVE  /\ pc'[r] = "ringLock" => tgs'[my'[r].tg] = "ended"
                      /\ pc'[r] = "accLock" => tgs'[r] = "ended"
    BY DEF AccOrder
  <1> USE DEF Inv, Typed, Guarded
  <1>1. \A k \in 1..Len(lockq) : lockq[k] \in Proc BY DEF LockT
  <1>2. \A k \in 1..Len(lockq') : lockq'[k] \in Proc BY DEF LockT
  <1>3. CASE \E m, n \in 1..Len(lockq) : m < n /\ r = lockq[m] /\ lockq'[j] = lockq[n]
    <2>1. PICK m, n \in 1..Len(lockq) : m < n /\ r = lockq[m] /\ lockq'[j] = lockq[n] BY <1>3
    <2>2. lockq[n] # p /\ pc[lockq[n]] = "accLock"
      <3>1. lockq[n] = p => pc[p] \in QueueLabels BY <2>1 DEF Orderly, OnlyQueued
      <3>2. lockq[n] # p BY <2>1, <3>1, NotQueued DEF AccMove
      <3> QED BY <1>1, <2>1, <3>2, OthersAcc DEF Moves
    <2>3. /\ pc[r] = "ringLock" => tgs[my[r].tg] = "ended"
          /\ pc[r] = "accLock" => tgs[r] = "ended"
      BY <2>1, <2>2 DEF AccOrder
    <2>4. CASE r = p
      <3>1. pc[p] \in QueueLabels BY <2>1, <2>4 DEF Orderly, OnlyQueued
      <3>2. pc'[p] # "accLock" BY <3>1, NotQueued DEF AccMove
      <3>3. pc'[p] # "ringLock" BY <3>1, NotQueued DEF AccMove
      <3> QED BY <2>4, <3>2, <3>3
    <2>5. CASE r # p
      <3>1. r \in Proc BY <1>1, <2>1
      <3>2. pc'[r] \in {"accLock", "ringLock"} => pc'[r] = pc[r] /\ my'[r] = my[r]
        BY <2>5, <3>1, OthersAcc DEF Moves
      <3>3. pc[r] = "ringLock" => my[r].tg \in TgCalls BY <3>1, TgLocal DEF TgLabels
      <3>4. pc[r] = "accLock" => r \in TgCalls BY <3>1 DEF AccOwn
      <3> QED BY <2>3, <3>2, <3>3, <3>4 DEF EndedStay
    <2> QED BY <2>4, <2>5
  <1>4. CASE /\ lockq'[j] = p /\ r # p
    <2>1. p \in TgCalls /\ tgs'[p] = "up" BY <1>4 DEF AccMove
    <2>2. r \in Proc BY <1>2
    <2>3. pc'[r] = "ringLock" => tgs'[my'[r].tg] = "ended"
      <3> SUFFICES ASSUME pc'[r] = "ringLock" PROVE tgs'[my'[r].tg] = "ended" OBVIOUS
      <3>1. my'[r].tg \in TgCalls BY <2>2, LocalT DEF LocalsOK, TgLabels, MyT, Locals
      <3>2. tgs'[my'[r].tg] # "none" /\ pc'[my'[r].tg] = "idle" BY <2>2
           DEF Watched, Placed, TgLabels
      <3>3. my'[r].tg # p BY <1>4, <3>2
      <3> QED BY <2>1, <3>1, <3>2, <3>3, OthersOver DEF Orderly, OneLive, LiveTg, TgsT, TgState
    <2>4. pc'[r] = "accLock" => tgs'[r] = "ended"
      <3> SUFFICES ASSUME pc'[r] = "accLock" PROVE tgs'[r] = "ended" OBVIOUS
      <3>1. r \in TgCalls BY <1>4, <2>2, OthersAcc DEF Moves, AccOwn
      <3>2. tgs'[r] # "none" BY <3>1 DEF Orderly, Begun
      <3> QED BY <1>4, <2>1, <3>1, <3>2 DEF Orderly, OneLive, LiveTg, TgsT, TgState
    <2> QED BY <2>3, <2>4
  <1> QED BY <1>3, <1>4, QueueOrder DEF Moves, Orderly

LEMMA AccTgMoves ==
  ASSUME Inv, Inv', Watched', Orderly, Orderly', AccOrder, AccTg, AccOwn, NEW p \in Proc,
         Moves(p), EndedStay, AccMove(p)
  PROVE  AccTg'
  <1> SUFFICES ASSUME NEW t \in TgCalls, pc'[t] = "accLock", u'.tg # None
               PROVE  tgs'[u'.tg] = "ended"
    BY DEF AccTg
  <1> USE DEF Inv, Typed, Guarded
  <1>1. u'.tg \in TgCalls BY DEF UT, User
  <1>2. t \in Proc BY DEF Proc
  <1>3. CASE t = p
    <2>1. tgs'[p] = "up" BY <1>3 DEF AccMove
    <2>2. pc'[u'.tg] \in {"watch", "tgEndLock"} BY DEF Watched, TgWatched
    <2>3. u'.tg # p BY <1>3, <2>2
    <2>4. tgs'[u'.tg] # "none" BY DEF Orderly, Begun
    <2> QED BY <1>1, <1>3, <2>1, <2>3, <2>4 DEF Orderly, OneLive, LiveTg, TgsT, TgState
  <1>4. CASE t # p
    <2>1. pc[t] = "accLock" BY <1>2, <1>4, OthersAcc DEF Moves
    <2>2. CASE u'.tg = u.tg BY <1>1, <2>1, <2>2 DEF AccTg, EndedStay
    <2>3. ASSUME HasLock(p)
          PROVE  /\ pc[p] = "ringLock" => tgs[my[p].tg] = "ended"
                 /\ pc[p] = "accLock" => tgs[p] = "ended"
      <3>1. lockq # <<>> /\ lockq[1] = p /\ Len(lockq) \in Nat BY <2>3 DEF HasLock, LockT
      <3>2. PICK j \in 1..Len(lockq) : lockq[j] = t BY <1>2, <2>1, NotQueued DEF Orderly, InQueue
      <3>3. 1 \in 1..Len(lockq) /\ 1 < j BY <1>4, <3>1, <3>2
      <3> QED BY <2>1, <3>1, <3>2, <3>3 DEF AccOrder
    <2>4. CASE HasLock(p) /\ pc[p] = "ringLock" /\ u'.tg = my[p].tg
      BY <1>1, <2>3, <2>4 DEF EndedStay
    <2>5. CASE HasLock(p) /\ pc[p] = "accLock" /\ u'.tg = p
      BY <1>1, <2>3, <2>5 DEF EndedStay
    <2> QED BY <2>2, <2>4, <2>5 DEF AccMove
  <1> QED BY <1>3, <1>4

LEMMA BridgeMoves ==
  ASSUME Inv, BridgeInv, NEW p \in Proc, Moves(p), Bridges(p)
  PROVE  BridgeMatches' /\ Off' /\ AccOwn'
  <1> USE DEF Inv, Typed, Guarded
  <1>1. u.bridge # None => u.bridge[2] \in TgCalls BY DEF UT, User
  <1>2. BridgeMatches'
    <2>1. CASE u'.bridge = None BY <2>1 DEF BridgeMatches
    <2>2. CASE u'.bridge = <<u'.active, u'.tg>> BY <2>2 DEF BridgeMatches
    <2>3. CASE /\ u'.bridge = u.bridge /\ u'.active = u.active /\ u.bridge # None
               /\ u'.tg = u.tg \/ (u'.tg = p /\ pc[p] = "accLock")
      <3>1. u.bridge[1] = u.active /\ (u.bridge[2] = u.tg \/ tgs[u.bridge[2]] = "ended")
        BY <2>3 DEF BridgeInv, BridgeMatches
      <3>2. CASE u'.tg = u.tg BY <1>1, <2>3, <3>1, <3>2 DEF BridgeMatches, Bridges, EndedStay
      <3>3. CASE u'.tg = p /\ pc[p] = "accLock"
        <4>1. p \in TgCalls BY <3>3 DEF BridgeInv, AccOwn
        <4>2. u.bridge[2] = u.tg => tgs[u.tg] = "ended"
          BY <1>1, <2>3, <3>3, <4>1, NoneAssumption DEF BridgeInv, AccTg, Proc
        <4> QED BY <1>1, <2>3, <3>1, <4>2 DEF BridgeMatches, Bridges, EndedStay
      <3> QED BY <2>3, <3>2, <3>3
    <2> QED BY <2>1, <2>2, <2>3 DEF Bridges, BridgeMove
  <1>3. Off'
    <2> SUFFICES ASSUME NEW q \in Proc, pc'[q] \in OffLabels PROVE u'.bridge = None
      BY DEF Off
    <2>1. CASE q = p BY <2>1 DEF Bridges, BridgeMove
    <2>2. CASE q # p
      <3>1. pc[q] \in OffLabels BY <2>2, OthersAcc DEF Moves, OffLabels
      <3>2. u.bridge = None BY <3>1 DEF BridgeInv, Off
      <3>3. ~Alone(p) BY <2>2, <3>1, OnlyHolder, NotQueued
      <3> QED BY <3>2, <3>3 DEF Bridges, BridgeMove
    <2> QED BY <2>1, <2>2
  <1>4. AccOwn' BY OthersAcc DEF AccOwn, Bridges, AccMove, BridgeInv, Moves
  <1> QED BY <1>2, <1>3, <1>4

LEMMA StillBridge ==
  ASSUME Inv, BridgeInv, Still
  PROVE  BridgeInv'
  <1> USE DEF Inv, Typed, Guarded
  <1>1. UNCHANGED <<u, lockq, pc, my>> BY DEF Still
  <1>2. EndedStay BY DEF Still, EndedStay
  <1>3. BridgeMatches'
    <2>1. u.bridge # None => u.bridge[2] \in TgCalls BY DEF UT, User
    <2> QED BY <1>1, <1>2, <2>1 DEF BridgeInv, BridgeMatches, EndedStay
  <1>4. Off' /\ AccOwn' BY <1>1 DEF BridgeInv, Off, AccOwn
  <1>5. AccOrder'
    <2>1. \A k \in 1..Len(lockq) : lockq[k] \in Proc BY DEF LockT
    <2>2. \A q \in Proc : /\ pc[q] = "accLock" => q \in TgCalls
                          /\ pc[q] = "ringLock" => my[q].tg \in TgCalls
      BY TgLocal DEF BridgeInv, AccOwn, TgLabels
    <2> QED BY <1>1, <1>2, <2>1, <2>2 DEF BridgeInv, AccOrder, EndedStay
  <1>6. AccTg' BY <1>1, <1>2, SlotT DEF BridgeInv, AccTg, EndedStay
  <1> QED BY <1>3, <1>4, <1>5, <1>6 DEF BridgeInv

\* The Telegram calls in a step that leaves them alone, ends some, places or connects one.
LEMMA EndedDown == ASSUME TgsT, NEW t, HangTg(t) \/ CancelEngine PROVE EndedStay
  BY DEF HangTg, CancelEngine, TgsT, EndedStay

LEMMA EndedNew ==
  ASSUME TgsT, NEW t \in TgCalls, Fresh(t), NEW s, tgs' = [tgs EXCEPT ![t] = s]
  PROVE  EndedStay
  BY DEF TgsT, EndedStay, Fresh

LEMMA EndedPicked == ASSUME TgsT, NEW p \in Proc, PickedUp(p) PROVE EndedStay
  BY DEF PickedUp, TgsT, EndedStay

USE NoneAssumption, DisjointAssumption
    DEF Bridges, BridgeMove, AccMove, OffLabels, DialLabels, RecLabels, TgLabels, Inv, Typed,
        Guarded, LockHeld, HolderTg, PcT, MyT, UT, User, Locals, LocalsOK, Reserved, ResLabels,
        Proc, Legs

\* _sip_incoming and _ring_users.
LEMMA InLegStepBridge ==
  ASSUME Inv, Reserved, SlotInv, BridgeInv, NoRec, NoCalls, Reconnect = FALSE,
         NEW p \in InLegs, InLegStep(p)
  PROVE  Bridges(p)
  <1> p \in Proc OBVIOUS
  <1>1. CASE OfferReject(p)
    <2>1. BridgeMove(p) BY <1>1 DEF OfferReject, Turn, Finish, Await
    <2>2. EndedStay BY <1>1 DEF OfferReject, EndedStay
    <2>3. AccMove(p) BY <1>1 DEF OfferReject, Turn, Finish, Await
    <2> QED BY <2>1, <2>2, <2>3
  <1>2. CASE OfferWaiting(p)
    <2>1. BridgeMove(p) BY <1>2 DEF OfferWaiting, Turn, Await, Finish
    <2>2. EndedStay BY <1>2 DEF OfferWaiting, EndedStay
    <2>3. AccMove(p) BY <1>2 DEF OfferWaiting, Turn, Await, Finish
    <2> QED BY <2>1, <2>2, <2>3
  <1>3. CASE OfferRing(p)
    <2>1. BridgeMove(p) BY <1>3 DEF OfferRing, Turn, Either
    <2>2. EndedStay BY <1>3 DEF OfferRing, EndedStay
    <2>3. AccMove(p) BY <1>3 DEF OfferRing, Turn, Either
    <2> QED BY <2>1, <2>2, <2>3
  <1>4. CASE RingCall(p)
    <2>1. BridgeMove(p)
      <3>1. u' = u BY <1>4 DEF RingCall
      <3>2. pc'[p] \in {"ringing", "ringFailed"} BY <1>4 DEF RingCall, Turn, Await
      <3> QED BY <3>1, <3>2
    <2>2. EndedStay
      <3>1. CASE tgs' = tgs BY <3>1 DEF EndedStay
      <3>2. ASSUME NEW t \in TgCalls, PlaceCall(p, t) PROVE EndedStay
        BY <3>2, EndedNew DEF PlaceCall
      <3> QED BY <1>4, <3>1, <3>2 DEF RingCall
    <2>3. AccMove(p) BY <1>4 DEF RingCall, Turn, Fresh, Await
    <2> QED BY <2>1, <2>2, <2>3
  <1>5. CASE RingFail(p)
    <2>1. BridgeMove(p) BY <1>5 DEF RingFail, At, Either
    <2>2. EndedStay BY <1>5 DEF RingFail, EndedStay
    <2>3. AccMove(p) BY <1>5 DEF RingFail, At, Either
    <2> QED BY <2>1, <2>2, <2>3
  <1>6. CASE RingMissed(p)
    <2>1. BridgeMove(p) BY <1>6 DEF RingMissed, Turn, Finish, Await
    <2>2. EndedStay BY <1>6 DEF RingMissed, EndedStay
    <2>3. AccMove(p) BY <1>6 DEF RingMissed, Turn, Finish, Await
    <2> QED BY <2>1, <2>2, <2>3
  <1>7. CASE RingGone(p)
    <2>1. BridgeMove(p) BY <1>7 DEF RingGone, At, GoOn, Await
    <2>2. EndedStay BY <1>7, EndedDown DEF RingGone
    <2>3. AccMove(p) BY <1>7 DEF RingGone, At, GoOn, Await
    <2> QED BY <2>1, <2>2, <2>3
  <1>8. CASE RingCancelled(p)
    <2>1. BridgeMove(p) BY <1>8 DEF RingCancelled, Turn, Finish, Await
    <2>2. EndedStay BY <1>8 DEF RingCancelled, EndedStay
    <2>3. AccMove(p) BY <1>8 DEF RingCancelled, Turn, Finish, Await
    <2> QED BY <2>1, <2>2, <2>3
  <1>9. CASE RingWin(p)
    <2>1. BridgeMove(p) BY <1>9 DEF RingWin, At, Acquire, Queue
    <2>2. EndedStay BY <1>9, EndedPicked DEF RingWin
    <2>3. AccMove(p) BY <1>9 DEF RingWin, At, Acquire, Queue
    <2> QED BY <2>1, <2>2, <2>3
  <1>10. CASE RingAttach(p)
    <2>1. BridgeMove(p)
      <3>1. Alone(p) /\ pc[p] = "ringLock" /\ pc'[p] = "watch"
        BY <1>10 DEF RingAttach, Locked, Turn, HasLock, Release, Alone, HoldLabel
      <3>2. my[p].tg \in TgCalls BY <1>10, TgLocal, <3>1
      <3>3. u' = [[u EXCEPT !.tg = my[p].tg] EXCEPT !.active = p, !.bridge = <<p, my[p].tg>>]
        BY <1>10 DEF RingAttach, Attached
      <3>4. u \in User OBVIOUS
      <3>5. u'.tg = my[p].tg /\ u'.bridge = <<u'.active, my[p].tg>> BY ONLY <3>3, <3>4 DEF User
      <3> QED BY <3>1, <3>2, <3>5
    <2>2. EndedStay BY <1>10 DEF RingAttach, EndedStay
    <2>3. AccMove(p) BY <1>10 DEF RingAttach, Locked, Turn, HasLock, Release, Attached
    <2> QED BY <2>1, <2>2, <2>3
  <1> QED BY <1>1, <1>2, <1>3, <1>4, <1>5, <1>6, <1>7, <1>8, <1>9, <1>10 DEF InLegStep

\* _dial_leg.
LEMMA OutLegStepBridge ==
  ASSUME Inv, Reserved, SlotInv, BridgeInv, NoRec, NoCalls, Reconnect = FALSE,
         NEW p \in OutLegs, OutLegStep(p)
  PROVE  Bridges(p)
  <1> p \in Proc OBVIOUS
  <1>1. CASE Invite(p)
    <2>1. BridgeMove(p) BY <1>1 DEF Invite, Turn, Acquire, Queue, Await
    <2>2. EndedStay BY <1>1 DEF Invite, EndedStay
    <2>3. AccMove(p) BY <1>1 DEF Invite, Turn, Acquire, Queue, Await
    <2> QED BY <2>1, <2>2, <2>3
  <1>2. CASE DialResume(p) BY <1>2 DEF DialResume, At, SlotInv, NoDial
  <1>3. CASE DialResumed(p) BY <1>3 DEF DialResumed, Turn, SlotInv, NoDial
  <1>4. CASE DialGiveUp(p)
    <2>1. BridgeMove(p) BY <1>4 DEF DialGiveUp, At, Acquire, Queue, Finish, Await
    <2>2. EndedStay BY <1>4 DEF DialGiveUp, EndedStay
    <2>3. AccMove(p) BY <1>4 DEF DialGiveUp, At, Acquire, Queue, Finish, Await
    <2> QED BY <2>1, <2>2, <2>3
  <1>5. CASE DialAttach(p)
    <2>1. BridgeMove(p)
      <3>1. Alone(p) /\ pc[p] = "dialLock" /\ pc'[p] \in {"dialHang", "watch"}
        BY <1>5 DEF DialAttach, Locked, Turn, Either, Await, Alone
      <3>2. CASE u.tg = None
        <4>1. u' = u BY <1>5, <3>2 DEF DialAttach
        <4> QED BY <3>1, <4>1
      <3>3. CASE u.tg # None
        <4>1. u.tg \in TgCalls BY <3>3, SlotT
        <4>2. u' = [u EXCEPT !.active = p, !.bridge = <<p, u.tg>>] BY <1>5, <3>3
             DEF DialAttach, Attached
        <4>3. u \in User OBVIOUS
        <4>4. u'.tg = u.tg /\ u'.bridge = <<u'.active, u.tg>> BY ONLY <4>2, <4>3 DEF User
        <4> QED BY <3>1, <4>1, <4>4
      <3> QED BY <3>2, <3>3
    <2>2. EndedStay BY <1>5 DEF DialAttach, EndedStay
    <2>3. AccMove(p)
      <3>1. pc'[p] \in {"dialHang", "watch"} BY <1>5 DEF DialAttach, Either, Await
      <3>2. u'.tg = u.tg
        <4>1. u' = u \/ u' = [u EXCEPT !.active = p, !.bridge = <<p, u.tg>>]
          BY <1>5 DEF DialAttach, Attached
        <4>2. u \in User OBVIOUS
        <4> QED BY ONLY <4>1, <4>2 DEF User
      <3> QED BY <3>1, <3>2
    <2> QED BY <2>1, <2>2, <2>3
  <1> QED BY <1>1, <1>2, <1>3, <1>4, <1>5 DEF OutLegStep

\* The watcher of a leg.
LEMMA LegStepBridge ==
  ASSUME Inv, Reserved, SlotInv, BridgeInv, NoRec, NoCalls, Reconnect = FALSE,
         NEW p \in Legs, LegStep(p)
  PROVE  Bridges(p) \/ Still
  <1> p \in Proc OBVIOUS
  <1>1. CASE LegEnded(p)
    <2>1. BridgeMove(p) BY <1>1 DEF LegEnded, At, Acquire, Queue
    <2>2. EndedStay BY <1>1 DEF LegEnded, EndedStay
    <2>3. AccMove(p) BY <1>1 DEF LegEnded, At, Acquire, Queue
    <2> QED BY <2>1, <2>2, <2>3
  <1>2. CASE EndIdle(p)
    <2>1. BridgeMove(p) BY <1>2 DEF EndIdle, Locked, Turn, HasLock, Await
    <2>2. EndedStay BY <1>2 DEF EndIdle, EndedStay
    <2>3. AccMove(p) BY <1>2 DEF EndIdle, Locked, Turn, HasLock, Await
    <2> QED BY <2>1, <2>2, <2>3
  <1>3. CASE EndActive(p)
    <2>1. BridgeMove(p) BY <1>3 DEF EndActive, Locked, Turn, HasLock, Either
    <2>2. EndedStay BY <1>3 DEF EndActive, EndedStay
    <2>3. AccMove(p) BY <1>3 DEF EndActive, Locked, Turn, HasLock, Either
    <2> QED BY <2>1, <2>2, <2>3
  <1>4. CASE EndResume(p)
    <2>1. BridgeMove(p)
      <3>1. u.bridge = None BY <1>4 DEF EndResume, Turn, BridgeInv, Off
      <3>2. u' = [u EXCEPT !.held = None] BY <1>4 DEF EndResume
      <3>3. u \in User OBVIOUS
      <3>4. u'.bridge = None BY ONLY <3>1, <3>2, <3>3 DEF User
      <3> QED BY <3>4
    <2>2. EndedStay BY <1>4 DEF EndResume, EndedStay
    <2>3. AccMove(p) BY <1>4 DEF EndResume, Turn, AfterReinvite
    <2> QED BY <2>1, <2>2, <2>3
  <1>5. CASE EndResumed(p)
    <2>1. BridgeMove(p)
      <3>1. Alone(p) /\ pc[p] = "endUnhold" /\ pc'[p] = "unlock"
        BY <1>5 DEF EndResumed, Turn, Await, Alone, HoldLabel
      <3>2. u.tg \in TgCalls BY <3>1, SlotT
      <3>3. u' = [u EXCEPT !.active = my[p].leg, !.bridge = <<my[p].leg, u.tg>>]
        BY <1>5 DEF EndResumed, Attached
      <3>4. u \in User OBVIOUS
      <3>5. u'.tg = u.tg /\ u'.bridge = <<u'.active, u.tg>> BY ONLY <3>3, <3>4 DEF User
      <3> QED BY <3>1, <3>2, <3>5
    <2>2. EndedStay BY <1>5 DEF EndResumed, EndedStay
    <2>3. AccMove(p) BY <1>5 DEF EndResumed, Turn, Attached, Await
    <2> QED BY <2>1, <2>2, <2>3
  <1>6. CASE EndAnswerWaiting(p)
    <2>1. BridgeMove(p)
      <3>1. Alone(p) /\ pc[p] = "endNext" /\ pc'[p] = "unlock"
        BY <1>6 DEF EndAnswerWaiting, Turn, Await, Alone, HoldLabel
      <3>2. u.tg \in TgCalls BY <1>6, SlotT DEF EndAnswerWaiting
      <3>3. u' = [[u EXCEPT !.waiting = None] EXCEPT !.active = u.waiting,
                     !.bridge = <<u.waiting, u.tg>>]
        BY <1>6 DEF EndAnswerWaiting, Attached
      <3>4. u \in User OBVIOUS
      <3>5. u'.tg = u.tg /\ u'.bridge = <<u'.active, u.tg>> BY ONLY <3>3, <3>4 DEF User
      <3> QED BY <3>1, <3>2, <3>5
    <2>2. EndedStay BY <1>6 DEF EndAnswerWaiting, EndedStay
    <2>3. AccMove(p) BY <1>6 DEF EndAnswerWaiting, Turn, Attached, Await
    <2> QED BY <2>1, <2>2, <2>3
  <1>7. CASE EndHangTg(p)
    <2>1. BridgeMove(p)
      <3>1. u.bridge = None BY <1>7 DEF EndHangTg, Turn, BridgeInv, Off
      <3>2. u' = [u EXCEPT !.tg = None] BY <1>7 DEF EndHangTg
      <3>3. u \in User OBVIOUS
      <3>4. u'.bridge = None BY ONLY <3>1, <3>2, <3>3 DEF User
      <3> QED BY <3>4
    <2>2. EndedStay BY <1>7, EndedDown DEF EndHangTg
    <2>3. AccMove(p) BY <1>7 DEF EndHangTg, Turn, Await
    <2> QED BY <2>1, <2>2, <2>3
  <1>8. CASE WaitingTimeout(p) BY <1>8 DEF WaitingTimeout, Still
  <1> QED BY <1>1, <1>2, <1>3, <1>4, <1>5, <1>6, <1>7, <1>8 DEF LegStep

\* _tg_incoming and the watcher of a Telegram call.
LEMMA TgStepBridge ==
  ASSUME Inv, Reserved, SlotInv, BridgeInv, NoRec, NoCalls, Reconnect = FALSE,
         NEW p \in TgCalls, TgStep(p)
  PROVE  Bridges(p) \/ Still
  <1> p \in Proc OBVIOUS
  <1>1. CASE AcceptFail(p)
    <2>1. BridgeMove(p) BY <1>1 DEF AcceptFail, At, HandOver
    <2>2. EndedStay BY <1>1 DEF AcceptFail, EndedStay
    <2>3. AccMove(p) BY <1>1 DEF AcceptFail, At, HandOver
    <2> QED BY <2>1, <2>2, <2>3
  <1>2. CASE AcceptOk(p)
    <2>1. BridgeMove(p) BY <1>2 DEF AcceptOk, At, Acquire, Queue
    <2>2. EndedStay BY <1>2 DEF AcceptOk, EndedStay
    <2>3. AccMove(p) BY <1>2 DEF AcceptOk, At, Acquire, Queue, TgsT
    <2> QED BY <2>1, <2>2, <2>3
  <1>3. CASE Accepted(p)
    <2>1. BridgeMove(p) BY <1>3 DEF Accepted, Locked, Turn, HasLock, Release
    <2>2. EndedStay BY <1>3 DEF Accepted, EndedStay
    <2>3. AccMove(p) BY <1>3 DEF Accepted, Locked, Turn, HasLock, Release
    <2> QED BY <2>1, <2>2, <2>3
  <1>4. CASE TgEnded(p)
    <2>1. BridgeMove(p) BY <1>4 DEF TgEnded, At, Acquire, Queue, Finish, Await
    <2>2. EndedStay BY <1>4 DEF TgEnded, EndedStay
    <2>3. AccMove(p) BY <1>4 DEF TgEnded, At, Acquire, Queue, Finish, Await
    <2> QED BY <2>1, <2>2, <2>3
  <1>5. CASE TgDropped(p)
    <2>1. BridgeMove(p) BY <1>5 DEF TgDropped, Locked, Turn, HasLock, Release, Await, Queue
    <2>2. EndedStay BY <1>5 DEF TgDropped, EndedStay
    <2>3. AccMove(p)
      <3>1. pc'[p] \in {"recStart", "eeLock"} BY <1>5 DEF TgDropped, Await
      <3>2. u'.tg = None
        <4>1. \/ u' = [u EXCEPT !.tg = None, !.bridge = None, !.reconnect = p]
              \/ u' = [u EXCEPT !.tg = None, !.bridge = None]
          BY <1>5 DEF TgDropped
        <4>2. u \in User OBVIOUS
        <4> QED BY ONLY <4>1, <4>2 DEF User
      <3> QED BY <3>1, <3>2
    <2> QED BY <2>1, <2>2, <2>3
  <1>6. CASE TgGone(p) BY <1>6 DEF TgGone, Still
  <1> QED BY <1>1, <1>2, <1>3, <1>4, <1>5, <1>6 DEF TgStep

\* _reconnect.
LEMMA RecStepBridge ==
  ASSUME Inv, Reserved, SlotInv, BridgeInv, NoRec, NoCalls, Reconnect = FALSE,
         NEW p \in TgCalls, RecStep(p)
  PROVE  Bridges(p)
  <1> p \in Proc OBVIOUS
  <1>1. CASE RecStart(p) BY <1>1 DEF RecStart, NoRec, At
  <1>2. CASE RecCall(p) BY <1>2 DEF RecCall, NoRec, At
  <1>3. CASE RecFail(p) BY <1>3 DEF RecFail, NoRec, At
  <1>4. CASE RecWin(p) BY <1>4 DEF RecWin, NoRec, At
  <1>5. CASE RecAttach(p) BY <1>5 DEF RecAttach, NoRec, Turn, Locked
  <1>6. CASE RecAttached(p) BY <1>6 DEF RecAttached, NoRec, Turn
  <1>7. CASE RecAbandon(p) BY <1>7 DEF RecAbandon, NoRec, Turn, Locked
  <1>8. CASE RecEnd(p) BY <1>8 DEF RecEnd, NoRec, At
  <1> QED BY <1>1, <1>2, <1>3, <1>4, <1>5, <1>6, <1>7, <1>8 DEF RecStep

\* _end_everything.
LEMMA EeStepBridge ==
  ASSUME Inv, Reserved, SlotInv, BridgeInv, NoRec, NoCalls, Reconnect = FALSE,
         NEW p \in Proc, EeStep(p)
  PROVE  Bridges(p)
  <1>1. CASE EndEverything(p)
    <2>1. BridgeMove(p) BY <1>1 DEF EndEverything, Locked, Turn, HasLock, Release
    <2>2. EndedStay BY <1>1, EndedDown DEF EndEverything, EndedStay
    <2>3. AccMove(p) BY <1>1 DEF EndEverything, Locked, Turn, HasLock, Release
    <2> QED BY <2>1, <2>2, <2>3
  <1>2. CASE EeCancelled(p)
    <2>1. BridgeMove(p) BY <1>2 DEF EeCancelled, Turn, Release, GoOn
    <2>2. EndedStay BY <1>2 DEF EeCancelled, EndedStay
    <2>3. AccMove(p) BY <1>2 DEF EeCancelled, Turn, Release, GoOn
    <2> QED BY <2>1, <2>2, <2>3
  <1>3. CASE EeLeg(p)
    <2>1. BridgeMove(p) BY <1>3 DEF EeLeg, Turn, Either
    <2>2. EndedStay BY <1>3 DEF EeLeg, EndedStay
    <2>3. AccMove(p) BY <1>3 DEF EeLeg, Turn, Either
    <2> QED BY <2>1, <2>2, <2>3
  <1>4. CASE EeTg(p)
    <2>1. BridgeMove(p) BY <1>4 DEF EeTg, Turn, Finish, Await
    <2>2. EndedStay BY <1>4, EndedDown DEF EeTg
    <2>3. AccMove(p) BY <1>4 DEF EeTg, Turn, Finish, Await
    <2> QED BY <2>1, <2>2, <2>3
  <1> QED BY <1>1, <1>2, <1>3, <1>4 DEF EeStep

\* The commands.
LEMMA CommandStartBridge ==
  ASSUME Inv, Reserved, SlotInv, BridgeInv, NoRec, NoCalls, Reconnect = FALSE,
         NEW p \in Cmds, CommandStart(p)
  PROVE  Bridges(p)
  <1> p \in Proc OBVIOUS
  <1>1. CASE Hangup(p)
    <2>1. BridgeMove(p) BY <1>1 DEF Hangup, Command, At, Finish, Await, Acquire, Queue
    <2>2. EndedStay BY <1>1 DEF Hangup, EndedStay
    <2>3. AccMove(p) BY <1>1 DEF Hangup, Command, At, Finish, Await, Acquire, Queue
    <2> QED BY <2>1, <2>2, <2>3
  <1>2. CASE Decline(p)
    <2>1. BridgeMove(p) BY <1>2 DEF Decline, Command, At, Finish, Await
    <2>2. EndedStay BY <1>2, EndedDown DEF Decline, EndedStay
    <2>3. AccMove(p) BY <1>2 DEF Decline, Command, At, Finish, Await
    <2> QED BY <2>1, <2>2, <2>3
  <1>3. CASE Switch(p)
    <2>1. BridgeMove(p) BY <1>3 DEF Switch, Command, At, Acquire, Queue
    <2>2. EndedStay BY <1>3 DEF Switch, EndedStay
    <2>3. AccMove(p) BY <1>3 DEF Switch, Command, At, Acquire, Queue
    <2> QED BY <2>1, <2>2, <2>3
  <1>4. CASE Consult(p) BY <1>4 DEF Consult, Command, NoCalls
  <1>5. CASE Callback(p) BY <1>5 DEF Callback, Command, NoCalls
  <1>6. CASE Transfer(p)
    <2>1. BridgeMove(p) BY <1>6 DEF Transfer, Command, At, Acquire, Queue
    <2>2. EndedStay BY <1>6 DEF Transfer, EndedStay
    <2>3. AccMove(p) BY <1>6 DEF Transfer, Command, At, Acquire, Queue
    <2> QED BY <2>1, <2>2, <2>3
  <1>7. CASE Conference(p)
    <2>1. BridgeMove(p) BY <1>7 DEF Conference, Command, At
    <2>2. EndedStay BY <1>7 DEF Conference, EndedStay
    <2>3. AccMove(p) BY <1>7 DEF Conference, Command, At
    <2> QED BY <2>1, <2>2, <2>3
  <1> QED BY <1>1, <1>2, <1>3, <1>4, <1>5, <1>6, <1>7 DEF CommandStart

\* _switch.
LEMMA SwitchStepBridge ==
  ASSUME Inv, Reserved, SlotInv, BridgeInv, NoRec, NoCalls, Reconnect = FALSE,
         NEW p \in Cmds, SwitchStep(p)
  PROVE  Bridges(p)
  <1> p \in Proc OBVIOUS
  <1>1. CASE SwitchToWaiting(p)
    <2>1. BridgeMove(p) BY <1>1 DEF SwitchToWaiting, Locked, Turn, HasLock, AfterReinvite
    <2>2. EndedStay BY <1>1 DEF SwitchToWaiting, EndedStay
    <2>3. AccMove(p) BY <1>1 DEF SwitchToWaiting, Locked, Turn, HasLock, AfterReinvite
    <2> QED BY <2>1, <2>2, <2>3
  <1>2. CASE SwitchedToWaiting(p)
    <2>1. BridgeMove(p)
      <3>1. Alone(p) /\ pc[p] = "swHold" /\ pc'[p] = "unlock"
        BY <1>2 DEF SwitchedToWaiting, Turn, Await, Alone, HoldLabel
      <3>2. u.tg \in TgCalls BY <3>1, SlotT
      <3>3. u' = [[u EXCEPT !.held = IF u.active # None THEN u.active ELSE @]
                     EXCEPT !.active = my[p].leg, !.bridge = <<my[p].leg, u.tg>>]
        BY <1>2 DEF SwitchedToWaiting, Attached
      <3>4. u \in User OBVIOUS
      <3>5. u'.tg = u.tg /\ u'.bridge = <<u'.active, u.tg>> BY ONLY <3>3, <3>4 DEF User
      <3> QED BY <3>1, <3>2, <3>5
    <2>2. EndedStay BY <1>2 DEF SwitchedToWaiting, EndedStay
    <2>3. AccMove(p) BY <1>2 DEF SwitchedToWaiting, Turn, Attached, Await
    <2> QED BY <2>1, <2>2, <2>3
  <1>3. CASE SwitchToHeld(p)
    <2>1. BridgeMove(p) BY <1>3 DEF SwitchToHeld, Locked, Turn, HasLock, Either
    <2>2. EndedStay BY <1>3 DEF SwitchToHeld, EndedStay
    <2>3. AccMove(p) BY <1>3 DEF SwitchToHeld, Locked, Turn, HasLock, Either
    <2> QED BY <2>1, <2>2, <2>3
  <1>4. CASE SwitchedToHeld(p)
    <2>1. BridgeMove(p)
      <3>1. Alone(p) /\ pc[p] = "swUnhold" /\ pc'[p] = "unlock"
        BY <1>4 DEF SwitchedToHeld, Turn, Await, Alone, HoldLabel
      <3>2. u.tg \in TgCalls BY <3>1, SlotT
      <3>3. u' = [[u EXCEPT !.held = IF my[p].todo = <<>> THEN None ELSE Head(my[p].todo)]
                     EXCEPT !.active = my[p].leg, !.bridge = <<my[p].leg, u.tg>>]
        BY <1>4 DEF SwitchedToHeld, Attached
      <3>4. u \in User OBVIOUS
      <3>5. u'.tg = u.tg /\ u'.bridge = <<u'.active, u.tg>> BY ONLY <3>3, <3>4 DEF User
      <3> QED BY <3>1, <3>2, <3>5
    <2>2. EndedStay BY <1>4 DEF SwitchedToHeld, EndedStay
    <2>3. AccMove(p) BY <1>4 DEF SwitchedToHeld, Turn, Attached, Await
    <2> QED BY <2>1, <2>2, <2>3
  <1> QED BY <1>1, <1>2, <1>3, <1>4 DEF SwitchStep

\* _transfer and _conference.
LEMMA MoveStepBridge ==
  ASSUME Inv, Reserved, SlotInv, BridgeInv, NoRec, NoCalls, Reconnect = FALSE,
         NEW p \in Cmds, MoveStep(p)
  PROVE  Bridges(p)
  <1> p \in Proc OBVIOUS
  <1>1. CASE TransferLegs(p)
    <2>1. BridgeMove(p) BY <1>1 DEF TransferLegs, Locked, Turn, HasLock, Release, AfterReinvite
    <2>2. EndedStay BY <1>1 DEF TransferLegs, EndedStay
    <2>3. AccMove(p) BY <1>1 DEF TransferLegs, Locked, Turn, HasLock, Release, AfterReinvite
    <2> QED BY <2>1, <2>2, <2>3
  <1>2. CASE Transferred(p)
    <2>1. BridgeMove(p) BY <1>2 DEF Transferred, Turn, Finish, Await
    <2>2. EndedStay BY <1>2, EndedDown DEF Transferred
    <2>3. AccMove(p) BY <1>2 DEF Transferred, Turn, Finish, Await
    <2> QED BY <2>1, <2>2, <2>3
  <1>3. CASE ConfRefer(p)
    <2>1. BridgeMove(p) BY <1>3 DEF ConfRefer, At, Await, HandOver
    <2>2. EndedStay BY <1>3 DEF ConfRefer, EndedStay
    <2>3. AccMove(p) BY <1>3 DEF ConfRefer, At, Await, HandOver
    <2> QED BY <2>1, <2>2, <2>3
  <1>4. CASE ConfMoved(p)
    <2>1. BridgeMove(p) BY <1>4 DEF ConfMoved, At, Acquire, Queue
    <2>2. EndedStay BY <1>4 DEF ConfMoved, EndedStay
    <2>3. AccMove(p) BY <1>4 DEF ConfMoved, At, Acquire, Queue
    <2> QED BY <2>1, <2>2, <2>3
  <1>5. CASE ConfJoin(p)
    <2>1. BridgeMove(p) BY <1>5 DEF ConfJoin, Locked, Turn, HasLock, Release
    <2>2. EndedStay BY <1>5 DEF ConfJoin, EndedStay
    <2>3. AccMove(p) BY <1>5 DEF ConfJoin, Locked, Turn, HasLock, Release
    <2> QED BY <2>1, <2>2, <2>3
  <1> QED BY <1>1, <1>2, <1>3, <1>4, <1>5 DEF MoveStep

\* The end of a critical section.
LEMMA UnlockBridge ==
  ASSUME Inv, Reserved, SlotInv, BridgeInv, NoRec, NoCalls, Reconnect = FALSE,
         NEW p \in Proc, Unlock(p)
  PROVE  Bridges(p)
  <1>1. BridgeMove(p) BY DEF Unlock, At, Turn, Release, Finish, Await
  <1>2. EndedStay BY DEF Unlock, EndedStay
  <1>3. AccMove(p) BY DEF Unlock, At, Turn, Release, Finish, Await
  <1> QED BY <1>1, <1>2, <1>3

\* A notice that raises.
LEMMA NotifyRaiseBridge ==
  ASSUME Inv, Reserved, SlotInv, BridgeInv, NoRec, NoCalls, Reconnect = FALSE,
         NEW p \in Proc, NotifyRaise(p)
  PROVE  Bridges(p)
  <1>1. BridgeMove(p) BY DEF NotifyRaise, HandOver, Finish, Await
  <1>2. EndedStay BY DEF NotifyRaise, EndedStay
  <1>3. AccMove(p) BY DEF NotifyRaise, HandOver, Finish, Await
  <1> QED BY <1>1, <1>2, <1>3

\* The PBX calls.
LEMMA ArriveBridge ==
  ASSUME Inv, Reserved, SlotInv, BridgeInv, NoRec, NoCalls, Reconnect = FALSE,
         NEW p \in InLegs, Arrive(p)
  PROVE  Bridges(p)
  <1> p \in Proc OBVIOUS
  <1>1. BridgeMove(p) BY DEF Arrive, At, Either
  <1>2. EndedStay BY DEF Arrive, EndedStay
  <1>3. AccMove(p) BY DEF Arrive, At, Either
  <1> QED BY <1>1, <1>2, <1>3

\* The user calls the gateway.
LEMMA TgIncomingBridge ==
  ASSUME Inv, Reserved, SlotInv, BridgeInv, NoRec, NoCalls, Reconnect = FALSE,
         NEW p \in TgCalls, TgIncoming(p)
  PROVE  Bridges(p)
  <1> p \in Proc OBVIOUS
  <1>1. BridgeMove(p) BY DEF TgIncoming, At, Fresh, Reserve
  <1>2. EndedStay BY EndedNew DEF TgIncoming
  <1>3. AccMove(p) BY DEF TgIncoming, At, Fresh, Reserve
  <1> QED BY <1>1, <1>2, <1>3

\* A Telegram call that is refused at once.
LEMMA TgDeclineBridge ==
  ASSUME Inv, Reserved, SlotInv, BridgeInv, NoRec, NoCalls, Reconnect = FALSE,
         NEW p \in TgCalls, TgDecline(p)
  PROVE  Bridges(p)
  <1> p \in Proc OBVIOUS
  <1>1. BridgeMove(p) BY DEF TgDecline, At, Fresh, Finish, Await
  <1>2. EndedStay BY EndedNew DEF TgDecline
  <1>3. AccMove(p) BY DEF TgDecline, At, Fresh, Finish, Await
  <1> QED BY <1>1, <1>2, <1>3

HIDE DEF Bridges, BridgeMove, AccMove, OffLabels, DialLabels, RecLabels, TgLabels, Inv, Typed,
         Guarded, LockHeld, HolderTg, PcT, MyT, UT, User, Locals, LocalsOK, Reserved, ResLabels,
         Proc, Legs

-----------------------------------------------------------------------------
(* Every step.                                                             *)

LEMMA NextBridges ==
  ASSUME Inv, Watched, Reserved, SlotInv, BridgeInv, NoRec, NoCalls, Reconnect = FALSE,
         [Next]_vars
  PROVE  Still \/ \E p \in Proc : Moves(p) /\ Bridges(p)
  <1>1. ASSUME NEW p \in Proc, SystemStep(p) PROVE Still \/ (Moves(p) /\ Bridges(p))
    <2>1. CASE p \in InLegs /\ InLegStep(p) BY <2>1, InLegStepMoves, InLegStepBridge
    <2>2. CASE p \in OutLegs /\ OutLegStep(p) BY <2>2, OutLegStepMoves, OutLegStepBridge
    <2>3. CASE p \in Legs /\ LegStep(p) BY <2>3, LegStepMoves, LegStepBridge
    <2>4. CASE p \in TgCalls /\ TgStep(p) BY <2>4, TgStepMoves, TgStepBridge
    <2>5. CASE p \in TgCalls /\ RecStep(p) BY <2>5, RecStepMoves, RecStepBridge
    <2>6. CASE p \in Cmds /\ SwitchStep(p) BY <2>6, SwitchStepMoves, SwitchStepBridge
    <2>7. CASE p \in Cmds /\ DialStep(p) BY <2>7, NoDialStep
    <2>8. CASE p \in Cmds /\ MoveStep(p) BY <2>8, MoveStepMoves, MoveStepBridge
    <2>9. CASE EeStep(p) BY <2>9, EeStepMoves, EeStepBridge
    <2>10. CASE Unlock(p) BY <2>10, UnlockMoves, UnlockBridge
    <2> QED BY <1>1, <2>1, <2>2, <2>3, <2>4, <2>5, <2>6, <2>7, <2>8, <2>9, <2>10 DEF SystemStep
  <1>2. ASSUME NEW p \in Proc, EnvironmentStep(p) PROVE Still \/ (Moves(p) /\ Bridges(p))
    <2>1. CASE p \in InLegs /\ Arrive(p) BY <2>1, ArriveMoves, ArriveBridge
    <2>2. CASE p \in OutLegs /\ SipAnswers(p) BY <2>2, SipAnswersMoves
    <2>3. CASE p \in Legs /\ SipEnds(p) BY <2>3, SipEndsMoves
    <2>4. CASE p \in TgCalls /\ TgIncoming(p) BY <2>4, TgIncomingMoves, TgIncomingBridge
    <2>5. CASE p \in TgCalls /\ TgDecline(p) BY <2>5, TgDeclineMoves, TgDeclineBridge
    <2>6. CASE p \in TgCalls /\ TgEnds(p) BY <2>6, TgEndsMoves
    <2>7. CASE p \in Cmds /\ CommandStart(p) BY <2>7, CommandStartMoves, CommandStartBridge
    <2>8. CASE NotifyRaise(p) BY <2>8, NotifyRaiseMoves, NotifyRaiseBridge
    <2> QED BY <1>2, <2>1, <2>2, <2>3, <2>4, <2>5, <2>6, <2>7, <2>8 DEF EnvironmentStep
  <1>3. CASE \E p \in pairs : PairEnded(p) BY <1>3 DEF PairEnded, Still
  <1>4. CASE UNCHANGED vars BY <1>4 DEF vars, Still
  <1> QED BY <1>1, <1>2, <1>3, <1>4 DEF Next, Quiet

LEMMA InitBridge == Init => BridgeInv
  <1> SUFFICES ASSUME Init PROVE BridgeInv OBVIOUS
  <1>1. \A p \in Proc : pc[p] = "idle" BY DEF Init
  <1>2. u.bridge = None /\ u.tg = None /\ lockq = <<>> BY DEF Init
  <1>3. AccOrder BY <1>2 DEF AccOrder
  <1> QED BY <1>1, <1>2, <1>3 DEF BridgeInv, BridgeMatches, Off, OffLabels, AccTg, AccOwn

\* Unless the user dials, and without reconnection, the bridge joins the active leg and the
\* user's Telegram call, or a call that is over: no switch, takedown, transfer or crossing call
\* leaves a leg talking to a live call that is not the user's.
THEOREM BridgeIsMatched ==
  ASSUME NoCalls, Reconnect = FALSE
  PROVE  Spec => []BridgeMatches
  <1>1. Init => BridgeInv /\ NoRec BY InitBridge DEF Init, NoRec, RecLabels
  <1>2. /\ Inv /\ Watched /\ Orderly /\ SlotInv /\ BridgeInv /\ NoRec
        /\ (Inv /\ Watched /\ Orderly)' /\ [Next]_vars
        => (BridgeInv /\ NoRec)'
    <2> SUFFICES ASSUME Inv, Watched, Orderly, SlotInv, BridgeInv, NoRec,
                        Inv', Watched', Orderly', [Next]_vars
                 PROVE  BridgeInv' /\ NoRec'
      OBVIOUS
    <2>1. CASE Still BY <2>1, StillBridge, StillKeeps DEF Inv, Typed
    <2>2. ASSUME NEW p \in Proc, Moves(p), Bridges(p) PROVE BridgeInv' /\ NoRec'
      <3>1. NoRec' BY <2>2, NoRecMoves DEF Moves, Inv, Typed
      <3>2. BridgeMatches' /\ Off' /\ AccOwn' BY <2>2, BridgeMoves
      <3>3. AccOrder' /\ AccTg' BY <2>2, AccOrderMoves, AccTgMoves DEF BridgeInv, Bridges
      <3> QED BY <3>1, <3>2, <3>3 DEF BridgeInv
    <2> QED BY <2>1, <2>2, NextBridges DEF Orderly
  <1>3. BridgeInv => BridgeMatches BY DEF BridgeInv
  <1> QED BY <1>1, <1>2, <1>3, AllHolds, SlotsHold, PTL DEF Spec

-----------------------------------------------------------------------------
(* No live leg is lost, while the code's two ways of losing one are not    *)
(* taken: a ring that waits for the lock after tg_pending is cleared, as   *)
(* another one begins (manager.py:472), and a caller who is told to wait   *)
(* while /switch puts the active leg on hold beside a held one (:1013).    *)

RingLabels == {"ringNotify", "ringing", "ringFailed", "ringLock"}
OneRing    == \A p, q \in Proc : pc[p] \in RingLabels /\ pc[q] \in RingLabels => p = q
NoThird    == u.held = None \/ u.waiting = None
InTurn     == OneRing /\ NoThird

\* Where a call that has not been answered is.
EarlyLabels == {"idle", "offer"} \cup RingLabels
Three       == \E l, m, n \in Legs : l # m /\ l # n /\ m # n

\* A live leg that has its watcher, and where it is to be found: in a slot, in a transferred
\* pair, or with a task that works on it.
CarryLabels == {"endUnhold", "swHold", "eeCancel", "eeLegs", "xferUnhold"}
Holds(p, l) ==
    \/ pc[p] \in {"endUnhold", "swHold"} /\ my[p].leg = l
    \/ /\ pc[p] \in {"eeCancel", "eeLegs", "xferUnhold"}
       /\ \E i \in 1..Len(my[p].todo) : my[p].todo[i] = l
Live(l)   == Alive(l) /\ pc[l] = "watch"
Paired(l) == \E s \in pairs : l \in s
NoneLost  == \A l \in Legs : Live(l) =>
    l \in SlotLegs \/ Paired(l) \/ \E p \in Proc : Holds(p, l)

\* A user who is rung has no Telegram call, and a leg that is left without one waits for the
\* task that ends everything; that task is in the queue before the ring that is answered.
RingTg    == (\E p \in Proc : pc[p] \in RingLabels) => u.tg = None
ActiveTg  == u.active # None => u.tg # None \/ \E p \in Proc : pc[p] = "eeLock"
RingOrder == \A i \in 1..Len(lockq) : pc[lockq[i]] = "ringLock" /\ u.active # None =>
    \E j \in 1..(i - 1) : pc[lockq[j]] = "eeLock"
NoneHeld  == \A p \in Proc : pc[p] = "swHold" => u.held = None

LossInv == NoneLost /\ RingTg /\ ActiveTg /\ RingOrder /\ NoneHeld

\* What a step of the task p may do to u.tg and to the active and the held leg.
TurnMove(p) ==
    /\ u'.tg \in {u.tg, None} \/ (pc[p] = "ringLock" /\ pc'[p] \notin RingLabels)
    /\ pc'[p] \in RingLabels => (pc[p] \in RingLabels \/ u.tg = None) /\ u'.tg = u.tg
    /\ pc'[p] = "ringLock" =>
         pc[p] = "ringing" /\ u'.active = u.active /\ lockq' = Append(lockq, p)
    /\ u'.active # None =>
         /\ pc[p] # "eeLock"
         /\ u'.tg # None \/ pc'[p] = "eeLock" \/ (u.active # None /\ u.tg = None)
         /\ u.active # None \/ u.tg # None \/ pc[p] = "ringLock"
    /\ pc'[p] \in EarlyLabels =>
         pc[p] \in EarlyLabels /\ (pc'[p] \in RingLabels => p \in InLegs)
    /\ pc'[p] = "swHold" => u'.held = None
    /\ u'.held # None /\ u'.waiting # None => (u.held # None /\ u.waiting # None) \/ Three
    /\ u'.held = u.held \/ Alone(p)

\* What it may do with the legs: one it takes from its place it puts in another.
LegMove(p) == \A l \in Legs : Live(l)' =>
    /\ Live(l) \/ l \in SlotLegs'
    /\ l \in SlotLegs => l \in SlotLegs' \/ Holds(p, l)'
    /\ Holds(p, l) => l \in SlotLegs' \/ Holds(p, l)' \/ Paired(l)'
    /\ Paired(l) => Paired(l)'

\* Most steps leave the slots and the pairs alone, and start no watcher.
Leaves(p) ==
    /\ SlotsKept /\ pc[p] \notin CarryLabels /\ pairs' = pairs
    /\ \A l \in Legs : Live(l)' => Live(l)

\* Or no task moves: legs may end, and a pair goes with its two.
Fades == Still /\ \A l \in Legs : Live(l)' =>
    (Live(l) \/ l \in SlotLegs) /\ (Paired(l) => Paired(l)')

-----------------------------------------------------------------------------
(* What follows from it.                                                   *)

LEMMA LeavesMove == ASSUME NEW p \in Proc, Leaves(p) PROVE LegMove(p)
  <1>1. SlotLegs' = SlotLegs BY DEF Leaves, SlotsKept, SlotLegs
  <1>2. \A l \in Legs : ~Holds(p, l) BY DEF Leaves, Holds, CarryLabels
  <1>3. \A l \in Legs : Paired(l) => Paired(l)' BY DEF Leaves, Paired
  <1> QED BY <1>1, <1>2, <1>3 DEF LegMove, Leaves

\* A step of a task does not change what another one holds or waits for.
LEMMA OthersTurn ==
  ASSUME PcT, NEW p \in Proc, OthersMove(p), NEW q \in Proc, q # p
  PROVE  /\ pc'[q] \in RingLabels \cup CarryLabels => pc'[q] = pc[q]
         /\ pc[q] \in CarryLabels => pc'[q] = pc[q] /\ my'[q] = my[q]
         /\ pc[q] = "eeLock" => pc'[q] = pc[q]
  BY DEF OthersMove, Untouched, Begins, Cancels, RingLabels, CarryLabels

LEMMA LostMoves ==
  ASSUME PcT, NoneLost, NEW p \in Proc, OthersMove(p), LegMove(p)
  PROVE  NoneLost'
  <1> SUFFICES ASSUME NEW l \in Legs, Live(l)'
               PROVE  (l \in SlotLegs \/ Paired(l) \/ \E q \in Proc : Holds(q, l))'
    BY DEF NoneLost
  <1>1. CASE ~Live(l) BY <1>1 DEF LegMove
  <1>2. CASE l \in SlotLegs BY <1>2 DEF LegMove
  <1>3. CASE Paired(l) BY <1>3 DEF LegMove
  <1>4. ASSUME NEW q \in Proc, Holds(q, l)
        PROVE  (l \in SlotLegs \/ Paired(l) \/ \E r \in Proc : Holds(r, l))'
    <2>1. CASE q = p BY <1>4, <2>1 DEF LegMove
    <2>2. CASE q # p
      <3>1. pc'[q] = pc[q] /\ my'[q] = my[q] BY <1>4, <2>2, OthersTurn DEF Holds, CarryLabels
      <3>2. Holds(q, l)' BY <1>4, <3>1 DEF Holds
      <3> QED BY <3>2
    <2> QED BY <2>1, <2>2
  <1> QED BY <1>1, <1>2, <1>3, <1>4 DEF NoneLost

LEMMA TailAt ==
  ASSUME NEW S, NEW t \in Seq(S), NEW i \in 2..Len(t)
  PROVE  i - 1 \in 1..Len(Tail(t)) /\ Tail(t)[i - 1] = t[i]
  <1>1. Len(t) \in Nat /\ t # <<>> OBVIOUS
  <1>2. Len(Tail(t)) = Len(t) - 1 BY <1>1
  <1>3. i - 1 \in 1..Len(Tail(t)) /\ (i - 1) + 1 = i BY <1>1, <1>2
  <1> QED BY <1>1, <1>3

\* Whoever was before another task in the queue is still, unless it has left.
LEMMA QueueAhead ==
  ASSUME LockT, LockHeld, HeldOnce, NEW p \in Proc, LockMove(p),
         NEW i \in 1..Len(lockq'), lockq'[i] # p
  PROVE  \E m \in 1..Len(lockq) :
           /\ lockq'[i] = lockq[m]
           /\ \A n \in 1..(m - 1) : lockq[n] # p => \E k \in 1..(i - 1) : lockq'[k] = lockq[n]
  <1>1. Len(lockq) \in Nat BY DEF LockT
  <1>2. CASE lockq' = lockq BY <1>2
  <1>3. CASE lockq' = Append(lockq, p)
    <2>1. /\ Len(lockq') = Len(lockq) + 1 /\ lockq'[Len(lockq')] = p
          /\ \A k \in 1..Len(lockq) : lockq'[k] = lockq[k]
      BY <1>3 DEF LockT
    <2>2. i \in 1..Len(lockq) BY <1>1, <2>1
    <2> QED BY <1>1, <2>1, <2>2
  <1>4. ASSUME lockq # <<>>, HasLock(p) \/ pc[p] \in HoldLabel
        PROVE  /\ Len(lockq) \in Nat \ {0} /\ Len(Tail(lockq)) = Len(lockq) - 1
               /\ \A k \in 1..Len(lockq) - 1 : Tail(lockq)[k] = lockq[k + 1]
               /\ lockq[1] = p
    BY <1>4 DEF LockT, HasLock, HeldOnce, LockHeld
  <1>5. ASSUME Len(lockq) \in Nat \ {0}, lockq[1] = p, i + 1 \in 1..Len(lockq),
               \A k \in 1..i : lockq'[k] = lockq[k + 1]
        PROVE  \E m \in 1..Len(lockq) :
                 /\ lockq'[i] = lockq[m]
                 /\ \A n \in 1..(m - 1) : lockq[n] # p =>
                      \E k \in 1..(i - 1) : lockq'[k] = lockq[n]
    <2>1. lockq'[i] = lockq[i + 1] BY <1>5
    <2>2. ASSUME NEW n \in 1..((i + 1) - 1), lockq[n] # p
          PROVE  \E k \in 1..(i - 1) : lockq'[k] = lockq[n]
      <3>1. n # 1 BY <1>5, <2>2
      <3>2. n - 1 \in 1..(i - 1) /\ n - 1 \in 1..i /\ (n - 1) + 1 = n BY <1>5, <3>1
      <3>3. lockq'[n - 1] = lockq[n] BY <1>5, <3>2
      <3> QED BY <3>2, <3>3
    <2> QED BY <1>5, <2>1, <2>2
  <1>6. CASE lockq # <<>> /\ lockq' = Tail(lockq) /\ (HasLock(p) \/ pc[p] \in HoldLabel)
    <2>1. i + 1 \in 1..Len(lockq) /\ \A k \in 1..i : lockq'[k] = lockq[k + 1] BY <1>4, <1>6
    <2> QED BY <1>4, <1>5, <1>6, <2>1
  <1>7. CASE HasLock(p) /\ lockq' = Append(Tail(lockq), p)
    <2>1. lockq # <<>> BY <1>7 DEF HasLock
    <2>2. Tail(lockq) \in Seq(Proc) BY <2>1 DEF LockT
    <2>3. /\ Len(lockq') = Len(lockq) /\ lockq'[Len(lockq)] = p /\ Len(lockq) \in Nat \ {0}
          /\ \A k \in 1..Len(lockq) - 1 : lockq'[k] = lockq[k + 1]
      <3>1. /\ Len(lockq') = Len(Tail(lockq)) + 1 /\ lockq'[Len(Tail(lockq)) + 1] = p
            /\ \A k \in 1..Len(Tail(lockq)) : lockq'[k] = Tail(lockq)[k]
        BY <1>7, <2>2
      <3> QED BY <1>4, <1>7, <2>1, <3>1
    <2>4. i # Len(lockq) BY <2>3
    <2>5. i + 1 \in 1..Len(lockq) /\ \A k \in 1..i : lockq'[k] = lockq[k + 1] BY <2>3, <2>4
    <2> QED BY <1>4, <1>5, <1>7, <2>1, <2>5
  <1> QED BY <1>2, <1>3, <1>6, <1>7 DEF LockMove

LEMMA TurnMoves ==
  ASSUME Inv, Orderly, SlotInv, LossInv, InTurn, NEW p \in Proc, Moves(p), TurnMove(p)
  PROVE  (RingTg /\ ActiveTg /\ RingOrder /\ NoneHeld)'
  <1> USE DEF Inv, Typed, Guarded, Moves, LossInv
  <1>1. ASSUME NEW q \in Proc, q # p, pc'[q] \in RingLabels
        PROVE  /\ pc[q] = pc'[q] /\ u.tg = None /\ u'.tg = None
               /\ u'.active # None => u.active # None
    <2>1. pc[q] = pc'[q] BY <1>1, OthersTurn
    <2>2. u.tg = None BY <1>1, <2>1 DEF RingTg
    <2>3. pc[p] # "ringLock" BY <1>1, <2>1 DEF InTurn, OneRing, RingLabels
    <2> QED BY <2>1, <2>2, <2>3 DEF TurnMove
  <1>2. RingTg'
    <2> SUFFICES ASSUME NEW q \in Proc, pc'[q] \in RingLabels PROVE u'.tg = None
      BY DEF RingTg
    <2>1. CASE q = p BY <2>1 DEF RingTg, TurnMove
    <2>2. CASE q # p BY <1>1, <2>2
    <2> QED BY <2>1, <2>2
  <1>3. ActiveTg'
    <2> SUFFICES ASSUME u'.active # None, u'.tg = None, pc'[p] # "eeLock"
                 PROVE  \E q \in Proc : pc'[q] = "eeLock"
      BY DEF ActiveTg
    <2>1. u.active # None /\ u.tg = None /\ pc[p] # "eeLock" BY DEF TurnMove
    <2>2. PICK q \in Proc : pc[q] = "eeLock" BY <2>1 DEF ActiveTg
    <2> QED BY <2>1, <2>2, OthersTurn
  <1>4. RingOrder'
    <2> SUFFICES ASSUME NEW i \in 1..Len(lockq'), pc'[lockq'[i]] = "ringLock", u'.active # None
                 PROVE  \E k \in 1..(i - 1) : pc'[lockq'[k]] = "eeLock"
      BY DEF RingOrder
    <2>1. Len(lockq) \in Nat /\ \A k \in 1..Len(lockq) : lockq[k] \in Proc BY DEF LockT
    <2>2. pc[p] # "eeLock" BY DEF TurnMove
    <2>3. CASE lockq'[i] = p
      <3>1. pc[p] = "ringing" /\ u.active # None /\ lockq' = Append(lockq, p)
        BY <2>3 DEF TurnMove
      <3>2. u.tg = None BY <3>1 DEF RingTg, RingLabels
      <3>3. PICK q \in Proc : pc[q] = "eeLock" BY <3>1, <3>2 DEF ActiveTg
      <3>4. pc[q] \in QueueLabels /\ pc[p] \notin QueueLabels BY <3>1, <3>3
           DEF QueueLabels, LockLabel, HoldLabel
      <3>5. PICK k \in 1..Len(lockq) : lockq[k] = q BY <3>4 DEF Orderly, InQueue
      <3>6. /\ Len(lockq') = Len(lockq) + 1
            /\ \A n \in 1..Len(lockq) : lockq'[n] = lockq[n]
        BY <3>1 DEF LockT
      <3>7. i = Len(lockq) + 1 BY <2>1, <2>3, <3>4, <3>6 DEF Orderly, OnlyQueued
      <3>8. pc'[q] = "eeLock" BY <2>2, <3>3, OthersTurn
      <3> QED BY <2>1, <3>5, <3>6, <3>7, <3>8
    <2>4. CASE lockq'[i] # p
      <3>1. PICK m \in 1..Len(lockq) :
              /\ lockq'[i] = lockq[m]
              /\ \A n \in 1..(m - 1) : lockq[n] # p => \E k \in 1..(i - 1) : lockq'[k] = lockq[n]
        BY <2>4, QueueAhead DEF Orderly
      <3>2. pc[lockq[m]] = "ringLock" /\ u.active # None BY <1>1, <2>1, <2>4, <3>1 DEF RingLabels
      <3>3. PICK n \in 1..(m - 1) : pc[lockq[n]] = "eeLock" BY <3>2 DEF RingOrder
      <3>4. n \in 1..Len(lockq) BY <2>1
      <3>5. lockq[n] \in Proc /\ lockq[n] # p BY <2>1, <2>2, <3>3, <3>4
      <3>6. pc'[lockq[n]] = "eeLock" BY <3>3, <3>5, OthersTurn
      <3> QED BY <3>1, <3>5, <3>6
    <2> QED BY <2>3, <2>4
  <1>5. NoneHeld'
    <2> SUFFICES ASSUME NEW q \in Proc, pc'[q] = "swHold" PROVE u'.held = None
      BY DEF NoneHeld
    <2>1. CASE q = p BY <2>1 DEF TurnMove
    <2>2. CASE q # p
      <3>1. pc[q] = "swHold" BY <2>2, OthersTurn DEF CarryLabels
      <3>2. ~Alone(p) BY <2>2, <3>1, OnlyHolder DEF HandLabels
      <3> QED BY <3>1, <3>2 DEF TurnMove, NoneHeld
    <2> QED BY <2>1, <2>2
  <1> QED BY <1>2, <1>3, <1>4, <1>5

LEMMA FadesLost == ASSUME LossInv, Fades PROVE LossInv'
  <1>1. UNCHANGED <<u, lockq, pc, my>> BY DEF Fades, Still
  <1>2. NoneLost' BY <1>1 DEF LossInv, NoneLost, SlotLegs, Holds, Fades
  <1> QED BY <1>1, <1>2 DEF LossInv, RingTg, ActiveTg, RingOrder, NoneHeld

LEMMA StillFades == ASSUME NEW p, Still, LegMove(p) PROVE Fades
  BY DEF Still, LegMove, Fades, SlotLegs

-----------------------------------------------------------------------------
(* What each action may do.                                                *)

Waits(p) == TurnMove(p) /\ LegMove(p)

\* No call starts, and no watcher.
NoneNew == \A l \in Legs : /\ sip[l] \in {"none", "dead"} => sip'[l] \in {"none", "dead"}
                           /\ pc'[l] = "watch" => pc[l] = "watch"

LEMMA NoneNewLive == ASSUME NoneNew PROVE \A l \in Legs : Live(l)' => Live(l)
  BY DEF NoneNew, Live, Alive

LEMMA LeavesAlone ==
  ASSUME NEW p \in Proc, SlotsKept, pc[p] \notin CarryLabels, pairs' = pairs, NoneNew
  PROVE  LegMove(p)
  BY NoneNewLive, LeavesMove DEF Leaves

LEMMA NoneRings == ASSUME SipT, NEW l, Ring(l) \/ Answer(l) \/ End(l) \/ sip' = sip
                   PROVE  \A m \in Legs : sip[m] \in {"none", "dead"} => sip'[m] \in {"none", "dead"}
  BY DEF SipT, Ring, Answer, End

USE NoneAssumption, DisjointAssumption
    DEF Waits, TurnMove, RingLabels, EarlyLabels, CarryLabels, NoneNew, SlotsKept,
        DialLabels, RecLabels, TgLabels, Inv, Typed, Guarded, LockHeld, HolderTg, PcT, MyT, UT,
        User, Locals, LocalsOK, Reserved, ResLabels, Proc, Legs

\* _sip_incoming and _ring_users.
LEMMA InLegStepWaits ==
  ASSUME Inv, Watched, Reserved, SlotInv, NoRec, LossInv, InTurn, NoCalls, OutLegs = {},
         Reconnect = FALSE, NEW p \in InLegs, InLegStep(p)
  PROVE  Waits(p)
  <1> p \in Proc OBVIOUS
  <1>1. CASE OfferReject(p)
    <2>1. TurnMove(p) BY <1>1 DEF OfferReject, Turn, Finish, Await
    <2>2. NoneNew BY <1>1, NoneRings DEF OfferReject, Turn, Finish, Await
    <2>3. LegMove(p) BY <1>1, <2>2, LeavesAlone DEF OfferReject, Turn
    <2> QED BY <2>1, <2>3
  <1>2. CASE OfferWaiting(p)
    <2>1. pc[p] = "offer" /\ pc'[p] \in {"watch", "done"} /\ pairs' = pairs
      BY <1>2 DEF OfferWaiting, Turn, Await, Finish
    <2>2. CASE ~CanWait
      <3>1. u' = u BY <1>2, <2>2 DEF OfferWaiting
      <3>2. NoneNew BY <1>2, <2>2, NoneRings DEF OfferWaiting, Finish, Await
      <3>3. LegMove(p) BY <2>1, <3>1, <3>2, LeavesAlone
      <3> QED BY <2>1, <3>1, <3>3
    <2>3. CASE CanWait
      <3>1. u' = [u EXCEPT !.waiting = p] /\ pc' = [pc EXCEPT ![p] = "watch"] /\ Ring(p)
        BY <1>2, <2>3 DEF OfferWaiting, Await
      <3>2. u \in User OBVIOUS
      <3>3. u'.waiting = p /\ u'.active = u.active /\ u'.held = u.held /\ u'.tg = u.tg
        BY ONLY <3>1, <3>2 DEF User
      <3>4. TurnMove(p) BY <2>1, <2>3, <3>1, <3>3 DEF CanWait
      <3>5. SlotLegs' = SlotLegs \cup {p} BY <2>3, <3>3 DEF CanWait, SlotLegs
      <3>6. \A l \in Legs \ {p} : Live(l)' => Live(l) BY <3>1, NoneRings DEF Live, Alive
      <3>7. \A l \in Legs : ~Holds(p, l) BY <2>1 DEF Holds
      <3>8. LegMove(p) BY <2>1, <3>5, <3>6, <3>7 DEF LegMove, Paired
      <3> QED BY <3>4, <3>8
    <2> QED BY <2>2, <2>3
  <1>3. CASE OfferRing(p)
    <2>1. TurnMove(p) BY <1>3 DEF OfferRing, Turn, Either, Busy
    <2>2. NoneNew BY <1>3, NoneRings DEF OfferRing, Turn, Either
    <2>3. LegMove(p) BY <1>3, <2>2, LeavesAlone DEF OfferRing, Turn
    <2> QED BY <2>1, <2>3
  <1>4. CASE RingCall(p)
    <2>1. u' = u /\ sip' = sip /\ pairs' = pairs /\ pc[p] = "ringNotify" BY <1>4 DEF RingCall, Turn
    <2>2. \E n \in {"ringing", "ringFailed"} : pc' = [pc EXCEPT ![p] = n]
      BY <1>4 DEF RingCall, Await
    <2>3. TurnMove(p) BY <2>1, <2>2
    <2>4. LegMove(p) BY <2>1, <2>2, LeavesAlone
    <2> QED BY <2>3, <2>4
  <1>5. CASE RingFail(p)
    <2>1. TurnMove(p) BY <1>5 DEF RingFail, At, Either
    <2>2. NoneNew BY <1>5 DEF RingFail, At, Either
    <2>3. LegMove(p) BY <1>5, <2>2, LeavesAlone DEF RingFail, At
    <2> QED BY <2>1, <2>3
  <1>6. CASE RingMissed(p)
    <2>1. TurnMove(p) BY <1>6 DEF RingMissed, Turn, Finish, Await
    <2>2. NoneNew BY <1>6, NoneRings DEF RingMissed, Turn, Finish, Await
    <2>3. LegMove(p) BY <1>6, <2>2, LeavesAlone DEF RingMissed, Turn
    <2> QED BY <2>1, <2>3
  <1>7. CASE RingGone(p)
    <2>1. TurnMove(p) BY <1>7 DEF RingGone, At, GoOn, Await
    <2>2. NoneNew BY <1>7 DEF RingGone, At, GoOn, Await
    <2>3. LegMove(p) BY <1>7, <2>2, LeavesAlone DEF RingGone, At
    <2> QED BY <2>1, <2>3
  <1>8. CASE RingCancelled(p)
    <2>1. TurnMove(p) BY <1>8 DEF RingCancelled, Turn, Finish, Await
    <2>2. NoneNew BY <1>8 DEF RingCancelled, Turn, Finish, Await
    <2>3. LegMove(p) BY <1>8, <2>2, LeavesAlone DEF RingCancelled, Turn
    <2> QED BY <2>1, <2>3
  <1>9. CASE RingWin(p)
    <2>1. TurnMove(p) BY <1>9 DEF RingWin, At, Acquire, Queue
    <2>2. NoneNew BY <1>9 DEF RingWin, At, Acquire, Queue
    <2>3. LegMove(p) BY <1>9, <2>2, LeavesAlone DEF RingWin, At
    <2> QED BY <2>1, <2>3
  <1>10. CASE RingAttach(p)
    <2>1. pc[p] = "ringLock" /\ HasLock(p) /\ pairs' = pairs /\ Answer(p)
      BY <1>10 DEF RingAttach, Locked, Turn
    <2>2. my[p].tg \in TgCalls BY <2>1, TgLocal
    <2>3. pc' = [pc EXCEPT ![p] = "watch", ![my[p].tg] = "watch"] BY <1>10 DEF RingAttach
    <2>4. u' = [[u EXCEPT !.tg = my[p].tg] EXCEPT !.active = p, !.bridge = <<p, my[p].tg>>]
      BY <1>10 DEF RingAttach, Attached
    <2>5. u \in User OBVIOUS
    <2>6. u'.tg = my[p].tg /\ u'.active = p /\ u'.held = u.held /\ u'.waiting = u.waiting
      BY ONLY <2>4, <2>5 DEF User
    <2>7. u.active = None
      <3>1. lockq # <<>> /\ Head(lockq) = p BY <2>1 DEF HasLock
      <3>2. 1 \in 1..Len(lockq) /\ lockq[1] = p BY <3>1 DEF LockT
      <3>3. 1..(1 - 1) = {} OBVIOUS
      <3> QED BY <2>1, <3>2, <3>3 DEF LossInv, RingOrder
    <2>8. TurnMove(p) BY <2>1, <2>2, <2>3, <2>6
    <2>9. SlotLegs' = SlotLegs \cup {p} BY <2>6, <2>7 DEF SlotLegs
    <2>10. \A l \in Legs \ {p} : Live(l)' => Live(l) BY <2>1, <2>2, <2>3, NoneRings DEF Live, Alive
    <2>11. \A l \in Legs : ~Holds(p, l) BY <2>1 DEF Holds
    <2>12. LegMove(p) BY <2>1, <2>9, <2>10, <2>11 DEF LegMove, Paired
    <2> QED BY <2>8, <2>12
  <1> QED BY <1>1, <1>2, <1>3, <1>4, <1>5, <1>6, <1>7, <1>8, <1>9, <1>10 DEF InLegStep

\* The watcher of a leg.
LEMMA LegStepWaits ==
  ASSUME Inv, Watched, Reserved, SlotInv, NoRec, LossInv, InTurn, NoCalls, OutLegs = {},
         Reconnect = FALSE, NEW p \in Legs, LegStep(p)
  PROVE  Waits(p) \/ Fades
  <1> p \in Proc OBVIOUS
  <1> HandOf(p) BY DEF SlotInv, Hands
  <1> u \in User OBVIOUS
  <1>1. CASE LegEnded(p)
    <2>1. TurnMove(p) BY <1>1 DEF LegEnded, At, Acquire, Queue
    <2>2. NoneNew BY <1>1 DEF LegEnded, At, Acquire, Queue
    <2>3. LegMove(p) BY <1>1, <2>2, LeavesAlone DEF LegEnded, At
    <2> QED BY <2>1, <2>3
  <1>2. CASE EndIdle(p)
    <2>1. /\ pc[p] = "endLock" /\ pc' = [pc EXCEPT ![p] = "unlock"] /\ Alone(p)
          /\ pairs' = pairs /\ sip' = sip
      BY <1>2 DEF EndIdle, Locked, Turn, Await, Alone
    <2>2. /\ u'.active = u.active /\ u'.tg = u.tg
          /\ \/ u.waiting = p /\ u'.waiting = None /\ u'.held = u.held
             \/ u.held = p /\ u'.held = None /\ u'.waiting = u.waiting
      <3>1. \/ u.waiting = p /\ u' = [u EXCEPT !.waiting = None]
            \/ u.held = p /\ u' = [u EXCEPT !.held = None]
        BY <1>2 DEF EndIdle
      <3> QED BY ONLY <3>1, u \in User DEF User
    <2>3. TurnMove(p) BY <2>1, <2>2
    <2>4. SlotLegs \ {p} \subseteq SlotLegs' BY <2>2 DEF SlotLegs
    <2>5. \A l \in Legs : Live(l)' => l # p /\ Live(l) BY <2>1 DEF Live, Alive
    <2>6. \A l \in Legs : ~Holds(p, l) BY <2>1 DEF Holds
    <2>7. LegMove(p) BY <2>1, <2>4, <2>5, <2>6 DEF LegMove, Paired
    <2> QED BY <2>3, <2>7
  <1>3. CASE EndActive(p)
    <2>1. /\ pc[p] = "endLock" /\ pc' = [pc EXCEPT ![p] = "endNext"] /\ Alone(p)
          /\ pairs' = pairs /\ sip' = sip
      BY <1>3 DEF EndActive, Locked, Turn, Either, Alone
    <2>2. /\ u.active = p /\ u'.active = None /\ u'.tg = u.tg
          /\ u'.held = u.held /\ u'.waiting = u.waiting
      <3>1. u.active = p /\ u' = [u EXCEPT !.active = None, !.bridge = None]
        BY <1>3 DEF EndActive
      <3> QED BY ONLY <3>1, u \in User DEF User
    <2>3. TurnMove(p) BY <2>1, <2>2
    <2>4. SlotLegs \ {p} \subseteq SlotLegs' BY <2>2 DEF SlotLegs
    <2>5. \A l \in Legs : Live(l)' => l # p /\ Live(l) BY <2>1 DEF Live, Alive
    <2>6. \A l \in Legs : ~Holds(p, l) BY <2>1 DEF Holds
    <2>7. LegMove(p) BY <2>1, <2>4, <2>5, <2>6 DEF LegMove, Paired
    <2> QED BY <2>3, <2>7
  <1>4. CASE EndResume(p)
    <2>1. /\ pc[p] = "endNext" /\ pc' = [pc EXCEPT ![p] = "endUnhold"] /\ Alone(p)
          /\ pairs' = pairs /\ sip' = sip /\ my' = [my EXCEPT ![p].leg = u.held]
      BY <1>4 DEF EndResume, Turn, AfterReinvite, Alone, HoldLabel
    <2>2. /\ u'.active = u.active /\ u'.tg = u.tg /\ u.active = None
          /\ u'.held = None /\ u'.waiting = u.waiting
      <3>1. u' = [u EXCEPT !.held = None] BY <1>4 DEF EndResume
      <3>2. u'.active = u.active /\ u'.tg = u.tg /\ u'.held = None /\ u'.waiting = u.waiting
        BY ONLY <3>1, u \in User DEF User
      <3> QED BY <2>1, <3>2 DEF HandOf
    <2>3. TurnMove(p) BY <2>1, <2>2
    <2>4. \A l \in SlotLegs : l \in SlotLegs' \/ Holds(p, l)' BY <2>1, <2>2 DEF SlotLegs, Holds
    <2>5. \A l \in Legs : Live(l)' => Live(l) BY <2>1 DEF Live, Alive
    <2>6. \A l \in Legs : ~Holds(p, l) BY <2>1 DEF Holds
    <2>7. LegMove(p) BY <2>1, <2>4, <2>5, <2>6 DEF LegMove, Paired
    <2> QED BY <2>3, <2>7
  <1>5. CASE EndResumed(p)
    <2>1. /\ pc[p] = "endUnhold" /\ pc' = [pc EXCEPT ![p] = "unlock"] /\ Alone(p)
          /\ pairs' = pairs /\ sip' = sip
      BY <1>5 DEF EndResumed, Turn, Await, Alone, HoldLabel
    <2>2. /\ u'.active = my[p].leg /\ u'.tg = u.tg /\ u.tg # None /\ u.active = None
          /\ u'.held = u.held /\ u'.waiting = u.waiting /\ my[p].leg \in Legs
      <3>1. u' = [u EXCEPT !.active = my[p].leg, !.bridge = <<my[p].leg, u.tg>>]
        BY <1>5 DEF EndResumed, Attached
      <3>2. u'.active = my[p].leg /\ u'.tg = u.tg /\ u'.held = u.held /\ u'.waiting = u.waiting
        BY ONLY <3>1, u \in User DEF User
      <3> QED BY <2>1, <3>2 DEF HandOf
    <2>3. TurnMove(p) BY <2>1, <2>2
    <2>4. SlotLegs' = SlotLegs \cup {my[p].leg} BY <2>2 DEF SlotLegs
    <2>5. \A l \in Legs : Live(l)' => Live(l) BY <2>1 DEF Live, Alive
    <2>6. \A l \in Legs : Holds(p, l) => l = my[p].leg BY <2>1 DEF Holds
    <2>7. LegMove(p) BY <2>1, <2>4, <2>5, <2>6 DEF LegMove, Paired
    <2> QED BY <2>3, <2>7
  <1>6. CASE EndAnswerWaiting(p)
    <2>1. /\ pc[p] = "endNext" /\ pc' = [pc EXCEPT ![p] = "unlock"] /\ Alone(p)
          /\ pairs' = pairs /\ Answer(u.waiting)
      BY <1>6 DEF EndAnswerWaiting, Turn, Await, Alone, HoldLabel
    <2>2. /\ u'.active = u.waiting /\ u'.tg = u.tg /\ u.tg # None /\ u.active = None
          /\ u'.held = u.held /\ u'.waiting = None
      <3>1. u' = [[u EXCEPT !.waiting = None] EXCEPT !.active = u.waiting,
                     !.bridge = <<u.waiting, u.tg>>]
        BY <1>6 DEF EndAnswerWaiting, Attached
      <3>2. u'.active = u.waiting /\ u'.tg = u.tg /\ u'.held = u.held /\ u'.waiting = None
        BY ONLY <3>1, u \in User DEF User
      <3> QED BY <1>6, <2>1, <3>2 DEF HandOf, EndAnswerWaiting
    <2>3. TurnMove(p) BY <2>1, <2>2
    <2>4. SlotLegs' = SlotLegs BY <2>2 DEF SlotLegs
    <2>5. NoneNew BY <2>1, NoneRings
    <2>6. \A l \in Legs : ~Holds(p, l) BY <2>1 DEF Holds
    <2>7. LegMove(p) BY <2>1, <2>4, <2>5, <2>6, NoneNewLive DEF LegMove, Paired
    <2> QED BY <2>3, <2>7
  <1>7. CASE EndHangTg(p)
    <2>1. /\ pc[p] = "endNext" /\ pc' = [pc EXCEPT ![p] = "endHang"]
          /\ pairs' = pairs /\ sip' = sip
      BY <1>7 DEF EndHangTg, Turn, Await
    <2>2. /\ u'.active = u.active /\ u'.tg = None /\ u.active = None
          /\ u'.held = u.held /\ u'.waiting = u.waiting
      <3>1. u' = [u EXCEPT !.tg = None] BY <1>7 DEF EndHangTg
      <3>2. u'.active = u.active /\ u'.tg = None /\ u'.held = u.held /\ u'.waiting = u.waiting
        BY ONLY <3>1, u \in User DEF User
      <3> QED BY <2>1, <3>2 DEF HandOf
    <2>3. TurnMove(p) BY <2>1, <2>2
    <2>4. LegMove(p) BY <2>1, <2>2, LeavesAlone
    <2> QED BY <2>3, <2>4
  <1>8. CASE WaitingTimeout(p)
    <2>1. Still /\ UNCHANGED <<pc, pairs>> BY <1>8 DEF WaitingTimeout, Still
    <2>2. NoneNew BY <1>8, NoneRings DEF WaitingTimeout
    <2> QED BY <2>1, <2>2, NoneNewLive DEF Fades, Paired
  <1> QED BY <1>1, <1>2, <1>3, <1>4, <1>5, <1>6, <1>7, <1>8 DEF LegStep

\* _tg_incoming does not begin; the watcher of a Telegram call.
LEMMA TgStepWaits ==
  ASSUME Inv, Watched, Reserved, SlotInv, NoRec, LossInv, InTurn, NoCalls, OutLegs = {},
         Reconnect = FALSE, NEW p \in TgCalls, TgStep(p)
  PROVE  Waits(p) \/ Fades
  <1> p \in Proc OBVIOUS
  <1> u \in User OBVIOUS
  <1>1. CASE AcceptFail(p) BY <1>1 DEF AcceptFail, At
  <1>2. CASE AcceptOk(p) BY <1>2 DEF AcceptOk, At
  <1>3. CASE Accepted(p) BY <1>3 DEF Accepted, Locked, Turn
  <1>4. CASE TgEnded(p)
    <2>1. TurnMove(p) BY <1>4 DEF TgEnded, At, Acquire, Queue, Finish, Await
    <2>2. NoneNew BY <1>4 DEF TgEnded, At, Acquire, Queue, Finish, Await
    <2>3. LegMove(p) BY <1>4, <2>2, LeavesAlone DEF TgEnded, At
    <2> QED BY <2>1, <2>3
  <1>5. CASE TgDropped(p)
    <2>1. /\ pc[p] = "tgEndLock" /\ pc' = [pc EXCEPT ![p] = "eeLock"]
          /\ pairs' = pairs /\ sip' = sip
      BY <1>5 DEF TgDropped, Locked, Turn, CanReconnect
    <2>2. u'.active = u.active /\ u'.tg = None /\ u'.held = u.held /\ u'.waiting = u.waiting
      <3>1. u' = [u EXCEPT !.tg = None, !.bridge = None] BY <1>5 DEF TgDropped, CanReconnect
      <3> QED BY ONLY <3>1, u \in User DEF User
    <2>3. TurnMove(p) BY <2>1, <2>2
    <2>4. LegMove(p) BY <2>1, <2>2, LeavesAlone
    <2> QED BY <2>3, <2>4
  <1>6. CASE TgGone(p) BY <1>6 DEF TgGone, Still, Fades, Live, Alive, Paired
  <1> QED BY <1>1, <1>2, <1>3, <1>4, <1>5, <1>6 DEF TgStep

\* UserState.legs() has every leg of the slots.
LEMMA SlotListed ==
  ASSUME UT, NEW l \in SlotLegs
  PROVE  \E i \in 1..Len(SlotList) : SlotList[i] = l
  <1> u \in User OBVIOUS
  <1> DEFINE A == Some(u.active)  H == Some(u.held)  W == Some(u.waiting)
  <1>1. A \in Seq(Legs) /\ H \in Seq(Legs) /\ W \in Seq(Legs)
    <2>1. \A m \in {u.active, u.held, u.waiting} : Some(m) \in Seq(Legs) BY SlotT, SomeT
    <2> QED BY <2>1
  <1>2. SlotList = (A \o H) \o W BY DEF SlotList
  <1>3. CASE l = u.active
    <2>1. Len(A) = 1 /\ A[1] = l BY <1>3 DEF Some, SlotLegs
    <2>2. 1 \in 1..Len(SlotList) /\ SlotList[1] = A[1] BY <1>1, <1>2, <2>1
    <2> QED BY <2>1, <2>2
  <1>4. CASE l = u.held
    <2>1. Len(H) = 1 /\ H[1] = l BY <1>4 DEF Some, SlotLegs
    <2>2. Len(A) + 1 \in 1..Len(SlotList) /\ SlotList[Len(A) + 1] = H[1]
      BY <1>1, <1>2, <2>1
    <2> QED BY <2>1, <2>2
  <1>5. CASE l = u.waiting
    <2>1. Len(W) = 1 /\ W[1] = l BY <1>5 DEF Some, SlotLegs
    <2>2. A \o H \in Seq(Legs) /\ Len(A \o H) \in Nat BY <1>1
    <2>3. /\ Len(A \o H) + 1 \in 1..Len(SlotList)
          /\ SlotList[Len(A \o H) + 1] = W[1]
      BY <1>1, <1>2, <2>1, <2>2
    <2> QED BY <2>1, <2>3
  <1> QED BY <1>3, <1>4, <1>5 DEF SlotLegs

\* _end_everything.
LEMMA EeStepWaits ==
  ASSUME Inv, Watched, Reserved, SlotInv, NoRec, LossInv, InTurn, NoCalls, OutLegs = {},
         Reconnect = FALSE, NEW p \in Proc, EeStep(p)
  PROVE  Waits(p)
  <1> u \in User OBVIOUS
  <1>1. CASE EndEverything(p)
    <2>1. pc[p] = "eeLock" /\ Alone(p) /\ pairs' = pairs /\ sip' = sip
      BY <1>1 DEF EndEverything, Locked, Turn, Alone
    <2>2. /\ u'.active = None /\ u'.tg = None /\ u'.held = None /\ u'.waiting = None
      <3>1. u' = [u EXCEPT !.active = None, !.held = None, !.waiting = None,
                           !.bridge = None, !.tg = None, !.reconnect = None]
        BY <1>1 DEF EndEverything
      <3> QED BY ONLY <3>1, u \in User DEF User
    <2>3. pc'[p] \in {"eeCancel", "eeLegs"} /\ my'[p].todo = SlotList
      <3>1. pc'[p] \in {"eeCancel", "eeLegs"} BY <1>1 DEF EndEverything
      <3>2. my'[p] = [my[p] EXCEPT !.todo = SlotList, !.tg = u.tg] BY <1>1 DEF EndEverything
      <3>3. my[p] \in Locals OBVIOUS
      <3>4. my'[p].todo = SlotList BY ONLY <3>2, <3>3 DEF Locals
      <3> QED BY <3>1, <3>4
    <2>4. \A q \in Proc : pc'[q] = "watch" => pc[q] = "watch" BY <1>1 DEF EndEverything
    <2>5. TurnMove(p) BY <2>1, <2>2, <2>3
    <2>6. \A l \in SlotLegs : Holds(p, l)' BY <2>3, SlotListed DEF Holds
    <2>7. \A l \in Legs : Live(l)' => Live(l) BY <2>1, <2>4 DEF Live, Alive
    <2>8. \A l \in Legs : ~Holds(p, l) BY <2>1 DEF Holds
    <2>9. LegMove(p) BY <2>1, <2>6, <2>7, <2>8 DEF LegMove, Paired
    <2> QED BY <2>5, <2>9
  <1>2. CASE EeCancelled(p)
    <2>1. /\ pc[p] = "eeCancel" /\ pc' = [pc EXCEPT ![p] = "eeLegs"]
          /\ pairs' = pairs /\ sip' = sip /\ my' = my
      BY <1>2 DEF EeCancelled, Turn, GoOn
    <2>2. /\ u'.active = u.active /\ u'.tg = u.tg /\ u'.held = u.held /\ u'.waiting = u.waiting
      <3>1. u' = [u EXCEPT !.pending = FALSE] BY <1>2 DEF EeCancelled
      <3> QED BY ONLY <3>1, u \in User DEF User
    <2>3. TurnMove(p) BY <2>1, <2>2
    <2>4. SlotLegs' = SlotLegs BY <2>2 DEF SlotLegs
    <2>5. \A l \in Legs : Live(l)' => Live(l) BY <2>1 DEF Live, Alive
    <2>6. \A l \in Legs : Holds(p, l) => Holds(p, l)' BY <2>1 DEF Holds
    <2>7. LegMove(p) BY <2>1, <2>4, <2>5, <2>6 DEF LegMove, Paired
    <2> QED BY <2>3, <2>7
  <1>3. CASE EeLeg(p)
    <2>1. /\ pc[p] = "eeLegs" /\ pc' = [pc EXCEPT ![p] = "eeLegs"] /\ u' = u
          /\ pairs' = pairs /\ End(Head(my[p].todo)) /\ my[p].todo # <<>>
          /\ my' = [my EXCEPT ![p].todo = Tail(@)]
      BY <1>3 DEF EeLeg, Turn, Either
    <2>2. my[p].todo \in Seq(Legs) /\ my'[p].todo = Tail(my[p].todo) BY <2>1
    <2>3. TurnMove(p) BY <2>1
    <2>4. SlotLegs' = SlotLegs BY <2>1 DEF SlotLegs
    <2>5. NoneNew BY <2>1, NoneRings
    <2>6. ASSUME NEW l \in Legs, Holds(p, l), Live(l)' PROVE Holds(p, l)'
      <3>1. PICK i \in 1..Len(my[p].todo) : my[p].todo[i] = l BY <2>1, <2>6 DEF Holds
      <3>2. i # 1
        <4>1. sip'[Head(my[p].todo)] = "dead" BY <2>1, <2>2 DEF End, SipT
        <4> QED BY <2>6, <3>1, <4>1 DEF Live, Alive
      <3>3. i - 1 \in 1..Len(my'[p].todo) /\ my'[p].todo[i - 1] = l
        <4>1. i \in 2..Len(my[p].todo) BY ONLY <3>1, <3>2, <2>2
        <4> QED BY ONLY <4>1, <3>1, <2>2, TailAt
      <3> QED BY <2>1, <3>3 DEF Holds
    <2>7. LegMove(p) BY <2>1, <2>4, <2>5, <2>6, NoneNewLive DEF LegMove, Paired
    <2> QED BY <2>3, <2>7
  <1>4. CASE EeTg(p)
    <2>1. /\ pc[p] = "eeLegs" /\ pc' = [pc EXCEPT ![p] = "done"] /\ u' = u
          /\ pairs' = pairs /\ sip' = sip /\ my[p].todo = <<>>
      BY <1>4 DEF EeTg, Turn, Finish, Await
    <2>2. TurnMove(p) BY <2>1
    <2>3. SlotLegs' = SlotLegs BY <2>1 DEF SlotLegs
    <2>4. NoneNew BY <2>1
    <2>5. \A l \in Legs : ~Holds(p, l) BY <2>1 DEF Holds
    <2>6. LegMove(p) BY <2>1, <2>3, <2>4, <2>5, NoneNewLive DEF LegMove, Paired
    <2> QED BY <2>2, <2>6
  <1> QED BY <1>1, <1>2, <1>3, <1>4 DEF EeStep

\* The commands.
LEMMA CommandStartWaits ==
  ASSUME Inv, Watched, Reserved, SlotInv, NoRec, LossInv, InTurn, NoCalls, OutLegs = {},
         Reconnect = FALSE, NEW p \in Cmds, CommandStart(p)
  PROVE  Waits(p)
  <1> p \in Proc OBVIOUS
  <1>1. CASE Hangup(p)
    <2>1. TurnMove(p) BY <1>1 DEF Hangup, Command, At, Finish, Await, Acquire, Queue
    <2>2. NoneNew BY <1>1, NoneRings DEF Hangup, Command, At, Finish, Await, Acquire, Queue
    <2>3. LegMove(p) BY <1>1, <2>2, LeavesAlone DEF Hangup, Command, At
    <2> QED BY <2>1, <2>3
  <1>2. CASE Decline(p)
    <2>1. TurnMove(p) BY <1>2 DEF Decline, Command, At, Finish, Await
    <2>2. NoneNew BY <1>2, NoneRings DEF Decline, Command, At, Finish, Await
    <2>3. LegMove(p) BY <1>2, <2>2, LeavesAlone DEF Decline, Command, At
    <2> QED BY <2>1, <2>3
  <1>3. CASE Switch(p)
    <2>1. TurnMove(p) BY <1>3 DEF Switch, Command, At, Acquire, Queue
    <2>2. NoneNew BY <1>3 DEF Switch, Command, At, Acquire, Queue
    <2>3. LegMove(p) BY <1>3, <2>2, LeavesAlone DEF Switch, Command, At
    <2> QED BY <2>1, <2>3
  <1>4. CASE Consult(p) BY <1>4 DEF Consult, Command, NoCalls
  <1>5. CASE Callback(p) BY <1>5 DEF Callback, Command, NoCalls
  <1>6. CASE Transfer(p)
    <2>1. TurnMove(p) BY <1>6 DEF Transfer, Command, At, Acquire, Queue
    <2>2. NoneNew BY <1>6 DEF Transfer, Command, At, Acquire, Queue
    <2>3. LegMove(p) BY <1>6, <2>2, LeavesAlone DEF Transfer, Command, At
    <2> QED BY <2>1, <2>3
  <1>7. CASE Conference(p) BY <1>7 DEF Conference
  <1> QED BY <1>1, <1>2, <1>3, <1>4, <1>5, <1>6, <1>7 DEF CommandStart

\* _switch.
LEMMA SwitchStepWaits ==
  ASSUME Inv, Watched, Reserved, SlotInv, NoRec, LossInv, InTurn, NoCalls, OutLegs = {},
         Reconnect = FALSE, NEW p \in Cmds, SwitchStep(p)
  PROVE  Waits(p)
  <1> p \in Proc OBVIOUS
  <1> HandOf(p) BY DEF SlotInv, Hands
  <1> u \in User OBVIOUS
  <1>1. CASE SwitchToWaiting(p)
    <2>1. /\ pc[p] = "swLock" /\ pc' = [pc EXCEPT ![p] = "swHold"] /\ Alone(p)
          /\ pairs' = pairs /\ sip' = sip /\ my' = [my EXCEPT ![p].leg = u.waiting]
      BY <1>1 DEF SwitchToWaiting, Locked, Turn, AfterReinvite, Alone
    <2>2. /\ u'.active = u.active /\ u'.tg = u.tg /\ u.held = None
          /\ u'.held = None /\ u'.waiting = None
      <3>1. u' = [u EXCEPT !.waiting = None, !.bridge = IF u.active # None THEN None ELSE @]
        BY <1>1 DEF SwitchToWaiting
      <3>2. u'.active = u.active /\ u'.tg = u.tg /\ u'.held = u.held /\ u'.waiting = None
        BY ONLY <3>1, u \in User DEF User
      <3>3. u.held = None BY <1>1 DEF SwitchToWaiting, InTurn, NoThird
      <3> QED BY <3>2, <3>3
    <2>3. TurnMove(p) BY <2>1, <2>2
    <2>4. \A l \in SlotLegs : l \in SlotLegs' \/ Holds(p, l)' BY <2>1, <2>2 DEF SlotLegs, Holds
    <2>5. \A l \in Legs : Live(l)' => Live(l) BY <2>1 DEF Live, Alive
    <2>6. \A l \in Legs : ~Holds(p, l) BY <2>1 DEF Holds
    <2>7. LegMove(p) BY <2>1, <2>4, <2>5, <2>6 DEF LegMove, Paired
    <2> QED BY <2>3, <2>7
  <1>2. CASE SwitchedToWaiting(p)
    <2>1. /\ pc[p] = "swHold" /\ pc' = [pc EXCEPT ![p] = "unlock"] /\ Alone(p)
          /\ pairs' = pairs /\ Answer(my[p].leg)
      BY <1>2 DEF SwitchedToWaiting, Turn, Await, Alone, HoldLabel
    <2>2. /\ u'.active = my[p].leg /\ u'.tg = u.tg /\ u.tg # None /\ my[p].leg \in Legs
          /\ u'.held = u.active /\ u'.waiting = u.waiting /\ u.held = None
      <3>1. u' = [[u EXCEPT !.held = IF u.active # None THEN u.active ELSE @]
                     EXCEPT !.active = my[p].leg, !.bridge = <<my[p].leg, u.tg>>]
        BY <1>2 DEF SwitchedToWaiting, Attached
      <3>2. /\ u'.active = my[p].leg /\ u'.tg = u.tg /\ u'.waiting = u.waiting
            /\ u'.held = (IF u.active # None THEN u.active ELSE u.held)
        BY ONLY <3>1, u \in User DEF User
      <3>3. u.held = None BY <2>1 DEF LossInv, NoneHeld
      <3> QED BY <2>1, <3>2, <3>3 DEF HandOf
    <2>3. u.active # None /\ u.waiting # None => Three
      <3>1. my[p].leg \notin SlotLegs BY <2>1 DEF HandOf
      <3>2. u.active # u.waiting \/ u.active = None BY DEF SlotInv, SlotsDistinct
      <3> QED BY <2>2, <3>1, <3>2, SlotT DEF Three, SlotLegs
    <2>4. TurnMove(p) BY <2>1, <2>2, <2>3
    <2>5. SlotLegs \cup {my[p].leg} \subseteq SlotLegs' BY <2>2 DEF SlotLegs
    <2>6. NoneNew BY <2>1, NoneRings
    <2>7. \A l \in Legs : Holds(p, l) => l = my[p].leg BY <2>1 DEF Holds
    <2>8. LegMove(p) BY <2>1, <2>5, <2>6, <2>7, NoneNewLive DEF LegMove, Paired
    <2> QED BY <2>4, <2>8
  <1>3. CASE SwitchToHeld(p)
    <2>1. /\ pc[p] = "swLock" /\ pc' = [pc EXCEPT ![p] = "swUnhold"]
          /\ pairs' = pairs /\ sip' = sip
      BY <1>3 DEF SwitchToHeld, Locked, Turn, Either
    <2>2. /\ u'.active = u.active /\ u'.tg = u.tg /\ u'.held = u.held /\ u'.waiting = u.waiting
      <3>1. u' = [u EXCEPT !.bridge = IF u.active # None THEN None ELSE @] BY <1>3 DEF SwitchToHeld
      <3> QED BY ONLY <3>1, u \in User DEF User
    <2>3. TurnMove(p) BY <2>1, <2>2
    <2>4. LegMove(p) BY <2>1, <2>2, LeavesAlone
    <2> QED BY <2>3, <2>4
  <1>4. CASE SwitchedToHeld(p)
    <2>1. /\ pc[p] = "swUnhold" /\ pc' = [pc EXCEPT ![p] = "unlock"] /\ Alone(p)
          /\ pairs' = pairs /\ sip' = sip
      BY <1>4 DEF SwitchedToHeld, Turn, Await, Alone, HoldLabel
    <2>2. /\ u'.active = u.held /\ u'.tg = u.tg /\ u.tg # None /\ u.held # None
          /\ u'.held = u.active /\ u'.waiting = u.waiting
      <3>1. u' = [[u EXCEPT !.held = IF my[p].todo = <<>> THEN None ELSE Head(my[p].todo)]
                     EXCEPT !.active = my[p].leg, !.bridge = <<my[p].leg, u.tg>>]
        BY <1>4 DEF SwitchedToHeld, Attached
      <3>2. my[p].leg = u.held /\ my[p].todo = Some(u.active) BY <2>1 DEF HandOf
      <3>3. (IF my[p].todo = <<>> THEN None ELSE Head(my[p].todo)) = u.active BY <3>2 DEF Some
      <3>4. /\ u'.active = u.held /\ u'.tg = u.tg /\ u'.held = u.active /\ u'.waiting = u.waiting
        BY ONLY <3>1, <3>2, <3>3, u \in User DEF User
      <3> QED BY <2>1, <3>4 DEF HandOf
    <2>3. TurnMove(p) BY <2>1, <2>2
    <2>4. SlotLegs' = SlotLegs BY <2>2 DEF SlotLegs
    <2>5. \A l \in Legs : Live(l)' => Live(l) BY <2>1 DEF Live, Alive
    <2>6. \A l \in Legs : ~Holds(p, l) BY <2>1 DEF Holds
    <2>7. LegMove(p) BY <2>1, <2>4, <2>5, <2>6 DEF LegMove, Paired
    <2> QED BY <2>3, <2>7
  <1> QED BY <1>1, <1>2, <1>3, <1>4 DEF SwitchStep

\* _transfer; a conference has no leg to set aside.
LEMMA MoveStepWaits ==
  ASSUME Inv, Watched, Reserved, SlotInv, NoRec, LossInv, InTurn, NoCalls, OutLegs = {},
         Reconnect = FALSE, NEW p \in Cmds, MoveStep(p)
  PROVE  Waits(p)
  <1> p \in Proc OBVIOUS
  <1> u \in User OBVIOUS
  <1>1. CASE TransferLegs(p)
    <2>1. /\ pc[p] = "xferLock" /\ pc' = [pc EXCEPT ![p] = "xferUnhold"] /\ Alone(p)
          /\ pairs' = pairs /\ sip' = sip
          /\ my' = [my EXCEPT ![p].tg = u.tg, ![p].todo = <<u.active, u.held>>]
      BY <1>1 DEF TransferLegs, Locked, Turn, AfterReinvite, Alone
    <2>2. /\ u'.active = None /\ u'.tg = None /\ u'.held = None /\ u'.waiting = u.waiting
      <3>1. u' = [u EXCEPT !.active = None, !.held = None, !.bridge = None, !.tg = None]
        BY <1>1 DEF TransferLegs
      <3> QED BY ONLY <3>1, u \in User DEF User
    <2>3. TurnMove(p) BY <2>1, <2>2
    <2>4. pc'[p] = "xferUnhold" /\ my'[p].todo = <<u.active, u.held>> BY <2>1
    <2>5. \A l \in SlotLegs : l \in SlotLegs' \/ Holds(p, l)'
      <3>1. SlotLegs \ {u.active, u.held} \subseteq SlotLegs' BY <2>2 DEF SlotLegs
      <3>2. ASSUME NEW l, l \in {u.active, u.held} PROVE Holds(p, l)'
        <4>1. /\ 1 \in 1..Len(my'[p].todo) /\ my'[p].todo[1] = u.active
              /\ 2 \in 1..Len(my'[p].todo) /\ my'[p].todo[2] = u.held
          BY <2>4
        <4>2. \E i \in 1..Len(my'[p].todo) : my'[p].todo[i] = l BY <3>2, <4>1
        <4> QED BY <2>4, <4>2 DEF Holds
      <3> QED BY <3>1, <3>2
    <2>6. \A l \in Legs : Live(l)' => Live(l) BY <2>1 DEF Live, Alive
    <2>7. \A l \in Legs : ~Holds(p, l) BY <2>1 DEF Holds
    <2>8. LegMove(p) BY <2>1, <2>5, <2>6, <2>7 DEF LegMove, Paired
    <2> QED BY <2>3, <2>8
  <1>2. CASE Transferred(p)
    <2>1. /\ pc[p] = "xferUnhold" /\ pc' = [pc EXCEPT ![p] = "done"]
          /\ pairs' = pairs \cup {{my[p].todo[1], my[p].todo[2]}} /\ sip' = sip /\ u' = u
      BY <1>2 DEF Transferred, Turn, Finish, Await
    <2>2. TurnMove(p) BY <2>1
    <2>3. SlotLegs' = SlotLegs BY <2>1 DEF SlotLegs
    <2>4. \A l \in Legs : Live(l)' => Live(l) BY <2>1 DEF Live, Alive
    <2>5. ASSUME NEW l \in Legs, Holds(p, l) PROVE Paired(l)'
      <3>1. Len(my[p].todo) = 2 BY <2>1
      <3>2. PICK i \in 1..Len(my[p].todo) : my[p].todo[i] = l BY <2>1, <2>5 DEF Holds
      <3>3. i = 1 \/ i = 2 BY <3>1
      <3>4. l \in {my[p].todo[1], my[p].todo[2]} BY <3>2, <3>3
      <3>5. {my[p].todo[1], my[p].todo[2]} \in pairs' BY <2>1
      <3> QED BY <3>4, <3>5 DEF Paired
    <2>6. \A l \in Legs : Paired(l) => Paired(l)' BY <2>1 DEF Paired
    <2>7. LegMove(p) BY <2>3, <2>4, <2>5, <2>6 DEF LegMove
    <2> QED BY <2>2, <2>7
  <1>3. CASE ConfRefer(p) BY <1>3 DEF ConfRefer, At
  <1>4. CASE ConfMoved(p) BY <1>4 DEF ConfMoved, At
  <1>5. CASE ConfJoin(p) BY <1>5 DEF ConfJoin, Locked, Turn
  <1> QED BY <1>1, <1>2, <1>3, <1>4, <1>5 DEF MoveStep

\* The end of a critical section.
LEMMA UnlockWaits ==
  ASSUME Inv, Watched, Reserved, SlotInv, NoRec, LossInv, InTurn, NoCalls, OutLegs = {},
         Reconnect = FALSE, NEW p \in Proc, Unlock(p)
  PROVE  Waits(p)
  <1>1. /\ pc[p] \in {"endLock", "endNext", "tgEndLock", "swLock", "xferLock", "cancelled",
                      "unlock", "dialHang", "endHang", "dirHang"}
        /\ pc' = [pc EXCEPT ![p] = "done"] /\ UNCHANGED <<sip, u, pairs>>
    BY DEF Unlock, NothingToDo, Locked, At, Turn, Finish, Await
  <1>2. TurnMove(p) BY <1>1
  <1>3. LegMove(p) BY <1>1, LeavesAlone
  <1> QED BY <1>2, <1>3

\* The PBX calls.
LEMMA ArriveWaits ==
  ASSUME Inv, Watched, Reserved, SlotInv, NoRec, LossInv, InTurn, NoCalls, OutLegs = {},
         Reconnect = FALSE, NEW p \in InLegs, Arrive(p)
  PROVE  Waits(p)
  <1> p \in Proc OBVIOUS
  <1>1. /\ pc[p] = "idle" /\ pc' = [pc EXCEPT ![p] = "offer"] /\ UNCHANGED <<u, pairs>>
        /\ sip' = [sip EXCEPT ![p] = "new"]
    BY DEF Arrive, At, Either
  <1>2. TurnMove(p) BY <1>1
  <1>3. \A l \in Legs : Live(l)' => Live(l) BY <1>1 DEF Live, Alive, SipT
  <1>4. LegMove(p) BY <1>1, <1>3, LeavesMove DEF Leaves
  <1> QED BY <1>2, <1>4

\* A Telegram call that is refused at once.
LEMMA TgDeclineWaits ==
  ASSUME Inv, Watched, Reserved, SlotInv, NoRec, LossInv, InTurn, NoCalls, OutLegs = {},
         Reconnect = FALSE, NEW p \in TgCalls, TgDecline(p)
  PROVE  Waits(p)
  <1> p \in Proc OBVIOUS
  <1>1. /\ pc[p] = "idle" /\ pc' = [pc EXCEPT ![p] = "done"] /\ UNCHANGED <<sip, u, pairs>>
    BY DEF TgDecline, At, Finish, Await
  <1>2. TurnMove(p) BY <1>1
  <1>3. LegMove(p) BY <1>1, LeavesAlone
  <1> QED BY <1>2, <1>3

\* The far ends.
LEMMA EndsFade ==
  ASSUME SipT, TgsT, NEW p \in Proc, SipEnds(p) \/ TgEnds(p)
  PROVE  Fades
  <1>1. UNCHANGED <<pc, pairs>> BY DEF SipEnds, TgEnds
  <1>2. Still /\ NoneNew
    <2>1. CASE SipEnds(p) BY <2>1, NoneRings DEF SipEnds, Still
    <2>2. CASE TgEnds(p)
      <3>1. sip' = sip /\ pc' = pc /\ tgs' = [tgs EXCEPT ![p] = "ended"] /\ tgs[p] = "up"
            /\ UNCHANGED <<u, lockq, my>>
        BY <2>2 DEF TgEnds
      <3> QED BY <3>1 DEF Still, TgsT
    <2> QED BY <2>1, <2>2
  <1> QED BY <1>1, <1>2, NoneNewLive DEF Fades, Paired

LEMMA PairFades ==
  ASSUME SipT, PairsT, NEW p \in pairs, PairEnded(p)
  PROVE  Fades
  <1>1. Still /\ pc' = pc /\ pairs' = pairs \ {p} BY DEF PairEnded, Still
  <1>2. sip' = [l \in Legs |-> IF l \in p THEN "dead" ELSE sip[l]] BY DEF PairEnded
  <1>3. ASSUME NEW l \in Legs, Live(l)' PROVE Live(l) /\ l \notin p
    BY <1>1, <1>2, <1>3 DEF Live, Alive
  <1> QED BY <1>1, <1>3 DEF Fades, Paired

HIDE DEF Waits, TurnMove, RingLabels, EarlyLabels, CarryLabels, NoneNew, SlotsKept,
         DialLabels, RecLabels, TgLabels, Inv, Typed, Guarded, LockHeld, HolderTg, PcT, MyT, UT,
         User, Locals, LocalsOK, Reserved, ResLabels, Proc, Legs

-----------------------------------------------------------------------------
(* Every step.                                                             *)

LEMMA NextWaits ==
  ASSUME Inv, Watched, Reserved, SlotInv, NoRec, LossInv, InTurn, NoCalls, OutLegs = {},
         Reconnect = FALSE, NotifyRaises = FALSE, [Next]_vars
  PROVE  Fades \/ \E p \in Proc : Moves(p) /\ Waits(p)
  <1>1. ASSUME NEW p \in Proc, SystemStep(p)
        PROVE  Fades \/ (Moves(p) /\ Waits(p))
    <2>1. CASE p \in InLegs /\ InLegStep(p) BY <2>1, InLegStepMoves, InLegStepWaits
    <2>2. CASE p \in OutLegs /\ OutLegStep(p) BY <2>2
    <2>3. CASE p \in Legs /\ LegStep(p) BY <2>3, LegStepMoves, LegStepWaits, StillFades DEF Waits
    <2>4. CASE p \in TgCalls /\ TgStep(p) BY <2>4, TgStepMoves, TgStepWaits, StillFades DEF Waits
    <2>5. CASE p \in TgCalls /\ RecStep(p)
      BY <2>5 DEF RecStep, RecStart, RecCall, RecFail, RecWin, RecAttach, RecAttached, RecAbandon,
           RecEnd, NoRec, RecLabels, Locked, At, Turn
    <2>6. CASE p \in Cmds /\ SwitchStep(p) BY <2>6, SwitchStepMoves, SwitchStepWaits
    <2>7. CASE p \in Cmds /\ DialStep(p) BY <2>7, NoDialStep
    <2>8. CASE p \in Cmds /\ MoveStep(p) BY <2>8, MoveStepMoves, MoveStepWaits
    <2>9. CASE EeStep(p) BY <2>9, EeStepMoves, EeStepWaits
    <2>10. CASE Unlock(p) BY <2>10, UnlockMoves, UnlockWaits
    <2> QED BY <1>1, <2>1, <2>2, <2>3, <2>4, <2>5, <2>6, <2>7, <2>8, <2>9, <2>10 DEF SystemStep
  <1>2. ASSUME NEW p \in Proc, EnvironmentStep(p) PROVE Fades \/ (Moves(p) /\ Waits(p))
    <2>1. CASE p \in InLegs /\ Arrive(p) BY <2>1, ArriveMoves, ArriveWaits
    <2>2. CASE p \in OutLegs /\ SipAnswers(p) BY <2>2
    <2>3. CASE p \in Legs /\ SipEnds(p) BY <2>3, EndsFade DEF Inv, Typed
    <2>4. CASE p \in TgCalls /\ TgIncoming(p) BY <2>4 DEF TgIncoming, Reserve
    <2>5. CASE p \in TgCalls /\ TgDecline(p) BY <2>5, TgDeclineMoves, TgDeclineWaits
    <2>6. CASE p \in TgCalls /\ TgEnds(p) BY <2>6, EndsFade DEF Inv, Typed
    <2>7. CASE p \in Cmds /\ CommandStart(p) BY <2>7, CommandStartMoves, CommandStartWaits
    <2>8. CASE NotifyRaise(p) BY <2>8 DEF NotifyRaise
    <2> QED BY <1>2, <2>1, <2>2, <2>3, <2>4, <2>5, <2>6, <2>7, <2>8 DEF EnvironmentStep
  <1>3. CASE \E p \in pairs : PairEnded(p) BY <1>3, PairFades DEF Inv, Typed
  <1>4. CASE UNCHANGED vars BY <1>4 DEF vars, Fades, Still, Live, Alive, Paired
  <1> QED BY <1>1, <1>2, <1>3, <1>4 DEF Next, Quiet

LEMMA NextLoss ==
  ASSUME Inv, Watched, Orderly, SlotInv, NoRec, LossInv, InTurn, NoCalls, OutLegs = {},
         Reconnect = FALSE, NotifyRaises = FALSE, [Next]_vars
  PROVE  LossInv' /\ NoRec'
  <1>1. CASE Fades
    <2>1. Still BY <1>1 DEF Fades
    <2> QED BY <1>1, <2>1, FadesLost, StillKeeps DEF Inv, Typed
  <1>2. ASSUME NEW p \in Proc, Moves(p), Waits(p) PROVE LossInv' /\ NoRec'
    <2>1. NoRec' BY <1>2, NoRecMoves DEF Moves, Inv, Typed
    <2>2. (RingTg /\ ActiveTg /\ RingOrder /\ NoneHeld)' BY <1>2, TurnMoves DEF Waits
    <2>3. NoneLost' BY <1>2, LostMoves DEF Waits, Moves, LossInv, Inv, Typed
    <2> QED BY <2>1, <2>2, <2>3 DEF LossInv
  <1> QED BY <1>1, <1>2, NextWaits DEF Orderly

LEMMA InitLoss == Init => LossInv /\ NoRec
  <1> SUFFICES ASSUME Init PROVE LossInv /\ NoRec OBVIOUS
  <1>1. \A p \in Proc : pc[p] = "idle" BY DEF Init
  <1>2. u.tg = None /\ u.active = None /\ u.reconnect = None /\ lockq = <<>> BY DEF Init
  <1>3. \A l \in Legs : ~Live(l) BY DEF Init, Live, Alive
  <1>4. NoneLost BY <1>3 DEF NoneLost
  <1>5. RingTg /\ ActiveTg /\ RingOrder /\ NoneHeld BY <1>1, <1>2
       DEF RingTg, RingLabels, ActiveTg, RingOrder, NoneHeld
  <1>6. NoRec BY <1>1, <1>2 DEF NoRec, RecLabels
  <1> QED BY <1>4, <1>5, <1>6 DEF LossInv

LEMMA LossOrphan == LossInv => NoOrphanLeg
  BY DEF LossInv, NoneLost, NoOrphanLeg, Live, Paired, Holds

\* Incoming calls, answered, switched, transferred, declined, hung up and taken down by any
\* number of tasks, with no leg of the gateway's own, without reconnection and when notices do
\* not raise: as long as one ring is answered before the next begins and nobody is told to wait
\* beside a held leg, no live leg is ever out of the reach of everyone.  These are the two ways
\* in which the code loses a caller who is on the line.
THEOREM NoLegIsLost ==
  ASSUME NoCalls, OutLegs = {}, Reconnect = FALSE, NotifyRaises = FALSE
  PROVE  Spec /\ []InTurn => []NoOrphanLeg
  <1>1. /\ Inv /\ Watched /\ Orderly /\ SlotInv /\ LossInv /\ NoRec /\ InTurn /\ [Next]_vars
        => (LossInv /\ NoRec)'
    BY NextLoss
  <1> QED BY <1>1, InitLoss, LossOrphan, AllHolds, SlotsHold, PTL DEF Spec

-----------------------------------------------------------------------------
(* Two callers, and a user who does not hang up: they stay in turn.        *)

TwoLegs == \A l, m, n \in InLegs : l = m \/ l = n \/ m = n

\* While neither of two callers has been answered, nothing else goes on with the user's calls.
Unanswered(l, m) ==
    /\ u.tg = None
    /\ \A p \in TgCalls \cup Cmds : pc[p] \in {"idle", "done", "swLock", "xferLock"}
    /\ \A i \in 1..Len(lockq) : i = 1 /\ running = lockq[1]
    /\ ~(pc[l] \in RingLabels /\ pc[m] \in RingLabels)
    /\ pc[l] \in RingLabels \ {"ringLock"} => u.pending
Early(l, m) == l # m /\ pc[l] \in EarlyLabels /\ pc[m] \in EarlyLabels
BothEarly   == \A l, m \in InLegs : Early(l, m) => Unanswered(l, m)
RingOwn     == \A p \in Proc : pc[p] \in RingLabels => p \in InLegs

TwoInv == BothEarly /\ RingOwn /\ NoThird

LEMMA TwoInTurn == TwoInv => InTurn
  BY DEF TwoInv, BothEarly, RingOwn, InTurn, OneRing, Early, Unanswered, EarlyLabels

\* What it means for every task, and for the queue.
LEMMA EarlyMeans ==
  ASSUME Inv, Orderly, SlotInv, BothEarly, TwoLegs, OutLegs = {},
         NEW l \in InLegs, NEW m \in InLegs, Early(l, m)
  PROVE  /\ u.tg = None /\ SlotLegs = {}
         /\ \A p \in Proc : \/ p \in {l, m} /\ pc[p] \in EarlyLabels
                            \/ p \in TgCalls \cup Cmds
                                 /\ pc[p] \in {"idle", "done", "swLock", "xferLock"}
         /\ running = None => lockq = <<>>
         /\ \A p \in Proc : running \in {None, p} =>
              \/ lockq = <<>> /\ pc[p] \notin QueueLabels
              \/ lockq = <<p>> /\ pc[p] \in QueueLabels
         /\ \A p \in {l, m} : pc[p] = "ringLock" => running = p
         /\ \A p \in {l, m} : pc[p] \in RingLabels \ {"ringLock"} => u.pending
         /\ ~(pc[l] \in RingLabels /\ pc[m] \in RingLabels)
  <1> USE NoneAssumption DEF Inv, Typed
  <1>1. Unanswered(l, m) /\ Unanswered(m, l) BY DEF BothEarly, Early
  <1>2. \A p \in Proc : p \in {l, m} \/ p \in TgCalls \cup Cmds
    BY DEF Proc, Legs, TwoLegs, Early
  <1>3. SlotLegs = {}
    <2>1. \A p \in Legs : p \in {l, m} BY DEF Legs, TwoLegs, Early
    <2>2. pc[l] \notin Watching /\ pc[m] \notin Watching
      BY DEF Early, EarlyLabels, RingLabels, Watching
    <2> QED BY <2>1, <2>2, SlotT DEF SlotInv, LegWatched, SlotLegs, Watching
  <1>4. Len(lockq) \in Nat /\ \A i \in 1..Len(lockq) : lockq[i] \in Proc BY DEF LockT
  <1>5. lockq # <<>> => lockq = <<running>> /\ running \in Proc
    <2> SUFFICES ASSUME lockq # <<>> PROVE lockq = <<running>> /\ running \in Proc
      OBVIOUS
    <2>1. Len(lockq) # 0 BY DEF LockT
    <2>2. 1 \in 1..Len(lockq) /\ Len(lockq) \in 1..Len(lockq) BY <1>4, <2>1
    <2>3. Len(lockq) = 1 /\ running = lockq[1] /\ running \in Proc BY <1>1, <1>4, <2>2 DEF Unanswered
    <2> QED BY <2>3 DEF LockT
  <1>6. running = None => lockq = <<>> BY <1>5 DEF Proc
  <1>7. ASSUME NEW p \in Proc, running \in {None, p}
        PROVE  \/ lockq = <<>> /\ pc[p] \notin QueueLabels
               \/ lockq = <<p>> /\ pc[p] \in QueueLabels
    <2>1. CASE lockq = <<>>
      <3>1. 1..Len(lockq) = {} BY <2>1
      <3> QED BY <2>1, <3>1 DEF Orderly, InQueue
    <2>2. CASE lockq # <<>>
      <3>1. lockq = <<p>> BY <1>5, <1>6, <1>7, <2>2
      <3>2. 1 \in 1..Len(lockq) /\ lockq[1] = p BY <3>1
      <3> QED BY <3>1, <3>2 DEF Orderly, OnlyQueued
    <2> QED BY <2>1, <2>2
  <1>8. \A p \in {l, m} : pc[p] = "ringLock" => running = p
    <2> SUFFICES ASSUME NEW p \in {l, m}, pc[p] = "ringLock" PROVE running = p
      OBVIOUS
    <2>1. p \in Proc /\ pc[p] \in QueueLabels BY DEF Proc, Legs, QueueLabels, LockLabel
    <2>2. PICK i \in 1..Len(lockq) : lockq[i] = p BY <2>1 DEF Orderly, InQueue
    <2> QED BY <1>1, <2>2 DEF Unanswered
  <1> QED BY <1>1, <1>2, <1>3, <1>6, <1>7, <1>8 DEF Unanswered, Early

\* Nobody was past it.
LEMMA EarlyBefore ==
  ASSUME PcT, Fades \/ \E p \in Proc : Moves(p) /\ Waits(p),
         NEW l \in InLegs, NEW m \in InLegs, Early(l, m)'
  PROVE  Early(l, m)
  <1>1. ASSUME NEW q \in InLegs, pc'[q] \in EarlyLabels PROVE pc[q] \in EarlyLabels
    <2>1. CASE Fades BY <1>1, <2>1 DEF Fades, Still
    <2>2. ASSUME NEW p \in Proc, Moves(p), Waits(p) PROVE pc[q] \in EarlyLabels
      <3>1. q \in Proc BY DEF Proc, Legs
      <3>2. CASE q = p BY <1>1, <2>2, <3>2 DEF Waits, TurnMove
      <3>3. CASE q # p BY <1>1, <2>2, <3>1, <3>3
           DEF Moves, OthersMove, Untouched, Begins, Cancels, EarlyLabels, RingLabels
      <3> QED BY <3>2, <3>3
    <2> QED BY <2>1, <2>2
  <1> QED BY <1>1 DEF Early

USE NoneAssumption, DisjointAssumption
    DEF RingLabels, EarlyLabels, Inv, Typed, PcT, Proc, Legs

\* From here on, l and m are two callers that are both still to be answered after the step.
LEMMA NextEarly ==
  ASSUME Inv, Watched, Orderly, SlotInv, NoRec, BothEarly, TwoLegs, "hangup" \notin Kinds,
         NoCalls, OutLegs = {}, Reconnect = FALSE, NotifyRaises = FALSE, [Next]_vars,
         NEW l \in InLegs, NEW m \in InLegs, Early(l, m), Early(l, m)', Early(m, l)
  PROVE  Unanswered(l, m)'
  <1> DEFINE Rest == {"idle", "done", "swLock", "xferLock"}
  <1>1. /\ u.tg = None /\ SlotLegs = {}
        /\ \A p \in Proc : \/ p \in {l, m} /\ pc[p] \in EarlyLabels
                           \/ p \in TgCalls \cup Cmds /\ pc[p] \in Rest
        /\ running = None => lockq = <<>>
        /\ \A p \in Proc : running \in {None, p} =>
             \/ lockq = <<>> /\ pc[p] \notin QueueLabels
             \/ lockq = <<p>> /\ pc[p] \in QueueLabels
        /\ \A p \in {l, m} : pc[p] = "ringLock" => running = p
        /\ \A p \in {l, m} : pc[p] \in RingLabels \ {"ringLock"} => u.pending
        /\ ~(pc[l] \in RingLabels /\ pc[m] \in RingLabels)
    BY EarlyMeans
  <1>2. u.active = None /\ u.waiting = None BY <1>1 DEF SlotLegs
  <1>3. pc'[l] \in EarlyLabels /\ pc'[m] \in EarlyLabels /\ l # m BY DEF Early
  <1>4. {"swLock", "xferLock", "ringLock"} \subseteq QueueLabels
        /\ {"idle", "done", "offer", "ringNotify", "ringing", "ringFailed"} \cap QueueLabels = {}
    BY DEF QueueLabels, LockLabel, HoldLabel
  \* A task that changes neither the queue nor tg_pending.
  <1>5. ASSUME NEW p \in Proc, lockq = <<>>, lockq' = <<>>, u'.tg = None, u'.pending = u.pending,
               \A q \in Proc \ {p} : pc'[q] = pc[q],
               p \notin InLegs => pc'[p] \in Rest,
               pc'[p] \in RingLabels => pc[p] \in RingLabels,
               pc'[p] \in RingLabels \ {"ringLock"} => pc[p] \in RingLabels \ {"ringLock"}
        PROVE  Unanswered(l, m)'
    <2>1. 1..Len(lockq') = {} BY <1>5
    <2> QED BY <1>1, <1>5, <2>1 DEF Unanswered
  \* A command joins the queue, or leaves it.
  <1>6. ASSUME NEW p \in Proc \ InLegs, u' = u, \A q \in Proc \ {p} : pc'[q] = pc[q],
               pc'[p] \in Rest, lockq' = <<>> \/ (lockq' = <<p>> /\ running' = p)
        PROVE  Unanswered(l, m)'
    <2>1. \A i \in 1..Len(lockq') : i = 1 /\ running' = lockq'[1] BY <1>6
    <2> QED BY <1>1, <1>6, <2>1 DEF Unanswered
  <1>7. ASSUME NEW p \in InLegs, InLegStep(p) PROVE Unanswered(l, m)'
    <2>1. p \in {l, m} /\ pc[p] \in EarlyLabels /\ p \in Proc BY <1>1, <1>7
    <2>2. pc'[p] \in EarlyLabels BY <1>3, <2>1
    <2>3. CASE OfferRing(p)
      <3>1. /\ pc[p] = "offer" /\ running \in {None, p} /\ ~u.pending /\ lockq' = lockq
            /\ pc' = [pc EXCEPT ![p] = "ringNotify"] /\ u' = [u EXCEPT !.pending = TRUE]
        BY <2>3 DEF OfferRing, Turn, Busy, Either
      <3>2. u \in User BY DEF UT
      <3>3. u'.tg = u.tg /\ u'.pending BY ONLY <3>1, <3>2 DEF User
      <3>4. lockq = <<>> BY <1>1, <1>4, <2>1, <3>1
      <3>5. 1..Len(lockq') = {} BY <3>1, <3>4
      <3>6. \A q \in {l, m} \ {p} : pc[q] \notin RingLabels BY <1>1, <3>1, <3>4
      <3> QED BY <1>1, <1>3, <3>1, <3>3, <3>5, <3>6 DEF Unanswered
    <2>4. CASE RingCall(p)
      <3>1. /\ pc[p] = "ringNotify" /\ running \in {None, p} /\ u' = u /\ lockq' = lockq
            /\ \E n \in {"ringing", "ringFailed"} : pc' = [pc EXCEPT ![p] = n]
        BY <2>4 DEF RingCall, Turn, Await
      <3>2. lockq = <<>> BY <1>1, <1>4, <2>1, <3>1
      <3> QED BY <1>1, <1>5, <2>1, <3>1, <3>2
    <2>5. CASE RingWin(p)
      <3>1. /\ pc[p] = "ringing" /\ running = None /\ lockq' = Append(lockq, p)
            /\ running' = (IF lockq = <<>> THEN p ELSE None)
            /\ pc' = [pc EXCEPT ![p] = "ringLock"] /\ u' = [u EXCEPT !.pending = FALSE]
        BY <2>5 DEF RingWin, At, Acquire, Queue
      <3>2. u \in User BY DEF UT
      <3>3. u'.tg = u.tg BY ONLY <3>1, <3>2 DEF User
      <3>4. lockq = <<>> BY <1>1, <3>1
      <3>5. lockq' = <<p>> /\ running' = p BY <3>1, <3>4
      <3>6. \A i \in 1..Len(lockq') : i = 1 /\ running' = lockq'[1] BY <3>5
      <3>7. \A q \in {l, m} \ {p} : pc[q] \notin RingLabels BY <1>1, <2>1, <3>1
      <3> QED BY <1>1, <1>3, <2>1, <3>1, <3>3, <3>6, <3>7 DEF Unanswered
    <2>6. ~OfferReject(p) /\ ~OfferWaiting(p) /\ ~RingFail(p) /\ ~RingMissed(p) /\ ~RingGone(p)
      BY <2>1, <2>2 DEF OfferReject, OfferWaiting, RingFail, RingMissed, RingGone, Finish, Await,
           GoOn, Either
    <2>7. ~RingCancelled(p)
      BY <2>1, <2>2 DEF RingCancelled, Finish, Await
    <2>8. ~RingAttach(p)
      <3>1. RingAttach(p) => pc'[p] = "watch" BY <2>1 DEF RingAttach
      <3> QED BY <2>2, <3>1
    <2> QED BY <1>7, <2>3, <2>4, <2>5, <2>6, <2>7, <2>8 DEF InLegStep
  <1>8. ASSUME u' = u, pc' = pc, lockq' = lockq, running' = running PROVE Unanswered(l, m)'
    BY <1>8 DEF Unanswered, BothEarly, Early
  <1>9. ASSUME NEW p \in Legs, LegStep(p) PROVE Unanswered(l, m)'
    <2>1. pc[p] \in EarlyLabels BY <1>1
    <2> QED BY <1>8, <1>9, <2>1 DEF LegStep, LegEnded, EndIdle, EndActive, EndResume, EndResumed,
         EndAnswerWaiting, EndHangTg, WaitingTimeout, Locked, At, Turn
  <1>10. ASSUME NEW p \in TgCalls, TgStep(p) \/ RecStep(p) \/ TgEnds(p) \/ TgDecline(p)
         PROVE  Unanswered(l, m)'
    <2>1. pc[p] \in Rest BY <1>1
    <2>2. CASE TgGone(p) \/ TgEnds(p) BY <1>8, <2>2 DEF TgGone, TgEnds
    <2>3. CASE TgDecline(p)
      <3>1. pc' = [pc EXCEPT ![p] = "done"] /\ u' = u /\ lockq' = lockq /\ running = None
        BY <2>3 DEF TgDecline, At, Finish, Await
      <3> QED BY <1>1, <1>6, <3>1
    <2>4. ~AcceptFail(p) /\ ~AcceptOk(p) /\ ~Accepted(p) /\ ~TgEnded(p) /\ ~TgDropped(p)
      BY <2>1 DEF AcceptFail, AcceptOk, Accepted, TgEnded, TgDropped, Locked, At, Turn
    <2>5. ~RecStep(p)
      BY <2>1 DEF RecStep, RecStart, RecCall, RecFail, RecWin, RecAttach, RecAttached, RecAbandon,
           RecEnd, Locked, At, Turn
    <2> QED BY <1>10, <2>2, <2>3, <2>4, <2>5 DEF TgStep
  <1>11. ASSUME NEW p \in Proc, EeStep(p) PROVE FALSE
    <2>1. pc[p] \in EarlyLabels \cup Rest BY <1>1
    <2> QED BY <1>11, <2>1 DEF EeStep, EndEverything, EeCancelled, EeLeg, EeTg, Locked, Turn
  <1>12. ASSUME NEW p \in Cmds, SwitchStep(p) \/ MoveStep(p) PROVE FALSE
    <2>1. pc[p] \in Rest BY <1>1
    <2>2. ~SwitchStep(p) BY <1>1, <2>1
         DEF SwitchStep, SwitchToWaiting, SwitchedToWaiting, SwitchToHeld, SwitchedToHeld,
             Locked, Turn
    <2>3. ~MoveStep(p) BY <1>2, <2>1
         DEF MoveStep, TransferLegs, Transferred, ConfRefer, ConfMoved, ConfJoin, Locked, Turn, At, Up
    <2> QED BY <1>12, <2>2, <2>3
  <1>13. ASSUME NEW p \in Proc, Unlock(p) PROVE Unanswered(l, m)'
    <2>1. pc[p] \in EarlyLabels \cup Rest BY <1>1
    <2>2. /\ pc[p] \in {"swLock", "xferLock"} /\ running \in {None, p}
          /\ lockq' = Tail(lockq) /\ u' = u /\ pc' = [pc EXCEPT ![p] = "done"]
      BY <1>13, <2>1 DEF Unlock, NothingToDo, Locked, At, Turn, Release, Finish, Await
    <2>3. lockq = <<p>> BY <1>1, <1>4, <2>2
    <2>4. lockq' = <<>> BY <2>2, <2>3
    <2>5. p \notin InLegs BY <1>1, <2>2
    <2> QED BY <1>6, <2>2, <2>4, <2>5
  <1>14. ASSUME NEW p \in InLegs, Arrive(p) PROVE Unanswered(l, m)'
    <2>1. /\ pc[p] = "idle" /\ running = None /\ u' = u /\ lockq' = lockq
          /\ pc' = [pc EXCEPT ![p] = "offer"]
      BY <1>14 DEF Arrive, At, Either
    <2> QED BY <1>1, <1>5, <2>1
  <1>15. ASSUME NEW p \in Cmds, CommandStart(p) PROVE Unanswered(l, m)'
    <2>1. CASE Decline(p)
      <3>1. running = None /\ u' = u /\ lockq' = lockq /\ pc' = [pc EXCEPT ![p] = "done"]
        BY <2>1 DEF Decline, Command, At, Finish, Await
      <3> QED BY <1>1, <1>6, <3>1
    <2>2. CASE Switch(p) \/ Transfer(p)
      <3>1. /\ running = None /\ u' = u /\ lockq' = Append(lockq, p)
            /\ running' = (IF lockq = <<>> THEN p ELSE None)
            /\ \E n \in {"swLock", "xferLock"} : pc' = [pc EXCEPT ![p] = n]
        BY <2>2 DEF Switch, Transfer, Command, At, Acquire, Queue
      <3>2. lockq' = <<p>> /\ running' = p BY <1>1, <3>1
      <3> QED BY <1>6, <3>1, <3>2
    <2>3. ~Hangup(p) /\ ~Consult(p) /\ ~Callback(p) /\ ~Conference(p)
      BY DEF Hangup, Consult, Callback, Conference, Command, NoCalls
    <2> QED BY <1>15, <2>1, <2>2, <2>3 DEF CommandStart
  <1>16. ASSUME NEW p \in Proc, SystemStep(p) PROVE Unanswered(l, m)'
    BY <1>7, <1>9, <1>10, <1>11, <1>12, <1>13, <1>16, NoDialStep DEF SystemStep
  <1>17. ASSUME NEW p \in Proc, EnvironmentStep(p) PROVE Unanswered(l, m)'
    <2>1. ~NotifyRaise(p) BY DEF NotifyRaise
    <2>2. p \in TgCalls => ~TgIncoming(p) BY DEF TgIncoming, Reserve
    <2>3. CASE p \in Legs /\ SipEnds(p) BY <1>8, <2>3 DEF SipEnds
    <2> QED BY <1>10, <1>14, <1>15, <1>17, <2>1, <2>2, <2>3 DEF EnvironmentStep
  <1>18. CASE \E p \in pairs : PairEnded(p) BY <1>8, <1>18 DEF PairEnded
  <1>19. CASE UNCHANGED vars BY <1>8, <1>19 DEF vars
  <1> QED BY <1>16, <1>17, <1>18, <1>19 DEF Next, Quiet

HIDE DEF RingLabels, EarlyLabels, Inv, Typed, PcT, Proc, Legs

LEMMA NextTwo ==
  ASSUME Inv, Watched, Orderly, SlotInv, NoRec, LossInv, TwoInv, TwoLegs, "hangup" \notin Kinds,
         NoCalls, OutLegs = {}, Reconnect = FALSE, NotifyRaises = FALSE, [Next]_vars
  PROVE  TwoInv'
  <1> USE DEF TwoInv
  <1>1. Fades \/ \E p \in Proc : Moves(p) /\ Waits(p) BY TwoInTurn, NextWaits DEF Orderly
  <1>2. BothEarly'
    <2> SUFFICES ASSUME NEW l \in InLegs, NEW m \in InLegs, Early(l, m)' PROVE Unanswered(l, m)'
      BY DEF BothEarly
    <2>1. Early(l, m) BY <1>1, EarlyBefore DEF Inv, Typed
    <2>2. Early(m, l) BY <2>1 DEF Early
    <2> QED BY <2>1, <2>2, NextEarly
  <1>3. RingOwn'
    <2> SUFFICES ASSUME NEW q \in Proc, pc'[q] \in RingLabels PROVE q \in InLegs
      BY DEF RingOwn
    <2>1. CASE Fades BY <2>1 DEF Fades, Still, RingOwn
    <2>2. ASSUME NEW p \in Proc, Moves(p), Waits(p) PROVE q \in InLegs
      <3>1. CASE q = p BY <2>2, <3>1 DEF Waits, TurnMove, EarlyLabels
      <3>2. CASE q # p BY <2>2, <3>2, OthersTurn DEF Moves, RingOwn, Inv, Typed
      <3> QED BY <3>1, <3>2
    <2> QED BY <1>1, <2>1, <2>2
  <1>4. NoThird'
    <2>1. CASE Fades BY <2>1 DEF Fades, Still, NoThird
    <2>2. ASSUME NEW p \in Proc, Waits(p) PROVE NoThird'
      <3>1. ~Three BY DEF Three, TwoLegs, Legs
      <3> QED BY <2>2, <3>1 DEF Waits, TurnMove, NoThird
    <2> QED BY <1>1, <2>1, <2>2
  <1> QED BY <1>2, <1>3, <1>4

LEMMA InitTwo == Init => TwoInv
  <1> SUFFICES ASSUME Init PROVE TwoInv OBVIOUS
  <1>1. \A p \in Proc : pc[p] = "idle" BY DEF Init
  <1>2. u.tg = None /\ u.held = None /\ lockq = <<>> BY DEF Init
  <1>3. InLegs \subseteq Proc /\ TgCalls \cup Cmds \subseteq Proc BY DEF Proc, Legs
  <1>4. 1..Len(lockq) = {} BY <1>2
  <1>5. BothEarly BY <1>1, <1>2, <1>3, <1>4 DEF BothEarly, Early, Unanswered, RingLabels
  <1> QED BY <1>1, <1>2, <1>5 DEF TwoInv, RingOwn, RingLabels, NoThird

\* Two callers, who may be rung, told to wait, switched between, declined and transferred to each
\* other: without reconnection, when notices do not raise and the user leaves hanging up to the
\* far ends, neither is ever left connected where nobody can hang it up.
THEOREM TwoCallersAreKept ==
  ASSUME TwoLegs, OutLegs = {}, NoCalls, "hangup" \notin Kinds,
         Reconnect = FALSE, NotifyRaises = FALSE
  PROVE  Spec => []NoOrphanLeg
  <1>1. /\ Inv /\ Watched /\ Orderly /\ SlotInv /\ LossInv /\ NoRec /\ TwoInv /\ [Next]_vars
        => (LossInv /\ NoRec /\ TwoInv)'
    <2> SUFFICES ASSUME Inv, Watched, Orderly, SlotInv, LossInv, NoRec, TwoInv, [Next]_vars
                 PROVE  (LossInv /\ NoRec /\ TwoInv)'
      OBVIOUS
    <2> QED BY TwoInTurn, NextLoss, NextTwo
  <1> QED BY <1>1, InitLoss, InitTwo, LossOrphan, AllHolds, SlotsHold, PTL DEF Spec

=============================================================================
