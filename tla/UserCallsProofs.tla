-------------------------- MODULE UserCallsProofs --------------------------
(***************************************************************************)
(* Proofs about UserCalls, for any number of calls and commands: its type  *)
(* invariant, and that code inside "async with u.lock" runs for the holder *)
(* of the lock only.                                                       *)
(*                                                                         *)
(* Neither is inductive alone.  _attach builds the bridge from a leg that  *)
(* the task remembered before an await and from u.tg, so that the bridge   *)
(* is a pair of calls needs LocalsOK (the task still remembers a leg) and  *)
(* HolderTg (u.tg cannot be cleared under a task that holds the lock).     *)
(* HolderTg needs LockHeld.  "Inv" is their conjunction; every group of    *)
(* actions keeps it, and the theorems at the end put the groups together.  *)
(***************************************************************************)
EXTENDS UserCalls, TLAPS

-----------------------------------------------------------------------------
(* The inductive invariant.                                                *)

SipT   == sip \in [Legs -> SipState]
TgsT   == tgs \in [TgCalls -> TgState]
UT     == u \in User
LockT  == lockq \in Seq(Proc)
PcT    == pc \in [Proc -> Label] /\ running \in Proc \cup {None}
MyT    == my \in [Proc -> Locals]
PairsT == pairs \subseteq SUBSET Legs
Typed  == SipT /\ TgsT /\ UT /\ LockT /\ PcT /\ MyT /\ PairsT

\* Where a task will use the leg, or the Telegram call, that it remembers.
LegLabels == {"endUnhold", "dialUnhold", "swHold", "swUnhold", "recUnhold", "cbNotify"}
TgLabels  == {"ringing", "ringLock", "cbCalling", "cbLock", "recCalling", "recLock"}

LocalsOK == \A p \in Proc :
    /\ pc[p] \in LegLabels => my[p].leg # None
    /\ pc[p] \in TgLabels => my[p].tg # None
    /\ pc[p] = "consHold" => my[p].todo # <<>>
    /\ pc[p] = "xferUnhold" => Len(my[p].todo) = 2

\* The Telegram call stays while the holder of the lock is about to attach a leg to it.
HolderTg == \A p \in Proc :
    pc[p] \in {"endUnhold", "swHold", "swUnhold", "recUnhold"} => u.tg # None

Guarded == LocalsOK /\ HolderTg /\ LockHeld
Inv     == Typed /\ Guarded

-----------------------------------------------------------------------------
(* What the operators of the model preserve.                               *)

\* A task moves to another label.
LEMMA AwaitT ==
  ASSUME PcT, NEW p \in Proc, NEW l \in Label, Await(p, l) \/ GoOn(p, l) \/ Either(p, l)
  PROVE  PcT'
  BY DEF PcT, Await, GoOn, Either

\* Updates of one local variable, or two, keep the type of my.
LEMMA MyTg ==
  ASSUME MyT, NEW p \in Proc, NEW t \in TgCalls \cup {None}, my' = [my EXCEPT ![p].tg = t]
  PROVE  MyT'
  BY DEF MyT, Locals

LEMMA MyLeg ==
  ASSUME MyT, NEW p \in Proc, NEW l \in Legs \cup {None}, my' = [my EXCEPT ![p].leg = l]
  PROVE  MyT'
  BY DEF MyT, Locals

LEMMA MyTodo ==
  ASSUME MyT, NEW p \in Proc, NEW s \in Seq(Legs), my' = [my EXCEPT ![p].todo = s]
  PROVE  MyT'
  BY DEF MyT, Locals

LEMMA MyLegTodo ==
  ASSUME MyT, NEW p \in Proc, NEW l \in Legs \cup {None}, NEW s \in Seq(Legs),
         my' = [my EXCEPT ![p].leg = l, ![p].todo = s]
  PROVE  MyT'
  BY DEF MyT, Locals

LEMMA MyTgTodo ==
  ASSUME MyT, NEW p \in Proc, NEW t \in TgCalls \cup {None}, NEW s \in Seq(Legs),
         my' = [my EXCEPT ![p].tg = t, ![p].todo = s]
  PROVE  MyT'
  BY DEF MyT, Locals

LEMMA NoLocalsT == NoLocals \in Locals
  BY DEF Locals, NoLocals

LEMMA MyNo ==
  ASSUME MyT, NEW p \in Proc, my' = [my EXCEPT ![p] = NoLocals]
  PROVE  MyT'
  BY NoLocalsT DEF MyT

\* A task ends.
LEMMA FinishT ==
  ASSUME PcT, MyT, NEW p \in Proc, Finish(p)
  PROVE  PcT' /\ MyT'
  <1>1. Await(p, "done") /\ "done" \in Label BY DEF Finish, Label, FreeLabel
  <1> QED BY <1>1, AwaitT, MyNo DEF Finish

\* A task ends and its leg goes on.
LEMMA HandOverT ==
  ASSUME PcT, MyT, NEW p \in Proc, NEW n \in Label, HandOver(p, n)
  PROVE  PcT' /\ MyT'
  <1>1. my[p].leg \in Proc \cup {None} BY DEF MyT, Locals, Proc
  <1>2. "done" \in Label BY DEF Label, FreeLabel
  <1>3. MyT' BY MyNo DEF HandOver
  <1> QED BY <1>1, <1>2, <1>3 DEF HandOver, PcT

\* A leg is set aside.
LEMMA ReserveT ==
  ASSUME PcT, MyT, NEW p \in Proc, NEW n \in Label, Reserve(p, n),
         running' \in Proc \cup {None}
  PROVE  PcT' /\ MyT'
  <1>1. PICK l \in OutLegs : /\ my' = [my EXCEPT ![p].leg = l]
                             /\ pc' = [pc EXCEPT ![p] = n, ![l] = "reserved"]
    BY DEF Reserve
  <1>2. "reserved" \in Label BY DEF Label, FreeLabel
  <1> QED BY <1>1, <1>2, MyLeg DEF PcT, Legs

\* A task queues for the lock.
LEMMA QueueT ==
  ASSUME LockT, NEW q \in Seq(Proc), NEW p \in Proc, Queue(q, p)
  PROVE  LockT' /\ running' \in Proc \cup {None}
  BY DEF LockT, Queue

LEMMA AcquireT ==
  ASSUME LockT, PcT, NEW p \in Proc, NEW l \in Label, Acquire(p, l)
  PROVE  LockT' /\ PcT'
  BY QueueT DEF Acquire, PcT, LockT

\* hold() and unhold().
LEMMA ReinviteT ==
  ASSUME PcT, NEW p \in Proc, NEW n \in Label, NEW l, AfterReinvite(p, n, l)
  PROVE  PcT'
  BY DEF AfterReinvite, PcT

\* The lock is given back.
LEMMA ReleaseT ==
  ASSUME LockT, lockq # <<>>, Release
  PROVE  LockT'
  BY DEF LockT, Release

\* ringing, answer and hangup of a SIP call.
LEMMA SipOpT ==
  ASSUME SipT, NEW l, Ring(l) \/ Answer(l) \/ End(l)
  PROVE  SipT'
  BY DEF SipT, Ring, Answer, End, SipState

\* hangup and cancel of a Telegram call.
LEMMA TgsOpT ==
  ASSUME TgsT, NEW t, HangTg(t) \/ CancelEngine
  PROVE  TgsT'
  BY DEF TgsT, HangTg, CancelEngine, TgState

\* TgCallEngine.call and its result.
LEMMA PlaceCallT ==
  ASSUME TgsT, MyT, NEW p \in Proc, NEW t \in TgCalls, PlaceCall(p, t)
  PROVE  TgsT' /\ MyT'
  <1>1. TgsT' BY DEF TgsT, PlaceCall, TgState
  <1> QED BY <1>1, MyTg DEF PlaceCall

LEMMA PickedUpT ==
  ASSUME TgsT, NEW p, PickedUp(p)
  PROVE  TgsT'
  BY DEF TgsT, PickedUp, TgState

\* _attach keeps the type of UserState when there is a Telegram call.
LEMMA AttachedT ==
  ASSUME NEW v \in User, v.tg # None, NEW l \in Legs
  PROVE  Attached(v, l) \in User
  BY DEF User, Attached

LEMMA AttachedKeeps ==
  ASSUME NEW v \in User, NEW l
  PROVE  Attached(v, l).tg = v.tg /\ Attached(v, l).reconnect = v.reconnect
  BY DEF User, Attached

\* UserState.legs() lists legs.
LEMMA SomeT ==
  ASSUME NEW l \in Legs \cup {None}
  PROVE  Some(l) \in Seq(Legs)
  BY DEF Some

\* The ranges of the local variables and of the slots.
LEMMA LocalT ==
  ASSUME MyT, NEW p \in Proc
  PROVE  /\ my[p].tg \in TgCalls \cup {None} /\ my[p].leg \in Legs \cup {None}
         /\ my[p].todo \in Seq(Legs)
  BY DEF MyT, Locals

LEMMA SlotT ==
  ASSUME UT
  PROVE  /\ u.tg \in TgCalls \cup {None} /\ u.reconnect \in TgCalls \cup {None}
         /\ u.active \in Legs \cup {None} /\ u.held \in Legs \cup {None}
         /\ u.waiting \in Legs \cup {None}
  BY DEF UT, User

LEMMA SlotListT ==
  ASSUME UT
  PROVE  SlotList \in Seq(Legs)
  <1>1. \A l \in {u.active, u.held, u.waiting} : Some(l) \in Seq(Legs)
    BY SlotT, SomeT
  <1> QED BY <1>1 DEF SlotList

\* LocalsOK when a task moves to a label that uses no local variable.
LEMMA LocalsMove ==
  ASSUME PcT, MyT, LocalsOK, NEW p \in Proc, NEW l, pc' = [pc EXCEPT ![p] = l],
         l \notin LegLabels \cup TgLabels \cup {"consHold", "xferUnhold"},
         \A q \in Proc \ {p} : my'[q] = my[q]
  PROVE  LocalsOK'
  BY DEF PcT, LocalsOK

LEMMA LocalsFinish ==
  ASSUME PcT, MyT, LocalsOK, NEW p \in Proc, Finish(p)
  PROVE  LocalsOK'
  BY LocalsMove DEF Finish, Await, MyT, LegLabels, TgLabels

LEMMA LocalsHandOver ==
  ASSUME PcT, MyT, LocalsOK, NEW p \in Proc, NEW n, HandOver(p, n),
         n \notin LegLabels \cup TgLabels \cup {"consHold", "xferUnhold"}
  PROVE  LocalsOK'
  BY DEF HandOver, PcT, MyT, LocalsOK, LegLabels, TgLabels

\* LocalsOK when a task places a Telegram call and remembers it.
LEMMA LocalsCall ==
  ASSUME PcT, MyT, LocalsOK, NEW p \in Proc, NEW l \in TgLabels, l \notin LegLabels,
         pc' = [pc EXCEPT ![p] = l], NEW t \in TgCalls, PlaceCall(p, t)
  PROVE  LocalsOK'
  <1>1. my' = [my EXCEPT ![p].tg = t] BY DEF PlaceCall
  <1>2. my'[p].tg = t /\ t # None /\ \A q \in Proc \ {p} : my'[q] = my[q]
    BY <1>1, NoneAssumption DEF MyT, Locals, Proc
  <1> QED BY <1>2 DEF PcT, LocalsOK, TgLabels

-----------------------------------------------------------------------------
(* One lemma for each group of actions: every action keeps Inv.            *)

\* _sip_incoming and _ring_users keep the invariant.
LEMMA InLegStepKeeps ==
  ASSUME Inv, NEW p \in InLegs, InLegStep(p)
  PROVE  Inv'
  <1> p \in Legs /\ p \in Proc BY DEF Legs, Proc
  <1>1. CASE OfferReject(p)
    <2>1. Typed'
      BY <1>1, SipOpT, FinishT DEF OfferReject, Inv, Typed, TgsT, UT, LockT, PairsT
    <2>2. Guarded'
      BY <1>1, NoneAssumption
           DEF OfferReject, Inv, Typed, Guarded, LocalsOK, HolderTg, LockHeld, PcT, LegLabels,
               TgLabels, HoldLabel, MyT, Locals, Finish, Await, Turn
    <2> QED BY <2>1, <2>2 DEF Inv
  <1>2. CASE OfferWaiting(p)
    <2>1. Typed'
      <3>1. UT' BY <1>2 DEF OfferWaiting, Inv, Typed, UT, User
      <3>2. PcT' /\ MyT' BY <1>2, AwaitT, FinishT
           DEF OfferWaiting, Inv, Typed, MyT, Label, FreeLabel
      <3> QED BY <1>2, <3>1, <3>2, SipOpT DEF OfferWaiting, Inv, Typed, TgsT, LockT, PairsT
    <2>2. Guarded'
      <3>1. LocalsOK' BY <1>2, LocalsMove, LocalsFinish
           DEF OfferWaiting, Await, Inv, Typed, Guarded, LegLabels, TgLabels
      <3>2. HolderTg' BY <1>2
           DEF OfferWaiting, Await, Finish, Inv, Typed, Guarded, HolderTg, PcT, UT, User
      <3>3. LockHeld' BY <1>2
           DEF OfferWaiting, Await, Finish, Inv, Typed, Guarded, LockHeld, HoldLabel, PcT
      <3> QED BY <3>1, <3>2, <3>3 DEF Guarded
    <2> QED BY <2>1, <2>2 DEF Inv
  <1>3. CASE OfferRing(p)
    <2>1. Typed'
      BY <1>3, SipOpT, AwaitT
           DEF OfferRing, Inv, Typed, TgsT, UT, User, LockT, MyT, PairsT, Label, FreeLabel
    <2>2. Guarded'
      BY <1>3, NoneAssumption
           DEF OfferRing, Inv, Typed, Guarded, LocalsOK, HolderTg, LockHeld, PcT, LegLabels,
               TgLabels, HoldLabel, UT, User, Either, Turn
    <2> QED BY <2>1, <2>2 DEF Inv
  <1>4. CASE RingCall(p)
    <2>1. Typed'
      BY <1>4, PlaceCallT, AwaitT
           DEF RingCall, Inv, Typed, SipT, TgsT, UT, LockT, MyT, PairsT, Label, FreeLabel
    <2>2. Guarded'
      <3>1. LocalsOK'
        <4>1. CASE Await(p, "ringFailed") /\ my' = my
          BY <4>1, LocalsMove DEF Await, Inv, Typed, Guarded, LegLabels, TgLabels
        <4>2. CASE (\E t \in TgCalls : PlaceCall(p, t)) /\ Await(p, "ringing")
          BY <4>2, LocalsCall DEF Await, Inv, Typed, Guarded, LegLabels, TgLabels
        <4> QED BY <1>4, <4>1, <4>2 DEF RingCall
      <3>2. PICK l \in {"ringing", "ringFailed"} : pc' = [pc EXCEPT ![p] = l] BY <1>4
           DEF RingCall, Await
      <3>3. HolderTg' BY <1>4, <3>2 DEF RingCall, Inv, Typed, Guarded, HolderTg, PcT
      <3>4. LockHeld' BY <1>4, <3>2 DEF RingCall, Inv, Typed, Guarded, LockHeld, HoldLabel, PcT
      <3> QED BY <3>1, <3>3, <3>4 DEF Guarded
    <2> QED BY <2>1, <2>2 DEF Inv
  <1>5. CASE RingFail(p)
    <2>1. Typed'
      BY <1>5, AwaitT
           DEF RingFail, Inv, Typed, SipT, TgsT, UT, User, LockT, MyT, PairsT, Label, FreeLabel
    <2>2. Guarded'
      BY <1>5, NoneAssumption
           DEF RingFail, Inv, Typed, Guarded, LocalsOK, HolderTg, LockHeld, PcT, LegLabels,
               TgLabels, HoldLabel, UT, User, Either, At
    <2> QED BY <2>1, <2>2 DEF Inv
  <1>6. CASE RingMissed(p)
    <2>1. Typed'
      BY <1>6, SipOpT, FinishT DEF RingMissed, Inv, Typed, TgsT, UT, LockT, PairsT
    <2>2. Guarded'
      BY <1>6, NoneAssumption
           DEF RingMissed, Inv, Typed, Guarded, LocalsOK, HolderTg, LockHeld, PcT, LegLabels,
               TgLabels, HoldLabel, MyT, Locals, Finish, Await, Turn
    <2> QED BY <2>1, <2>2 DEF Inv
  <1>7. CASE RingGone(p)
    <2>1. Typed'
      BY <1>7, TgsOpT, AwaitT
           DEF RingGone, Inv, Typed, SipT, UT, LockT, MyT, PairsT, Label, FreeLabel
    <2>2. Guarded'
      BY <1>7, NoneAssumption
           DEF RingGone, Inv, Typed, Guarded, LocalsOK, HolderTg, LockHeld, PcT, LegLabels,
               TgLabels, HoldLabel, Await, GoOn, At
    <2> QED BY <2>1, <2>2 DEF Inv
  <1>8. CASE RingCancelled(p)
    <2>1. Typed'
      BY <1>8, FinishT DEF RingCancelled, Inv, Typed, SipT, TgsT, UT, User, LockT, PairsT
    <2>2. Guarded'
      BY <1>8, NoneAssumption
           DEF RingCancelled, Inv, Typed, Guarded, LocalsOK, HolderTg, LockHeld, PcT, LegLabels,
               TgLabels, HoldLabel, MyT, Locals, UT, User, Finish, Await, Turn
    <2> QED BY <2>1, <2>2 DEF Inv
  <1>9. CASE RingWin(p)
    <2>1. Typed'
      BY <1>9, PickedUpT, AcquireT
           DEF RingWin, Inv, Typed, SipT, UT, User, MyT, PairsT, Label, LockLabel
    <2>2. LocalsOK'
      BY <1>9, NoneAssumption
           DEF RingWin, Inv, Typed, Guarded, LocalsOK, PcT, LegLabels, TgLabels, Acquire, At
    <2>3. HolderTg'
      BY <1>9, NoneAssumption
           DEF RingWin, Inv, Typed, Guarded, HolderTg, PcT, UT, User, LockHeld, HoldLabel,
               Acquire, At
    <2>4. LockHeld'
      BY <1>9, NoneAssumption
           DEF RingWin, Inv, Typed, Guarded, LockHeld, PcT, HoldLabel, LockT, Acquire, Queue, At
    <2> QED BY <2>1, <2>2, <2>3, <2>4 DEF Inv, Guarded
  <1>10. CASE RingAttach(p)
    <2>1. Typed'
      <3>1. pc[p] = "ringLock" /\ lockq # <<>> BY <1>10 DEF RingAttach, Locked, Turn, HasLock
      <3>2. my[p].tg \in TgCalls BY <3>1, LocalT DEF Inv, Guarded, Typed, LocalsOK, TgLabels
      <3>3. p \in Legs BY DEF Legs
      <3>4. [u EXCEPT !.tg = my[p].tg] \in User /\ [u EXCEPT !.tg = my[p].tg].tg # None
        BY <3>2, NoneAssumption DEF Inv, Typed, UT, User, Proc
      <3>5. UT' BY <1>10, <3>3, <3>4, AttachedT DEF RingAttach, UT
      <3>6. PcT' BY <1>10, <3>2 DEF RingAttach, Inv, Typed, PcT, Label, FreeLabel, Proc
      <3> QED BY <1>10, <3>1, <3>5, <3>6, SipOpT, ReleaseT, MyNo
           DEF RingAttach, Inv, Typed, TgsT, PairsT
    <2>2. Guarded'
      BY <1>10, NoneAssumption
           DEF RingAttach, Inv, Typed, Guarded, LocalsOK, HolderTg, LockHeld, PcT, LegLabels,
               TgLabels, HoldLabel, MyT, Locals, LockT, UT, User, Release, Locked, HasLock,
               Turn, Attached
    <2> QED BY <2>1, <2>2 DEF Inv
  <1> QED BY <1>1, <1>2, <1>3, <1>4, <1>5, <1>6, <1>7, <1>8, <1>9, <1>10 DEF InLegStep

\* _dial_leg keeps the invariant.
LEMMA OutLegStepKeeps ==
  ASSUME Inv, NEW p \in OutLegs, OutLegStep(p)
  PROVE  Inv'
  <1> p \in Legs /\ p \in Proc BY DEF Legs, Proc
  <1>1. CASE Invite(p)
    <2>1. Typed'
      <3>1. CASE sip' = [sip EXCEPT ![p] = "calling"] /\ Acquire(p, "dialLock")
        BY <1>1, <3>1, AcquireT
             DEF Invite, Inv, Typed, SipT, SipState, TgsT, UT, MyT, PairsT, Label, LockLabel
      <3>2. CASE Await(p, IF pc[p] = "invite2" THEN "dialFailed2" ELSE "dialFailed")
                /\ UNCHANGED <<sip, lockq>>
        <4>1. (IF pc[p] = "invite2" THEN "dialFailed2" ELSE "dialFailed") \in Label BY
             DEF Label, FreeLabel
        <4> QED BY <1>1, <3>2, <4>1, AwaitT
             DEF Invite, Inv, Typed, SipT, LockT, TgsT, UT, MyT, PairsT
      <3> QED BY <1>1, <3>1, <3>2 DEF Invite
    <2>2. LocalsOK'
      BY <1>1, NoneAssumption
           DEF Invite, Inv, Typed, Guarded, LocalsOK, PcT, LegLabels, TgLabels, Await, Acquire,
               Turn
    <2>3. HolderTg'
      BY <1>1, NoneAssumption
           DEF Invite, Inv, Typed, Guarded, HolderTg, PcT, Await, Acquire, Turn
    <2>4. LockHeld'
      BY <1>1, NoneAssumption
           DEF Invite, Inv, Typed, Guarded, LockHeld, PcT, HoldLabel, Await, Acquire, Queue,
               Turn
    <2> QED BY <2>1, <2>2, <2>3, <2>4 DEF Inv, Guarded
  <1>2. CASE DialResume(p)
    <2>1. Typed'
      <3>1. CASE u.tg = None /\ Finish(p) /\ u' = u
        BY <1>2, <3>1, FinishT DEF DialResume, Inv, Typed, SipT, TgsT, UT, LockT, PairsT
      <3>2. CASE my' = [my EXCEPT ![p].leg = u.held] /\ u' = [u EXCEPT !.held = None]
                /\ AfterReinvite(p, "dialUnhold", u.held)
        <4>1. UT' BY <3>2 DEF Inv, Typed, UT, User
        <4>2. MyT' BY <3>2, SlotT, MyLeg DEF Inv, Typed
        <4>3. PcT' BY <3>2, ReinviteT DEF Inv, Typed, Label, FreeLabel
        <4> QED BY <1>2, <4>1, <4>2, <4>3 DEF DialResume, Inv, Typed, SipT, TgsT, LockT, PairsT
      <3> QED BY <1>2, <3>1, <3>2 DEF DialResume
    <2>2. LocalsOK'
      <3>1. CASE Finish(p) BY <3>1, LocalsFinish DEF Inv, Guarded, Typed
      <3>2. CASE my' = [my EXCEPT ![p].leg = u.held] /\ AfterReinvite(p, "dialUnhold", u.held)
        BY <1>2, <3>2
             DEF DialResume, AfterReinvite, Inv, Guarded, Typed, PcT, MyT, Locals, LocalsOK,
                 LegLabels, TgLabels
      <3> QED BY <1>2, <3>1, <3>2 DEF DialResume
    <2>3. HolderTg'
      BY <1>2, NoneAssumption
           DEF DialResume, Inv, Typed, Guarded, HolderTg, PcT, UT, User, LockHeld, HoldLabel,
               Finish, Await, AfterReinvite, At
    <2>4. LockHeld'
      BY <1>2, NoneAssumption
           DEF DialResume, Inv, Typed, Guarded, LockHeld, PcT, HoldLabel, Finish, Await,
               AfterReinvite, At
    <2> QED BY <2>1, <2>2, <2>3, <2>4 DEF Inv, Guarded
  <1>3. CASE DialResumed(p)
    <2>1. Typed'
      <3>1. pc[p] = "dialUnhold" BY <1>3 DEF DialResumed, Turn
      <3>2. my[p].leg \in Legs BY <3>1, LocalT DEF Inv, Guarded, Typed, LocalsOK, LegLabels
      <3>3. UT' BY <1>3, <3>2, AttachedT DEF DialResumed, Inv, Typed, UT
      <3> QED BY <1>3, <3>3, FinishT DEF DialResumed, Inv, Typed, SipT, TgsT, LockT, PairsT
    <2>2. Guarded'
      BY <1>3, NoneAssumption
           DEF DialResumed, Inv, Typed, Guarded, LocalsOK, HolderTg, LockHeld, PcT, LegLabels,
               TgLabels, HoldLabel, MyT, Locals, UT, User, Finish, Await, Turn, Attached
    <2> QED BY <2>1, <2>2 DEF Inv
  <1>4. CASE DialGiveUp(p)
    <2>1. Typed'
      BY <1>4, AcquireT, FinishT
           DEF DialGiveUp, Inv, Typed, SipT, TgsT, UT, LockT, MyT, PairsT, Label, LockLabel
    <2>2. LocalsOK'
      BY <1>4, NoneAssumption
           DEF DialGiveUp, Inv, Typed, Guarded, LocalsOK, PcT, LegLabels, TgLabels, MyT, Locals,
               User, UT, Finish, Await, Acquire, At
    <2>3. HolderTg'
      BY <1>4, NoneAssumption
           DEF DialGiveUp, Inv, Typed, Guarded, HolderTg, PcT, Finish, Await, Acquire, At
    <2>4. LockHeld'
      BY <1>4, NoneAssumption
           DEF DialGiveUp, Inv, Typed, Guarded, LockHeld, PcT, HoldLabel, LockT, Finish, Await,
               Acquire, Queue, At
    <2> QED BY <2>1, <2>2, <2>3, <2>4 DEF Inv, Guarded
  <1>5. CASE DialAttach(p)
    <2>1. Typed'
      <3>1. CASE End(p) /\ Either(p, "dialHang") /\ UNCHANGED <<u, lockq>>
        BY <1>5, <3>1, SipOpT, AwaitT
             DEF DialAttach, Inv, Typed, TgsT, UT, LockT, MyT, PairsT, Label, HoldLabel
      <3>2. CASE u.tg # None /\ u' = Attached(u, p) /\ Release /\ Await(p, "watch") /\ sip' = sip
        <4>1. lockq # <<>> BY <1>5 DEF DialAttach, Locked, HasLock
        <4>2. UT' BY <3>2, AttachedT DEF Inv, Typed, UT
        <4> QED BY <1>5, <3>2, <4>1, <4>2, ReleaseT, AwaitT
             DEF DialAttach, Inv, Typed, SipT, TgsT, MyT, PairsT, Label, FreeLabel
      <3> QED BY <1>5, <3>1, <3>2 DEF DialAttach
    <2>2. LocalsOK'
      BY <1>5, NoneAssumption
           DEF DialAttach, Inv, Typed, Guarded, LocalsOK, PcT, LegLabels, TgLabels, User, UT,
               Await, Either, Locked, HasLock, Turn
    <2>3. HolderTg'
      <3>1. u'.tg = u.tg BY <1>5, AttachedKeeps DEF DialAttach, Inv, Typed, UT
      <3>2. \A q \in Proc \ {p} : pc'[q] = pc[q] BY <1>5
           DEF DialAttach, Await, Either, Inv, Typed, PcT
      <3>3. pc'[p] \in {"dialHang", "watch"} BY <1>5
           DEF DialAttach, Await, Either, Inv, Typed, PcT
      <3> QED BY <3>1, <3>2, <3>3 DEF Inv, Guarded, HolderTg
    <2>4. LockHeld'
      BY <1>5, NoneAssumption
           DEF DialAttach, Inv, Typed, Guarded, LockHeld, PcT, HoldLabel, Await, Release,
               Either, Locked, HasLock, Turn
    <2> QED BY <2>1, <2>2, <2>3, <2>4 DEF Inv, Guarded
  <1> QED BY <1>1, <1>2, <1>3, <1>4, <1>5 DEF OutLegStep

\* The watcher of a leg (_leg_ended, _resume_held) keeps the invariant.
LEMMA LegStepKeeps ==
  ASSUME Inv, NEW p \in Legs, LegStep(p)
  PROVE  Inv'
  <1> p \in Proc BY DEF Proc
  <1>1. CASE LegEnded(p)
    <2>1. Typed'
      BY <1>1, AcquireT DEF LegEnded, Inv, Typed, SipT, TgsT, UT, MyT, PairsT, Label, LockLabel
    <2>2. Guarded'
      BY <1>1, NoneAssumption
           DEF LegEnded, Inv, Typed, Guarded, LocalsOK, HolderTg, LockHeld, PcT, LegLabels,
               TgLabels, HoldLabel, LockT, Acquire, Queue, At
    <2> QED BY <2>1, <2>2 DEF Inv
  <1>2. CASE EndIdle(p)
    <2>1. Typed'
      BY <1>2, AwaitT
           DEF EndIdle, Inv, Typed, SipT, TgsT, UT, User, LockT, MyT, PairsT, Label, HoldLabel
    <2>2. Guarded'
      BY <1>2, NoneAssumption
           DEF EndIdle, Inv, Typed, Guarded, LocalsOK, HolderTg, LockHeld, PcT, LegLabels,
               TgLabels, HoldLabel, UT, User, Await, Locked, HasLock, Turn
    <2> QED BY <2>1, <2>2 DEF Inv
  <1>3. CASE EndActive(p)
    <2>1. Typed'
      BY <1>3, AwaitT
           DEF EndActive, Inv, Typed, SipT, TgsT, UT, User, LockT, MyT, PairsT, Label, HoldLabel
    <2>2. Guarded'
      BY <1>3, NoneAssumption
           DEF EndActive, Inv, Typed, Guarded, LocalsOK, HolderTg, LockHeld, PcT, LegLabels,
               TgLabels, HoldLabel, UT, User, Either, Locked, HasLock, Turn
    <2> QED BY <2>1, <2>2 DEF Inv
  <1>4. CASE EndResume(p)
    <2>1. Typed'
      <3>1. UT' BY <1>4 DEF EndResume, Inv, Typed, UT, User
      <3>2. MyT' BY <1>4, SlotT, MyLeg DEF EndResume, Inv, Typed
      <3>3. PcT' BY <1>4, ReinviteT DEF EndResume, Inv, Typed, Label, HoldLabel
      <3> QED BY <1>4, <3>1, <3>2, <3>3 DEF EndResume, Inv, Typed, SipT, TgsT, LockT, PairsT
    <2>2. Guarded'
      BY <1>4, NoneAssumption
           DEF EndResume, Inv, Typed, Guarded, LocalsOK, HolderTg, LockHeld, PcT, LegLabels,
               TgLabels, HoldLabel, MyT, Locals, UT, User, AfterReinvite, Turn
    <2> QED BY <2>1, <2>2 DEF Inv
  <1>5. CASE EndResumed(p)
    <2>1. Typed'
      <3>1. pc[p] = "endUnhold" BY <1>5 DEF EndResumed, Turn
      <3>2. my[p].leg \in Legs /\ u.tg # None BY <3>1, LocalT
           DEF Inv, Guarded, Typed, LocalsOK, LegLabels, HolderTg
      <3>3. UT' BY <1>5, <3>2, AttachedT DEF EndResumed, Inv, Typed, UT
      <3>4. PcT' BY <1>5, AwaitT DEF EndResumed, Inv, Typed, Label, HoldLabel
      <3> QED BY <1>5, <3>3, <3>4 DEF EndResumed, Inv, Typed, SipT, TgsT, LockT, PairsT, MyT
    <2>2. Guarded'
      BY <1>5, NoneAssumption
           DEF EndResumed, Inv, Typed, Guarded, LocalsOK, HolderTg, LockHeld, PcT, LegLabels,
               TgLabels, HoldLabel, UT, User, Await, Turn, Attached
    <2> QED BY <2>1, <2>2 DEF Inv
  <1>6. CASE EndAnswerWaiting(p)
    <2>1. Typed'
      <3>1. u.waiting \in Legs /\ u.tg # None BY <1>6, SlotT DEF EndAnswerWaiting, Inv, Typed
      <3>2. [u EXCEPT !.waiting = None] \in User /\ [u EXCEPT !.waiting = None].tg # None
        BY <3>1 DEF Inv, Typed, UT, User
      <3>3. UT' BY <1>6, <3>1, <3>2, AttachedT DEF EndAnswerWaiting, UT
      <3>4. PcT' BY <1>6, AwaitT DEF EndAnswerWaiting, Inv, Typed, Label, HoldLabel
      <3> QED BY <1>6, <3>3, <3>4, SipOpT
           DEF EndAnswerWaiting, Inv, Typed, TgsT, LockT, PairsT, MyT
    <2>2. Guarded'
      BY <1>6, NoneAssumption
           DEF EndAnswerWaiting, Inv, Typed, Guarded, LocalsOK, HolderTg, LockHeld, PcT,
               LegLabels, TgLabels, HoldLabel, UT, User, Await, Turn, Attached
    <2> QED BY <2>1, <2>2 DEF Inv
  <1>7. CASE EndHangTg(p)
    <2>1. Typed'
      <3>1. UT' BY <1>7 DEF EndHangTg, Inv, Typed, UT, User
      <3>2. MyT' BY <1>7, SlotT, MyTg DEF EndHangTg, Inv, Typed
      <3>3. PcT' BY <1>7, AwaitT DEF EndHangTg, Inv, Typed, Label, HoldLabel
      <3> QED BY <1>7, <3>1, <3>2, <3>3, TgsOpT DEF EndHangTg, Inv, Typed, SipT, LockT, PairsT
    <2>2. Guarded'
      BY <1>7, NoneAssumption
           DEF EndHangTg, Inv, Typed, Guarded, LocalsOK, HolderTg, LockHeld, PcT, LegLabels,
               TgLabels, HoldLabel, MyT, Locals, UT, User, Await, Turn
    <2> QED BY <2>1, <2>2 DEF Inv
  <1>8. CASE WaitingTimeout(p)
    <2>1. Typed'
      BY <1>8, SipOpT DEF WaitingTimeout, Inv, Typed, TgsT, UT, LockT, PcT, MyT, PairsT
    <2>2. Guarded'
      BY <1>8, NoneAssumption
           DEF WaitingTimeout, Inv, Typed, Guarded, LocalsOK, HolderTg, LockHeld, PcT,
               LegLabels, TgLabels, HoldLabel
    <2> QED BY <2>1, <2>2 DEF Inv
  <1> QED BY <1>1, <1>2, <1>3, <1>4, <1>5, <1>6, <1>7, <1>8 DEF LegStep

\* _tg_incoming and _tg_ended keep the invariant.
LEMMA TgStepKeeps ==
  ASSUME Inv, NEW p \in TgCalls, TgStep(p)
  PROVE  Inv'
  <1> p \in Proc BY DEF Proc
  <1>1. CASE AcceptFail(p)
    <2>1. Typed'
      BY <1>1, HandOverT
           DEF AcceptFail, Inv, Typed, SipT, TgsT, UT, User, LockT, PairsT, Label, FreeLabel
    <2>2. Guarded'
      BY <1>1, NoneAssumption
           DEF AcceptFail, Inv, Typed, Guarded, LocalsOK, HolderTg, LockHeld, PcT, LegLabels,
               TgLabels, HoldLabel, MyT, Locals, UT, User, HandOver, At
    <2> QED BY <2>1, <2>2 DEF Inv
  <1>2. CASE AcceptOk(p)
    <2>1. Typed'
      BY <1>2, AcquireT
           DEF AcceptOk, Inv, Typed, SipT, TgsT, TgState, UT, MyT, PairsT, Label, LockLabel
    <2>2. Guarded'
      BY <1>2, NoneAssumption
           DEF AcceptOk, Inv, Typed, Guarded, LocalsOK, HolderTg, LockHeld, PcT, LegLabels,
               TgLabels, HoldLabel, LockT, Acquire, Queue, At
    <2> QED BY <2>1, <2>2 DEF Inv
  <1>3. CASE Accepted(p)
    <2>1. Typed'
      <3>1. lockq # <<>> BY <1>3 DEF Accepted, Locked, HasLock
      <3>2. UT' BY <1>3 DEF Accepted, Inv, Typed, UT, User
      <3>3. PcT' BY <1>3, LocalT DEF Accepted, Inv, Typed, PcT, Label, FreeLabel, Proc
      <3> QED BY <1>3, <3>1, <3>2, <3>3, ReleaseT, MyNo
           DEF Accepted, Inv, Typed, SipT, TgsT, PairsT
    <2>2. Guarded'
      BY <1>3, NoneAssumption
           DEF Accepted, Inv, Typed, Guarded, LocalsOK, HolderTg, LockHeld, PcT, LegLabels,
               TgLabels, HoldLabel, MyT, Locals, LockT, UT, User, Release, Locked, HasLock, Turn
    <2> QED BY <2>1, <2>2 DEF Inv
  <1>4. CASE TgEnded(p)
    <2>1. Typed'
      BY <1>4, AcquireT, FinishT
           DEF TgEnded, Inv, Typed, SipT, TgsT, UT, LockT, MyT, PairsT, Label, LockLabel
    <2>2. LocalsOK'
      BY <1>4, LocalsMove, LocalsFinish
           DEF TgEnded, Acquire, Inv, Guarded, Typed, LegLabels, TgLabels
    <2>3. HolderTg'
      BY <1>4, NoneAssumption
           DEF TgEnded, Inv, Typed, Guarded, HolderTg, PcT, Finish, Await, Acquire, At
    <2>4. LockHeld'
      BY <1>4, NoneAssumption
           DEF TgEnded, Inv, Typed, Guarded, LockHeld, PcT, HoldLabel, LockT, Finish, Await,
               Acquire, Queue, At
    <2> QED BY <2>1, <2>2, <2>3, <2>4 DEF Inv, Guarded
  <1>5. CASE TgDropped(p)
    <2>1. Typed'
      <3>1. lockq # <<>> BY <1>5 DEF TgDropped, Locked, HasLock
      <3>2. UT' BY <1>5 DEF TgDropped, Inv, Typed, UT, User
      <3>3. Tail(lockq) \in Seq(Proc) BY <3>1 DEF Inv, Typed, LockT
      <3>4. CASE Release /\ Await(p, "recStart")
        BY <1>5, <3>1, <3>2, <3>4, ReleaseT, AwaitT
             DEF TgDropped, Inv, Typed, SipT, TgsT, PairsT, MyT, Label, FreeLabel
      <3>5. CASE Queue(Tail(lockq), p) /\ pc' = [pc EXCEPT ![p] = "eeLock"]
        <4>1. LockT' /\ running' \in Proc \cup {None} BY <3>3, <3>5, QueueT DEF Inv, Typed
        <4> QED BY <1>5, <3>2, <3>5, <4>1
             DEF TgDropped, Inv, Typed, SipT, TgsT, PairsT, MyT, PcT, Label, LockLabel
      <3> QED BY <1>5, <3>4, <3>5 DEF TgDropped
    <2>2. LocalsOK'
      BY <1>5, NoneAssumption
           DEF TgDropped, Inv, Typed, Guarded, LocalsOK, PcT, LegLabels, TgLabels, User, UT,
               Await, Locked, HasLock, Turn
    <2>3. HolderTg'
      BY <1>5, NoneAssumption
           DEF TgDropped, Inv, Typed, Guarded, HolderTg, PcT, UT, User, LockHeld, HoldLabel,
               Await, Locked, HasLock, Turn
    <2>4. LockHeld'
      BY <1>5, NoneAssumption
           DEF TgDropped, Inv, Typed, Guarded, LockHeld, PcT, HoldLabel, LockT, Queue, Await,
               Release, Locked, HasLock, Turn
    <2> QED BY <2>1, <2>2, <2>3, <2>4 DEF Inv, Guarded
  <1>6. CASE TgGone(p)
    <2>1. Typed'
      BY <1>6 DEF TgGone, Inv, Typed, SipT, TgsT, TgState, UT, LockT, PcT, MyT, PairsT
    <2>2. Guarded'
      BY <1>6, NoneAssumption
           DEF TgGone, Inv, Typed, Guarded, LocalsOK, HolderTg, LockHeld, PcT, LegLabels,
               TgLabels, HoldLabel
    <2> QED BY <2>1, <2>2 DEF Inv
  <1> QED BY <1>1, <1>2, <1>3, <1>4, <1>5, <1>6 DEF TgStep

\* _reconnect keeps the invariant.
LEMMA RecStepKeeps ==
  ASSUME Inv, NEW p \in TgCalls, RecStep(p)
  PROVE  Inv'
  <1> p \in Proc BY DEF Proc
  <1>1. CASE RecStart(p)
    <2>1. Typed'
      <3>1. CASE Finish(p)
        BY <1>1, <3>1, FinishT DEF RecStart, Inv, Typed, SipT, TgsT, UT, LockT, PairsT
      <3>2. CASE my' = [my EXCEPT ![p].leg = u.active] /\ Await(p, "recHold")
        <4>1. MyT' BY <3>2, SlotT, MyLeg DEF Inv, Typed
        <4>2. PcT' BY <3>2, AwaitT DEF Inv, Typed, Label, FreeLabel
        <4> QED BY <1>1, <4>1, <4>2 DEF RecStart, Inv, Typed, SipT, TgsT, UT, LockT, PairsT
      <3> QED BY <1>1, <3>1, <3>2 DEF RecStart
    <2>2. LocalsOK'
      BY <1>1, LocalsMove, LocalsFinish
           DEF RecStart, Await, Inv, Guarded, Typed, MyT, LegLabels, TgLabels
    <2>3. HolderTg'
      BY <1>1, NoneAssumption
           DEF RecStart, Inv, Typed, Guarded, HolderTg, PcT, Finish, Await, At
    <2>4. LockHeld'
      BY <1>1, NoneAssumption
           DEF RecStart, Inv, Typed, Guarded, LockHeld, PcT, HoldLabel, Finish, Await, At
    <2> QED BY <2>1, <2>2, <2>3, <2>4 DEF Inv, Guarded
  <1>2. CASE RecCall(p)
    <2>1. Typed'
      <3>1. UT' BY <1>2 DEF RecCall, Inv, Typed, UT, User
      <3>2. TgsT' /\ MyT' BY <1>2, PlaceCallT DEF RecCall, Inv, Typed, TgsT, MyT
      <3>3. PcT' BY <1>2, AwaitT DEF RecCall, Inv, Typed, Label, FreeLabel
      <3> QED BY <1>2, <3>1, <3>2, <3>3 DEF RecCall, Inv, Typed, SipT, LockT, PairsT
    <2>2. Guarded'
      <3>1. LocalsOK'
        <4>1. CASE Await(p, "recFailed") /\ my' = my
          BY <4>1, LocalsMove DEF Await, Inv, Typed, Guarded, LegLabels, TgLabels
        <4>2. CASE (\E n \in TgCalls : PlaceCall(p, n)) /\ Await(p, "recCalling")
          BY <4>2, LocalsCall DEF Await, Inv, Typed, Guarded, LegLabels, TgLabels
        <4> QED BY <1>2, <4>1, <4>2 DEF RecCall
      <3>2. PICK l \in {"recCalling", "recFailed"} : pc' = [pc EXCEPT ![p] = l] BY <1>2
           DEF RecCall, Await
      <3>3. HolderTg' BY <1>2, <3>2 DEF RecCall, Inv, Typed, Guarded, HolderTg, PcT, UT, User
      <3>4. LockHeld' BY <1>2, <3>2 DEF RecCall, Inv, Typed, Guarded, LockHeld, HoldLabel, PcT
      <3> QED BY <3>1, <3>3, <3>4 DEF Guarded
    <2> QED BY <2>1, <2>2 DEF Inv
  <1>3. CASE RecFail(p)
    <2>1. Typed'
      BY <1>3, AwaitT
           DEF RecFail, Inv, Typed, SipT, TgsT, UT, User, LockT, MyT, PairsT, Label, FreeLabel
    <2>2. Guarded'
      BY <1>3, NoneAssumption
           DEF RecFail, Inv, Typed, Guarded, LocalsOK, HolderTg, LockHeld, PcT, LegLabels,
               TgLabels, HoldLabel, UT, User, Await, At
    <2> QED BY <2>1, <2>2 DEF Inv
  <1>4. CASE RecWin(p)
    <2>1. Typed'
      BY <1>4, PickedUpT, AcquireT
           DEF RecWin, Inv, Typed, SipT, UT, MyT, PairsT, Label, LockLabel
    <2>2. Guarded'
      BY <1>4, NoneAssumption
           DEF RecWin, Inv, Typed, Guarded, LocalsOK, HolderTg, LockHeld, PcT, LegLabels,
               TgLabels, HoldLabel, LockT, Acquire, Queue, PickedUp, At
    <2> QED BY <2>1, <2>2 DEF Inv
  <1>5. CASE RecAttach(p)
    <2>1. Typed'
      <3>1. pc[p] = "recLock" BY <1>5 DEF RecAttach, Locked, Turn
      <3>2. my[p].tg \in TgCalls BY <3>1, LocalT DEF Inv, Guarded, Typed, LocalsOK, TgLabels
      <3>3. UT' BY <1>5, <3>2 DEF RecAttach, Inv, Typed, UT, User
      <3>4. PcT' BY <1>5, <3>2 DEF RecAttach, Inv, Typed, PcT, Label, FreeLabel, HoldLabel, Proc
      <3> QED BY <1>5, <3>3, <3>4 DEF RecAttach, Inv, Typed, SipT, TgsT, LockT, PairsT, MyT
    <2>2. LocalsOK'
      BY <1>5 DEF RecAttach, Alive, Inv, Guarded, Typed, PcT, LocalsOK, LegLabels, TgLabels
    <2>3. HolderTg'
      BY <1>5, NoneAssumption
           DEF RecAttach, Inv, Typed, Guarded, HolderTg, PcT, UT, User, LockHeld, HoldLabel,
               LocalsOK, TgLabels, Locked, HasLock, Turn
    <2>4. LockHeld'
      BY <1>5, NoneAssumption
           DEF RecAttach, Inv, Typed, Guarded, LockHeld, PcT, HoldLabel, Locked, HasLock, Turn
    <2> QED BY <2>1, <2>2, <2>3, <2>4 DEF Inv, Guarded
  <1>6. CASE RecAttached(p)
    <2>1. Typed'
      <3>1. pc[p] = "recUnhold" BY <1>6 DEF RecAttached, Turn
      <3>2. my[p].leg \in Legs /\ u.tg # None BY <3>1, LocalT
           DEF Inv, Guarded, Typed, LocalsOK, LegLabels, HolderTg
      <3>3. UT' BY <1>6, <3>2, AttachedT DEF RecAttached, Inv, Typed, UT
      <3>4. lockq # <<>> BY <3>1 DEF Inv, Guarded, LockHeld, HoldLabel
      <3> QED BY <1>6, <3>3, <3>4, ReleaseT, FinishT
           DEF RecAttached, Inv, Typed, SipT, TgsT, PairsT
    <2>2. Guarded'
      BY <1>6, NoneAssumption
           DEF RecAttached, Inv, Typed, Guarded, LocalsOK, HolderTg, LockHeld, PcT, LegLabels,
               TgLabels, HoldLabel, MyT, Locals, LockT, UT, User, Finish, Await, Release, Turn,
               Attached
    <2> QED BY <2>1, <2>2 DEF Inv
  <1>7. CASE RecAbandon(p)
    <2>1. Typed'
      BY <1>7, TgsOpT, AwaitT
           DEF RecAbandon, Inv, Typed, SipT, UT, User, LockT, MyT, PairsT, Label, HoldLabel
    <2>2. Guarded'
      BY <1>7, NoneAssumption
           DEF RecAbandon, Inv, Typed, Guarded, LocalsOK, HolderTg, LockHeld, PcT, LegLabels,
               TgLabels, HoldLabel, UT, User, Await, Locked, HasLock, Turn
    <2> QED BY <2>1, <2>2 DEF Inv
  <1>8. CASE RecEnd(p)
    <2>1. Typed'
      BY <1>8, AcquireT DEF RecEnd, Inv, Typed, SipT, TgsT, UT, MyT, PairsT, Label, LockLabel
    <2>2. Guarded'
      BY <1>8, NoneAssumption
           DEF RecEnd, Inv, Typed, Guarded, LocalsOK, HolderTg, LockHeld, PcT, LegLabels,
               TgLabels, HoldLabel, LockT, Acquire, Queue, At
    <2> QED BY <2>1, <2>2 DEF Inv
  <1> QED BY <1>1, <1>2, <1>3, <1>4, <1>5, <1>6, <1>7, <1>8 DEF RecStep

\* _end_everything keeps the invariant.
LEMMA EeStepKeeps ==
  ASSUME Inv, NEW p \in Proc, EeStep(p)
  PROVE  Inv'
  <1>1. CASE EndEverything(p)
    <2>1. Typed'
      <3>1. lockq # <<>> BY <1>1 DEF EndEverything, Locked, HasLock
      <3>2. UT' BY <1>1 DEF EndEverything, Inv, Typed, UT, User
      <3>3. MyT'
        <4>1. [my[p] EXCEPT !.todo = SlotList, !.tg = u.tg] \in Locals BY SlotListT, SlotT
             DEF Inv, Typed, MyT, Locals
        <4> QED BY <1>1, <4>1, NoLocalsT DEF EndEverything, Inv, Typed, MyT
      <3>4. PcT' BY <1>1
           DEF EndEverything, Inv, Typed, PcT, Label, LockLabel, HoldLabel, FreeLabel
      <3>5. LockT' BY <1>1, <3>1, ReleaseT DEF EndEverything, Inv, Typed, LockT
      <3>6. TgsT' BY <1>1, TgsOpT DEF EndEverything, Inv, Typed, TgsT
      <3> QED BY <1>1, <3>2, <3>3, <3>4, <3>5, <3>6 DEF EndEverything, Inv, Typed, SipT, PairsT
    <2>2. Guarded'
      BY <1>1, NoneAssumption
           DEF EndEverything, Inv, Typed, Guarded, LocalsOK, HolderTg, LockHeld, PcT, LegLabels,
               TgLabels, HoldLabel, MyT, Locals, LockT, UT, User, Release, Locked, HasLock, Turn
    <2> QED BY <2>1, <2>2 DEF Inv
  <1>2. CASE EeCancelled(p)
    <2>1. Typed'
      <3>1. lockq # <<>> BY <1>2 DEF EeCancelled, Turn, Inv, Guarded, LockHeld, HoldLabel
      <3>2. UT' BY <1>2 DEF EeCancelled, Inv, Typed, UT, User
      <3> QED BY <1>2, <3>1, <3>2, ReleaseT, AwaitT
           DEF EeCancelled, Inv, Typed, SipT, TgsT, MyT, PairsT, Label, FreeLabel
    <2>2. Guarded'
      BY <1>2, NoneAssumption
           DEF EeCancelled, Inv, Typed, Guarded, LocalsOK, HolderTg, LockHeld, PcT, LegLabels,
               TgLabels, HoldLabel, LockT, UT, User, GoOn, Release, Turn
    <2> QED BY <2>1, <2>2 DEF Inv
  <1>3. CASE EeLeg(p)
    <2>1. Typed'
      <3>1. Tail(my[p].todo) \in Seq(Legs) BY <1>3, LocalT DEF EeLeg, Inv, Typed
      <3>2. MyT' BY <1>3, <3>1 DEF EeLeg, Inv, Typed, MyT, Locals
      <3> QED BY <1>3, <3>2, SipOpT, AwaitT
           DEF EeLeg, Inv, Typed, TgsT, UT, LockT, PairsT, Label, FreeLabel
    <2>2. Guarded'
      BY <1>3, NoneAssumption
           DEF EeLeg, Inv, Typed, Guarded, LocalsOK, HolderTg, LockHeld, PcT, LegLabels,
               TgLabels, HoldLabel, MyT, Locals, Either, Turn
    <2> QED BY <2>1, <2>2 DEF Inv
  <1>4. CASE EeTg(p)
    <2>1. Typed'
      BY <1>4, TgsOpT, FinishT DEF EeTg, Inv, Typed, SipT, UT, LockT, PairsT
    <2>2. Guarded'
      BY <1>4, NoneAssumption
           DEF EeTg, Inv, Typed, Guarded, LocalsOK, HolderTg, LockHeld, PcT, LegLabels,
               TgLabels, HoldLabel, MyT, Locals, Finish, Await, Turn
    <2> QED BY <2>1, <2>2 DEF Inv
  <1> QED BY <1>1, <1>2, <1>3, <1>4 DEF EeStep

\* The first step of every command keeps the invariant.
LEMMA CommandStartKeeps ==
  ASSUME Inv, NEW p \in Cmds, CommandStart(p)
  PROVE  Inv'
  <1> p \in Proc BY DEF Proc
  <1>1. CASE Hangup(p)
    <2>1. Typed'
      BY <1>1, SipOpT, FinishT, AcquireT
           DEF Hangup, Inv, Typed, SipT, TgsT, UT, LockT, MyT, PairsT, Label, LockLabel
    <2>2. LocalsOK'
      BY <1>1, LocalsMove, LocalsFinish
           DEF Hangup, Acquire, Inv, Guarded, Typed, LegLabels, TgLabels
    <2>3. HolderTg'
      BY <1>1, NoneAssumption
           DEF Hangup, Inv, Typed, Guarded, HolderTg, PcT, Acquire, Finish, Await, At
    <2>4. LockHeld'
      BY <1>1, NoneAssumption
           DEF Hangup, Inv, Typed, Guarded, LockHeld, PcT, HoldLabel, LockT, Acquire, Queue,
               Finish, Await, At
    <2> QED BY <2>1, <2>2, <2>3, <2>4 DEF Inv, Guarded
  <1>2. CASE Decline(p)
    <2>1. Typed'
      BY <1>2, SipOpT, TgsOpT, FinishT
           DEF Decline, Inv, Typed, SipT, SipState, TgsT, TgState, UT, LockT, PairsT
    <2>2. Guarded'
      BY <1>2, NoneAssumption
           DEF Decline, Inv, Typed, Guarded, LocalsOK, HolderTg, LockHeld, PcT, LegLabels,
               TgLabels, HoldLabel, MyT, Locals, Finish, Await, At
    <2> QED BY <2>1, <2>2 DEF Inv
  <1>3. CASE Switch(p)
    <2>1. Typed'
      BY <1>3, AcquireT DEF Switch, Inv, Typed, SipT, TgsT, UT, MyT, PairsT, Label, LockLabel
    <2>2. Guarded'
      BY <1>3, NoneAssumption
           DEF Switch, Inv, Typed, Guarded, LocalsOK, HolderTg, LockHeld, PcT, LegLabels,
               TgLabels, HoldLabel, LockT, Acquire, Queue, At
    <2> QED BY <2>1, <2>2 DEF Inv
  <1>4. CASE Consult(p)
    <2>1. Typed'
      <3>1. LockT' /\ running' \in Proc \cup {None} BY <1>4, QueueT
           DEF Consult, Inv, Typed, LockT
      <3>2. PcT' /\ MyT' BY <1>4, <3>1, ReserveT DEF Consult, Inv, Typed, Label, LockLabel
      <3> QED BY <1>4, <3>1, <3>2 DEF Consult, Inv, Typed, SipT, TgsT, UT, PairsT
    <2>2. LocalsOK'
      BY <1>4, NoneAssumption
           DEF Consult, Inv, Typed, Guarded, LocalsOK, PcT, LegLabels, TgLabels, MyT, Locals,
               User, UT, Reserve, At, Legs, Proc
    <2>3. HolderTg'
      BY <1>4, NoneAssumption
           DEF Consult, Inv, Typed, Guarded, HolderTg, PcT, Reserve, At, Legs, Proc
    <2>4. LockHeld'
      <3>1. PICK l \in OutLegs : pc' = [pc EXCEPT ![p] = "consLock", ![l] = "reserved"] BY <1>4
           DEF Consult, Reserve
      <3>2. \A q \in Proc : pc'[q] \in HoldLabel => pc[q] \in HoldLabel BY <3>1
           DEF Inv, Typed, PcT, HoldLabel
      <3>3. lockq' = Append(lockq, p) BY <1>4 DEF Consult, Queue
      <3> QED BY <3>2, <3>3 DEF Inv, Typed, Guarded, LockHeld, LockT
    <2> QED BY <2>1, <2>2, <2>3, <2>4 DEF Inv, Guarded
  <1>5. CASE Callback(p)
    <2>1. Typed'
      BY <1>5, ReserveT
           DEF Callback, Inv, Typed, SipT, TgsT, UT, User, LockT, PcT, PairsT, Label, FreeLabel
    <2>2. Guarded'
      BY <1>5, NoneAssumption
           DEF Callback, Inv, Typed, Guarded, LocalsOK, HolderTg, LockHeld, PcT, LegLabels,
               TgLabels, HoldLabel, MyT, Locals, UT, User, Reserve, At, Legs, Proc
    <2> QED BY <2>1, <2>2 DEF Inv
  <1>6. CASE Transfer(p)
    <2>1. Typed'
      BY <1>6, AcquireT DEF Transfer, Inv, Typed, SipT, TgsT, UT, MyT, PairsT, Label, LockLabel
    <2>2. Guarded'
      BY <1>6, NoneAssumption
           DEF Transfer, Inv, Typed, Guarded, LocalsOK, HolderTg, LockHeld, PcT, LegLabels,
               TgLabels, HoldLabel, LockT, Acquire, Queue, At
    <2> QED BY <2>1, <2>2 DEF Inv
  <1>7. CASE Conference(p)
    <2>1. Typed'
      <3>1. PICK l \in OutLegs :
                 /\ my' = [my EXCEPT ![p].leg = l, ![p].todo = Some(u.held) \o <<u.active>>]
                 /\ pc' = [pc EXCEPT ![p] = "confRefer", ![l] = "reserved"]
        BY <1>7 DEF Conference
      <3>2. Some(u.held) \in Seq(Legs) /\ <<u.active>> \in Seq(Legs) BY <1>7, SlotT, SomeT
           DEF Conference, Up, Inv, Typed
      <3>3. Some(u.held) \o <<u.active>> \in Seq(Legs) BY <3>2
      <3>4. MyT' BY <3>1, <3>3, MyLegTodo DEF Inv, Typed, Legs
      <3>5. PcT' BY <1>7, <3>1 DEF Conference, Inv, Typed, PcT, Label, FreeLabel
      <3> QED BY <1>7, <3>4, <3>5 DEF Conference, Inv, Typed, SipT, TgsT, UT, LockT, PairsT
    <2>2. Guarded'
      BY <1>7, NoneAssumption
           DEF Conference, Inv, Typed, Guarded, LocalsOK, HolderTg, LockHeld, PcT, LegLabels,
               TgLabels, HoldLabel, MyT, Locals, At
    <2> QED BY <2>1, <2>2 DEF Inv
  <1> QED BY <1>1, <1>2, <1>3, <1>4, <1>5, <1>6, <1>7 DEF CommandStart

\* _switch keeps the invariant.
LEMMA SwitchStepKeeps ==
  ASSUME Inv, NEW p \in Cmds, SwitchStep(p)
  PROVE  Inv'
  <1> p \in Proc BY DEF Proc
  <1>1. CASE SwitchToWaiting(p)
    <2>1. Typed'
      <3>1. UT' BY <1>1, NoneAssumption DEF SwitchToWaiting, Inv, Typed, UT, User
      <3>2. MyT' BY <1>1, SlotT, MyLeg DEF SwitchToWaiting, Inv, Typed
      <3>3. PcT' BY <1>1, ReinviteT DEF SwitchToWaiting, Inv, Typed, Label, HoldLabel
      <3> QED BY <1>1, <3>1, <3>2, <3>3
           DEF SwitchToWaiting, Inv, Typed, SipT, TgsT, LockT, PairsT
    <2>2. Guarded'
      BY <1>1, NoneAssumption
           DEF SwitchToWaiting, Inv, Typed, Guarded, LocalsOK, HolderTg, LockHeld, PcT,
               LegLabels, TgLabels, HoldLabel, MyT, Locals, UT, User, AfterReinvite, Locked,
               HasLock, Turn
    <2> QED BY <2>1, <2>2 DEF Inv
  <1>2. CASE SwitchedToWaiting(p)
    <2>1. Typed'
      <3> DEFINE v == [u EXCEPT !.held = IF u.active # None THEN u.active ELSE @]
      <3>1. pc[p] = "swHold" BY <1>2 DEF SwitchedToWaiting, Turn
      <3>2. my[p].leg \in Legs /\ u.tg # None BY <3>1, LocalT
           DEF Inv, Guarded, Typed, LocalsOK, LegLabels, HolderTg
      <3>3. v \in User /\ v.tg # None BY <3>2 DEF Inv, Typed, UT, User
      <3>4. UT' BY <1>2, <3>2, <3>3, AttachedT DEF SwitchedToWaiting, UT
      <3> QED BY <1>2, <3>4, SipOpT, AwaitT
           DEF SwitchedToWaiting, Inv, Typed, TgsT, LockT, PairsT, MyT, Label, HoldLabel
    <2>2. Guarded'
      BY <1>2, NoneAssumption
           DEF SwitchedToWaiting, Inv, Typed, Guarded, LocalsOK, HolderTg, LockHeld, PcT,
               LegLabels, TgLabels, HoldLabel, UT, User, Await, Turn, Attached
    <2> QED BY <2>1, <2>2 DEF Inv
  <1>3. CASE SwitchToHeld(p)
    <2>1. Typed'
      <3>1. UT' BY <1>3 DEF SwitchToHeld, Inv, Typed, UT, User
      <3>2. Some(u.active) \in Seq(Legs) BY SlotT, SomeT DEF Inv, Typed
      <3>3. MyT' BY <1>3, <3>2, SlotT, MyLegTodo DEF SwitchToHeld, Inv, Typed
      <3> QED BY <1>3, <3>1, <3>3, AwaitT
           DEF SwitchToHeld, Inv, Typed, SipT, TgsT, LockT, PairsT, Label, HoldLabel
    <2>2. Guarded'
      BY <1>3, NoneAssumption
           DEF SwitchToHeld, Inv, Typed, Guarded, LocalsOK, HolderTg, LockHeld, PcT, LegLabels,
               TgLabels, HoldLabel, MyT, Locals, UT, User, Either, Locked, HasLock, Turn
    <2> QED BY <2>1, <2>2 DEF Inv
  <1>4. CASE SwitchedToHeld(p)
    <2>1. Typed'
      <3> DEFINE h == IF my[p].todo = <<>> THEN None ELSE Head(my[p].todo)
      <3>1. pc[p] = "swUnhold" BY <1>4 DEF SwitchedToHeld, Turn
      <3>2. my[p].leg \in Legs /\ u.tg # None BY <3>1, LocalT
           DEF Inv, Guarded, Typed, LocalsOK, LegLabels, HolderTg
      <3>3. h \in Legs \cup {None} BY LocalT DEF Inv, Typed
      <3>4. [u EXCEPT !.held = h] \in User /\ [u EXCEPT !.held = h].tg # None BY <3>2, <3>3
           DEF Inv, Typed, UT, User
      <3>5. UT' BY <1>4, <3>2, <3>4, AttachedT DEF SwitchedToHeld, UT
      <3> QED BY <1>4, <3>5, AwaitT
           DEF SwitchedToHeld, Inv, Typed, SipT, TgsT, LockT, PairsT, MyT, Label, HoldLabel
    <2>2. Guarded'
      BY <1>4, NoneAssumption
           DEF SwitchedToHeld, Inv, Typed, Guarded, LocalsOK, HolderTg, LockHeld, PcT,
               LegLabels, TgLabels, HoldLabel, UT, User, Await, Turn, Attached
    <2> QED BY <2>1, <2>2 DEF Inv
  <1> QED BY <1>1, <1>2, <1>3, <1>4 DEF SwitchStep

\* _dial and _dial_direct keep the invariant.
LEMMA DialStepKeeps ==
  ASSUME Inv, NEW p \in Cmds, DialStep(p)
  PROVE  Inv'
  <1> p \in Proc BY DEF Proc
  <1>1. CASE ConsultHold(p)
    <2>1. Typed'
      <3>1. UT' BY <1>1 DEF ConsultHold, Inv, Typed, UT, User
      <3>2. <<u.active>> \in Seq(Legs) BY <1>1, SlotT DEF ConsultHold, Inv, Typed
      <3>3. MyT' BY <1>1, <3>2, MyTodo DEF ConsultHold, Inv, Typed
      <3>4. PcT' BY <1>1, ReinviteT DEF ConsultHold, Inv, Typed, Label, HoldLabel
      <3> QED BY <1>1, <3>1, <3>3, <3>4 DEF ConsultHold, Inv, Typed, SipT, TgsT, LockT, PairsT
    <2>2. Guarded'
      BY <1>1, NoneAssumption
           DEF ConsultHold, Inv, Typed, Guarded, LocalsOK, HolderTg, LockHeld, PcT, LegLabels,
               TgLabels, HoldLabel, MyT, Locals, UT, User, AfterReinvite, Locked, HasLock, Turn
    <2> QED BY <2>1, <2>2 DEF Inv
  <1>2. CASE ConsultRaise(p)
    <2>1. Typed'
      BY <1>2, ReleaseT, HandOverT
           DEF ConsultRaise, Inv, Typed, SipT, TgsT, UT, PairsT, Label, FreeLabel, Locked,
               HasLock
    <2>2. Guarded'
      BY <1>2, NoneAssumption
           DEF ConsultRaise, Inv, Typed, Guarded, LocalsOK, HolderTg, LockHeld, PcT, LegLabels,
               TgLabels, HoldLabel, MyT, Locals, LockT, HandOver, Release, Locked, HasLock, Turn
    <2> QED BY <2>1, <2>2 DEF Inv
  <1>3. CASE ConsultHeld(p)
    <2>1. Typed'
      <3>1. pc[p] = "consHold" BY <1>3 DEF ConsultHeld, Turn
      <3>2. Head(my[p].todo) \in Legs BY <3>1, LocalT DEF Inv, Guarded, Typed, LocalsOK
      <3>3. UT' BY <1>3, <3>2 DEF ConsultHeld, Inv, Typed, UT, User
      <3>4. lockq # <<>> BY <3>1 DEF Inv, Guarded, LockHeld, HoldLabel
      <3>5. PcT' /\ MyT' BY <1>3, HandOverT DEF ConsultHeld, Inv, Typed, Label, FreeLabel
      <3> QED BY <1>3, <3>3, <3>4, <3>5, ReleaseT
           DEF ConsultHeld, Inv, Typed, SipT, TgsT, PairsT
    <2>2. Guarded'
      BY <1>3, NoneAssumption
           DEF ConsultHeld, Inv, Typed, Guarded, LocalsOK, HolderTg, LockHeld, PcT, LegLabels,
               TgLabels, HoldLabel, MyT, Locals, LockT, UT, User, HandOver, Release, Turn
    <2> QED BY <2>1, <2>2 DEF Inv
  <1>4. CASE CbCall(p)
    <2>1. Typed'
      <3>1. PICK t \in TgCalls : /\ tgs' = [tgs EXCEPT ![t] = "setup"]
                                 /\ \/ my' = [my EXCEPT ![p].tg = t] /\ sip' = sip
                                    \/ /\ my' = [my EXCEPT ![p].tg = t, ![p].todo = <<my[p].leg>>]
                                       /\ sip' = [sip EXCEPT ![my[p].leg] = "calling"]
        BY <1>4 DEF CbCall
      <3>2. TgsT' /\ SipT' BY <3>1 DEF Inv, Typed, SipT, TgsT, SipState, TgState
      <3>3. my[p].leg \in Legs BY <1>4, LocalT
           DEF CbCall, At, Inv, Guarded, Typed, LocalsOK, LegLabels
      <3>4. <<my[p].leg>> \in Seq(Legs) BY <3>3
      <3>5. MyT' BY <3>1, <3>4, MyTg, MyTgTodo DEF Inv, Typed
      <3> QED BY <1>4, <3>2, <3>5, AwaitT
           DEF CbCall, Inv, Typed, UT, LockT, PairsT, Label, FreeLabel
    <2>2. Guarded'
      <3>1. PICK t \in TgCalls : \/ my' = [my EXCEPT ![p].tg = t]
                                 \/ my' = [my EXCEPT ![p].tg = t, ![p].todo = <<my[p].leg>>]
        BY <1>4 DEF CbCall
      <3>2. my'[p].tg # None /\ \A q \in Proc \ {p} : my'[q] = my[q] BY <3>1, NoneAssumption
           DEF Inv, Typed, MyT, Locals, Proc
      <3>3. pc' = [pc EXCEPT ![p] = "cbCalling"] BY <1>4 DEF CbCall, Await
      <3>4. LocalsOK' BY <3>2, <3>3 DEF Inv, Typed, Guarded, LocalsOK, PcT, LegLabels, TgLabels
      <3>5. HolderTg' BY <1>4, <3>3 DEF CbCall, Inv, Typed, Guarded, HolderTg, PcT
      <3>6. LockHeld' BY <1>4, <3>3 DEF CbCall, Inv, Typed, Guarded, LockHeld, HoldLabel, PcT
      <3> QED BY <3>4, <3>5, <3>6 DEF Guarded
    <2> QED BY <2>1, <2>2 DEF Inv
  <1>5. CASE CbFail(p)
    <2>1. Typed'
      BY <1>5, SipOpT, HandOverT
           DEF CbFail, Inv, Typed, SipT, SipState, TgsT, UT, User, LockT, PairsT, Label,
               FreeLabel
    <2>2. Guarded'
      BY <1>5, NoneAssumption
           DEF CbFail, Inv, Typed, Guarded, LocalsOK, HolderTg, LockHeld, PcT, LegLabels,
               TgLabels, HoldLabel, MyT, Locals, UT, User, HandOver, At
    <2> QED BY <2>1, <2>2 DEF Inv
  <1>6. CASE CbWin(p)
    <2>1. Typed'
      BY <1>6, PickedUpT, AcquireT
           DEF CbWin, Inv, Typed, SipT, UT, MyT, PairsT, Label, LockLabel
    <2>2. LocalsOK'
      BY <1>6, NoneAssumption
           DEF CbWin, Inv, Typed, Guarded, LocalsOK, PcT, LegLabels, TgLabels, Acquire, At
    <2>3. HolderTg'
      BY <1>6, NoneAssumption DEF CbWin, Inv, Typed, Guarded, HolderTg, PcT, Acquire, At
    <2>4. LockHeld'
      BY <1>6, NoneAssumption
           DEF CbWin, Inv, Typed, Guarded, LockHeld, PcT, HoldLabel, LockT, Acquire, Queue, At
    <2> QED BY <2>1, <2>2, <2>3, <2>4 DEF Inv, Guarded
  <1>7. CASE CbConnected(p)
    <2>1. Typed'
      <3>1. pc[p] = "cbLock" /\ lockq # <<>> BY <1>7 DEF CbConnected, Locked, Turn, HasLock
      <3>2. my[p].tg \in TgCalls BY <3>1, LocalT DEF Inv, Guarded, Typed, LocalsOK, TgLabels
      <3>3. UT' BY <1>7, <3>2 DEF CbConnected, Inv, Typed, UT, User
      <3>4. PcT' BY <1>7, LocalT DEF CbConnected, Inv, Typed, PcT, Label, FreeLabel, Proc
      <3> QED BY <1>7, <3>1, <3>3, <3>4, ReleaseT, MyNo
           DEF CbConnected, Inv, Typed, SipT, TgsT, PairsT
    <2>2. Guarded'
      BY <1>7, NoneAssumption
           DEF CbConnected, Inv, Typed, Guarded, LocalsOK, HolderTg, LockHeld, PcT, LegLabels,
               TgLabels, HoldLabel, MyT, Locals, LockT, UT, User, Release, Locked, HasLock, Turn
    <2> QED BY <2>1, <2>2 DEF Inv
  <1>8. CASE DirectAttach(p)
    <2>1. Typed'
      <3> DEFINE v == [u EXCEPT !.pending = FALSE, !.tg = my[p].tg]
      <3>1. pc[p] = "cbLock" /\ lockq # <<>> BY <1>8 DEF DirectAttach, Locked, Turn, HasLock
      <3>2. my[p].tg \in TgCalls /\ my[p].leg \in Legs BY <1>8, <3>1, LocalT
           DEF DirectAttach, Alive, Inv, Guarded, Typed, LocalsOK, TgLabels
      <3>3. v \in User /\ v.tg # None BY <3>2, NoneAssumption DEF Inv, Typed, UT, User, Proc
      <3>4. UT' BY <1>8, <3>2, <3>3, AttachedT DEF DirectAttach, UT
      <3>5. PcT' BY <1>8, <3>2 DEF DirectAttach, Inv, Typed, PcT, Label, FreeLabel, Proc
      <3> QED BY <1>8, <3>1, <3>4, <3>5, ReleaseT, MyNo
           DEF DirectAttach, Inv, Typed, SipT, TgsT, PairsT
    <2>2. Guarded'
      BY <1>8, NoneAssumption
           DEF DirectAttach, Inv, Typed, Guarded, LocalsOK, HolderTg, LockHeld, PcT, LegLabels,
               TgLabels, HoldLabel, MyT, Locals, LockT, UT, User, Release, Locked, HasLock,
               Turn, Attached
    <2> QED BY <2>1, <2>2 DEF Inv
  <1>9. CASE DirectLost(p)
    <2>1. Typed'
      <3>1. pc[p] = "cbLock" BY <1>9 DEF DirectLost, Locked, Turn
      <3>2. my[p].tg \in TgCalls BY <3>1, LocalT DEF Inv, Guarded, Typed, LocalsOK, TgLabels
      <3>3. UT' BY <1>9, <3>2 DEF DirectLost, Inv, Typed, UT, User
      <3>4. PcT' BY <1>9, <3>2
           DEF DirectLost, Inv, Typed, PcT, Label, FreeLabel, HoldLabel, Proc
      <3> QED BY <1>9, <3>3, <3>4, TgsOpT DEF DirectLost, Inv, Typed, SipT, LockT, PairsT, MyT
    <2>2. Guarded'
      BY <1>9, NoneAssumption
           DEF DirectLost, Inv, Typed, Guarded, LocalsOK, HolderTg, LockHeld, PcT, LegLabels,
               TgLabels, HoldLabel, UT, User, Locked, HasLock, Turn
    <2> QED BY <2>1, <2>2 DEF Inv
  <1> QED BY <1>1, <1>2, <1>3, <1>4, <1>5, <1>6, <1>7, <1>8, <1>9 DEF DialStep

\* _transfer and _conference keep the invariant.
LEMMA MoveStepKeeps ==
  ASSUME Inv, NEW p \in Cmds, MoveStep(p)
  PROVE  Inv'
  <1> p \in Proc BY DEF Proc
  <1>1. CASE TransferLegs(p)
    <2>1. Typed'
      <3>1. lockq # <<>> BY <1>1 DEF TransferLegs, Locked, HasLock
      <3>2. <<u.active, u.held>> \in Seq(Legs) BY <1>1, SlotT DEF TransferLegs, Up, Inv, Typed
      <3>3. MyT' BY <1>1, <3>2, SlotT, MyTgTodo DEF TransferLegs, Inv, Typed
      <3>4. UT' BY <1>1 DEF TransferLegs, Inv, Typed, UT, User
      <3>5. PcT' BY <1>1, ReinviteT DEF TransferLegs, Inv, Typed, Label, FreeLabel
      <3> QED BY <1>1, <3>1, <3>3, <3>4, <3>5, ReleaseT
           DEF TransferLegs, Inv, Typed, SipT, TgsT, PairsT
    <2>2. Guarded'
      BY <1>1, NoneAssumption
           DEF TransferLegs, Inv, Typed, Guarded, LocalsOK, HolderTg, LockHeld, PcT, LegLabels,
               TgLabels, HoldLabel, MyT, Locals, LockT, UT, User, AfterReinvite, Release,
               Locked, HasLock, Turn
    <2> QED BY <2>1, <2>2 DEF Inv
  <1>2. CASE Transferred(p)
    <2>1. Typed'
      <3>1. pc[p] = "xferUnhold" BY <1>2 DEF Transferred, Turn
      <3>2. my[p].todo[1] \in Legs /\ my[p].todo[2] \in Legs BY <3>1, LocalT
           DEF Inv, Guarded, Typed, LocalsOK
      <3>3. PairsT' BY <1>2, <3>2 DEF Transferred, Inv, Typed, PairsT
      <3> QED BY <1>2, <3>3, TgsOpT, FinishT DEF Transferred, Inv, Typed, SipT, UT, LockT
    <2>2. Guarded'
      BY <1>2, NoneAssumption
           DEF Transferred, Inv, Typed, Guarded, LocalsOK, HolderTg, LockHeld, PcT, LegLabels,
               TgLabels, HoldLabel, MyT, Locals, Finish, Await, Turn
    <2> QED BY <2>1, <2>2 DEF Inv
  <1>3. CASE ConfRefer(p)
    <2>1. Typed'
      <3>1. CASE HandOver(p, "done") /\ sip' = sip
        BY <1>3, <3>1, HandOverT
             DEF ConfRefer, Inv, Typed, SipT, TgsT, UT, LockT, PairsT, Label, FreeLabel
      <3>2. CASE End(Head(my[p].todo)) /\ my' = [my EXCEPT ![p].todo = Tail(@)]
                /\ Await(p, "confRefer")
        <4>1. Tail(my[p].todo) \in Seq(Legs) BY <1>3, LocalT DEF ConfRefer, Inv, Typed
        <4>2. MyT' BY <3>2, <4>1 DEF Inv, Typed, MyT, Locals
        <4> QED BY <1>3, <3>2, <4>2, SipOpT, AwaitT
             DEF ConfRefer, Inv, Typed, TgsT, UT, LockT, PairsT, Label, FreeLabel
      <3> QED BY <1>3, <3>1, <3>2 DEF ConfRefer
    <2>2. LocalsOK'
      <3>1. CASE HandOver(p, "done") BY <3>1, LocalsHandOver
           DEF Inv, Guarded, Typed, LegLabels, TgLabels
      <3>2. CASE my' = [my EXCEPT ![p].todo = Tail(@)] /\ Await(p, "confRefer")
        BY <3>2, LocalsMove DEF Await, Inv, Guarded, Typed, MyT, LegLabels, TgLabels
      <3> QED BY <1>3, <3>1, <3>2 DEF ConfRefer
    <2>3. HolderTg'
      BY <1>3, NoneAssumption
           DEF ConfRefer, Inv, Typed, Guarded, HolderTg, PcT, LocalsOK, TgLabels, HandOver,
               Await, At
    <2>4. LockHeld'
      BY <1>3, NoneAssumption
           DEF ConfRefer, Inv, Typed, Guarded, LockHeld, PcT, HoldLabel, HandOver, Await, At
    <2> QED BY <2>1, <2>2, <2>3, <2>4 DEF Inv, Guarded
  <1>4. CASE ConfMoved(p)
    <2>1. Typed'
      BY <1>4, AcquireT DEF ConfMoved, Inv, Typed, SipT, TgsT, UT, MyT, PairsT, Label, LockLabel
    <2>2. LocalsOK'
      BY <1>4, NoneAssumption
           DEF ConfMoved, Inv, Typed, Guarded, LocalsOK, PcT, LegLabels, TgLabels, Acquire, At
    <2>3. HolderTg'
      BY <1>4, NoneAssumption
           DEF ConfMoved, Inv, Typed, Guarded, HolderTg, PcT, LocalsOK, TgLabels, Acquire, At
    <2>4. LockHeld'
      BY <1>4, NoneAssumption
           DEF ConfMoved, Inv, Typed, Guarded, LockHeld, PcT, HoldLabel, LockT, Acquire, Queue,
               At
    <2> QED BY <2>1, <2>2, <2>3, <2>4 DEF Inv, Guarded
  <1>5. CASE ConfJoin(p)
    <2>1. Typed'
      BY <1>5, ReleaseT, MyNo
           DEF ConfJoin, Inv, Typed, SipT, TgsT, UT, User, PcT, MyT, PairsT, Label, FreeLabel,
               Locked, HasLock
    <2>2. Guarded'
      BY <1>5, NoneAssumption
           DEF ConfJoin, Inv, Typed, Guarded, LocalsOK, HolderTg, LockHeld, PcT, LegLabels,
               TgLabels, HoldLabel, MyT, Locals, LockT, UT, User, Release, Locked, HasLock, Turn
    <2> QED BY <2>1, <2>2 DEF Inv
  <1> QED BY <1>1, <1>2, <1>3, <1>4, <1>5 DEF MoveStep

\* The end of "async with u.lock".
LEMMA UnlockKeeps ==
  ASSUME Inv, NEW p \in Proc, Unlock(p)
  PROVE  Inv'
  <1>1. Typed'
    <2>1. lockq # <<>>
      <3>1. CASE NothingToDo(p) BY <3>1
           DEF NothingToDo, Locked, Turn, HasLock, Inv, Guarded, LockHeld, HoldLabel
      <3>2. CASE ~NothingToDo(p) BY <3>2 DEF Unlock, At, Turn, Inv, Guarded, LockHeld, HoldLabel
      <3> QED BY <3>1, <3>2
    <2> QED BY <2>1, ReleaseT, FinishT DEF Unlock, Inv, Typed, SipT, TgsT, UT, PairsT
  <1>2. Guarded'
    BY NoneAssumption
         DEF Unlock, Inv, Typed, Guarded, LocalsOK, HolderTg, LockHeld, PcT, LegLabels,
             TgLabels, HoldLabel, MyT, Locals, LockT, Finish, Await, Release, Turn, At,
             NothingToDo, Locked, HasLock
  <1> QED BY <1>1, <1>2 DEF Inv

\* A notification that raises.
LEMMA NotifyRaiseKeeps ==
  ASSUME Inv, NEW p \in Proc, NotifyRaise(p)
  PROVE  Inv'
  <1>1. Typed'
    <2>1. LockT' BY ReleaseT DEF NotifyRaise, Release, Inv, Guarded, Typed, LockT, LockHeld
    <2>2. PcT' /\ MyT' BY FinishT, HandOverT DEF NotifyRaise, Inv, Typed, Label, FreeLabel
    <2> QED BY <2>1, <2>2 DEF NotifyRaise, Inv, Typed, SipT, TgsT, UT, PairsT
  <1>2. LocalsOK'
    <2>1. CASE HandOver(p, "done") BY <2>1, LocalsHandOver
         DEF Inv, Guarded, Typed, LegLabels, TgLabels
    <2>2. CASE Finish(p) BY <2>2, LocalsFinish DEF Inv, Guarded, Typed
    <2> QED BY <2>1, <2>2 DEF NotifyRaise
  <1>3. HolderTg'
    BY NoneAssumption
         DEF NotifyRaise, Inv, Typed, Guarded, HolderTg, PcT, Finish, Await, HandOver
  <1>4. LockHeld'
    BY NoneAssumption
         DEF NotifyRaise, Inv, Typed, Guarded, LockHeld, PcT, HoldLabel, LockT, Finish, Await,
             HandOver
  <1> QED BY <1>1, <1>2, <1>3, <1>4 DEF Inv, Guarded

\* The environment.
LEMMA ArriveKeeps ==
  ASSUME Inv, NEW p \in InLegs, Arrive(p)
  PROVE  Inv'
  <1> p \in Legs /\ p \in Proc BY DEF Legs, Proc
  <1>1. Typed'
    BY AwaitT
         DEF Arrive, Inv, Typed, SipT, SipState, TgsT, UT, LockT, MyT, PairsT, Label, FreeLabel
  <1>2. Guarded'
    BY NoneAssumption
         DEF Arrive, Inv, Typed, Guarded, LocalsOK, HolderTg, LockHeld, PcT, LegLabels,
             TgLabels, HoldLabel, Either, At
  <1> QED BY <1>1, <1>2 DEF Inv

LEMMA SipAnswersKeeps ==
  ASSUME Inv, NEW p \in OutLegs, SipAnswers(p)
  PROVE  Inv'
  <1> p \in Legs /\ p \in Proc BY DEF Legs, Proc
  <1>1. Typed'
    BY DEF SipAnswers, Inv, Typed, SipT, SipState, TgsT, UT, LockT, PcT, MyT, PairsT
  <1>2. Guarded'
    BY NoneAssumption
         DEF SipAnswers, Inv, Typed, Guarded, LocalsOK, HolderTg, LockHeld, PcT, LegLabels,
             TgLabels, HoldLabel
  <1> QED BY <1>1, <1>2 DEF Inv

LEMMA SipEndsKeeps ==
  ASSUME Inv, NEW p \in Legs, SipEnds(p)
  PROVE  Inv'
  <1> p \in Proc BY DEF Proc
  <1>1. Typed'
    BY SipOpT DEF SipEnds, Inv, Typed, TgsT, UT, LockT, PcT, MyT, PairsT
  <1>2. Guarded'
    BY NoneAssumption
         DEF SipEnds, Inv, Typed, Guarded, LocalsOK, HolderTg, LockHeld, PcT, LegLabels,
             TgLabels, HoldLabel
  <1> QED BY <1>1, <1>2 DEF Inv

LEMMA TgIncomingKeeps ==
  ASSUME Inv, NEW p \in TgCalls, TgIncoming(p)
  PROVE  Inv'
  <1> p \in Proc BY DEF Proc
  <1>1. Typed'
    BY ReserveT
         DEF TgIncoming, Inv, Typed, SipT, TgsT, TgState, UT, User, LockT, PcT, PairsT, Label,
             FreeLabel
  <1>2. Guarded'
    BY NoneAssumption
         DEF TgIncoming, Inv, Typed, Guarded, LocalsOK, HolderTg, LockHeld, PcT, LegLabels,
             TgLabels, HoldLabel, MyT, Locals, UT, User, Reserve, At, Legs, Proc
  <1> QED BY <1>1, <1>2 DEF Inv

LEMMA TgDeclineKeeps ==
  ASSUME Inv, NEW p \in TgCalls, TgDecline(p)
  PROVE  Inv'
  <1> p \in Proc BY DEF Proc
  <1>1. Typed'
    BY FinishT DEF TgDecline, Inv, Typed, SipT, TgsT, TgState, UT, LockT, PairsT
  <1>2. Guarded'
    BY NoneAssumption
         DEF TgDecline, Inv, Typed, Guarded, LocalsOK, HolderTg, LockHeld, PcT, LegLabels,
             TgLabels, HoldLabel, MyT, Locals, Finish, Await, At
  <1> QED BY <1>1, <1>2 DEF Inv

LEMMA TgEndsKeeps ==
  ASSUME Inv, NEW p \in TgCalls, TgEnds(p)
  PROVE  Inv'
  <1> p \in Proc BY DEF Proc
  <1>1. Typed'
    BY DEF TgEnds, Inv, Typed, SipT, TgsT, TgState, UT, LockT, PcT, MyT, PairsT
  <1>2. Guarded'
    BY NoneAssumption
         DEF TgEnds, Inv, Typed, Guarded, LocalsOK, HolderTg, LockHeld, PcT, LegLabels,
             TgLabels, HoldLabel
  <1> QED BY <1>1, <1>2 DEF Inv

LEMMA PairEndedKeeps ==
  ASSUME Inv, NEW p \in pairs, PairEnded(p)
  PROVE  Inv'
  <1>1. SipT' /\ PairsT' BY DEF PairEnded, Inv, Typed, SipT, SipState, PairsT
  <1>2. UNCHANGED <<tgs, u, lockq, running, pc, my>> BY DEF PairEnded
  <1>3. Typed' BY <1>1, <1>2 DEF Inv, Typed, TgsT, UT, LockT, PcT, MyT
  <1>4. Guarded' BY <1>2 DEF Inv, Guarded, LocalsOK, HolderTg, LockHeld
  <1> QED BY <1>3, <1>4 DEF Inv

-----------------------------------------------------------------------------
(* The theorems.                                                           *)

LEMMA InitInv == Init => Inv
  <1> SUFFICES ASSUME Init PROVE Inv OBVIOUS
  <1>1. SipT /\ TgsT /\ LockT /\ PairsT
    BY DEF Init, SipT, SipState, TgsT, TgState, LockT, PairsT
  <1>2. UT BY DEF Init, UT, User
  <1>3. PcT BY DEF Init, PcT, Label, FreeLabel
  <1>4. MyT BY NoLocalsT DEF Init, MyT
  <1>5. Guarded
    BY DEF Init, Guarded, LocalsOK, HolderTg, LockHeld, LegLabels, TgLabels, HoldLabel
  <1> QED BY <1>1, <1>2, <1>3, <1>4, <1>5 DEF Inv, Typed

LEMMA NextKeeps == Inv /\ [Next]_vars => Inv'
  <1> SUFFICES ASSUME Inv, [Next]_vars PROVE Inv' OBVIOUS
  <1>1. ASSUME NEW p \in Proc, SystemStep(p) PROVE Inv'
    BY <1>1, InLegStepKeeps, OutLegStepKeeps, LegStepKeeps, TgStepKeeps, RecStepKeeps,
       SwitchStepKeeps, DialStepKeeps, MoveStepKeeps, EeStepKeeps, UnlockKeeps DEF SystemStep
  <1>2. ASSUME NEW p \in Proc, EnvironmentStep(p) PROVE Inv'
    BY <1>2, ArriveKeeps, SipAnswersKeeps, SipEndsKeeps, TgIncomingKeeps, TgDeclineKeeps,
       TgEndsKeeps, CommandStartKeeps, NotifyRaiseKeeps DEF EnvironmentStep
  <1>3. CASE \E p \in pairs : PairEnded(p)
    BY <1>3, PairEndedKeeps
  <1>4. CASE UNCHANGED vars
    BY <1>4 DEF vars, Inv, Typed, SipT, TgsT, UT, LockT, PcT, MyT, PairsT,
       Guarded, LocalsOK, HolderTg, LockHeld
  <1> QED BY <1>1, <1>2, <1>3, <1>4 DEF Next, Quiet

LEMMA InvHolds == Spec => []Inv
  BY InitInv, NextKeeps, PTL DEF Spec

\* Type correctness of the whole per-user state of CallManager (UserState, its lock, the
\* tasks and their locals): in particular _attach always finds a leg and a Telegram call.
THEOREM TypeCorrect == Spec => []TypeOK
  <1>1. Inv => TypeOK
    BY DEF Inv, Typed, SipT, TgsT, UT, LockT, PcT, MyT, PairsT, TypeOK
  <1> QED BY <1>1, InvHolds, PTL

\* A task between the acquisition and the release of UserState.lock is the head of its queue,
\* whatever the other tasks do: they queue, are cancelled in the queue (reconnect_task.cancel()
\* in _end_everything) or leave by an exception of a notification.
THEOREM LockIsHeld == Spec => []LockHeld
  <1>1. Inv => LockHeld
    BY DEF Inv, Guarded
  <1> QED BY <1>1, InvHolds, PTL

=============================================================================
