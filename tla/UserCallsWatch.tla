--------------------------- MODULE UserCallsWatch ---------------------------
(***************************************************************************)
(* Proof that the Telegram call in UserState.tg always has a watcher that  *)
(* has not finished, for any number of calls and commands.                 *)
(*                                                                         *)
(* u.tg is set when a call that some task placed, perhaps long before, is  *)
(* attached, and only then does its watcher start.  "Placed" says that     *)
(* until then nothing else has started on that call, and that no two tasks *)
(* hold the same one.  _end_everything cancels the task named by           *)
(* u.reconnect; "RecInv" says that this is never a task that has become    *)
(* the watcher of a call.                                                  *)
(***************************************************************************)
EXTENDS UserCallsProofs

-----------------------------------------------------------------------------
(* The inductive invariant.                                                *)

\* A Telegram call that a task has placed belongs to that task alone and nothing runs for it.
Placed == \A p \in Proc : pc[p] \in TgLabels =>
    /\ pc[my[p].tg] = "idle" /\ tgs[my[p].tg] # "none"
    /\ \A q \in Proc : pc[q] \in TgLabels /\ my[q].tg = my[p].tg => q = p

\* What _end_everything cancels is a reconnection, or a task that is over.
RecInv == u.reconnect # None =>
    pc[u.reconnect] \in {"recStart", "recHold", "recCalling", "recLock", "done"}

Watched == Placed /\ RecInv /\ TgWatched

\* No step forgets that a Telegram call exists.
TgsKept == \A t \in TgCalls : tgs[t] # "none" => tgs'[t] # "none"

-----------------------------------------------------------------------------
(* Frames: steps that cannot disturb the invariant.                        *)

LEMMA TgsKeptBy ==
  ASSUME TgsT, NEW p,
         \/ HangTg(p) \/ CancelEngine \/ PickedUp(p)
         \/ \E t \in TgCalls : PlaceCall(p, t)
         \/ tgs' = tgs
  PROVE  TgsKept
  BY DEF TgsKept, TgsT, HangTg, CancelEngine, PickedUp, PlaceCall

LEMMA TgLocal ==
  ASSUME MyT, LocalsOK, NEW q \in Proc, pc[q] \in TgLabels
  PROVE  my[q].tg \in TgCalls
  BY LocalT DEF LocalsOK

LEMMA PlacedFrame ==
  ASSUME MyT, LocalsOK, Placed, TgsKept,
         \A q \in Proc : pc'[q] \in TgLabels => pc[q] \in TgLabels /\ my'[q].tg = my[q].tg,
         \A q \in Proc : pc'[q] \in TgLabels => pc'[my[q].tg] = pc[my[q].tg]
  PROVE  Placed'
  BY TgLocal DEF Placed, TgsKept

LEMMA PlacedMove ==
  ASSUME PcT, MyT, LocalsOK, Placed, TgsKept, NEW p \in Proc, NEW l,
         pc' = [pc EXCEPT ![p] = l], l \notin TgLabels, p \in TgCalls => pc[p] # "idle",
         \A q \in Proc \ {p} : my'[q] = my[q]
  PROVE  Placed'
  <1>1. \A q \in Proc : pc'[q] \in TgLabels => pc[q] \in TgLabels /\ my'[q] = my[q] BY DEF PcT
  <1>2. \A q \in Proc : pc[q] \in TgLabels => my[q].tg \in TgCalls /\ my[q].tg # p BY TgLocal
       DEF Placed
  <1>3. \A t \in TgCalls : t # p => pc'[t] = pc[t] BY DEF PcT, Proc
  <1> QED BY <1>1, <1>2, <1>3, PlacedFrame

LEMMA PlacedFinish ==
  ASSUME PcT, MyT, LocalsOK, Placed, TgsKept, NEW p \in Proc,
         pc[p] # "idle" \/ p \notin TgCalls, Finish(p)
  PROVE  Placed'
  <1>1. \A q \in Proc \ {p} : my'[q] = my[q] BY DEF Finish, MyT
  <1> QED BY <1>1, PlacedMove DEF Finish, Await, TgLabels

LEMMA PlacedHandOver ==
  ASSUME PcT, MyT, LocalsOK, Placed, TgsKept, NEW p \in Proc,
         pc[p] # "idle" \/ p \notin TgCalls, NEW n, n \notin TgLabels, HandOver(p, n)
  PROVE  Placed'
  <1>1. \A q \in Proc : pc'[q] \in TgLabels => pc[q] \in TgLabels /\ my'[q] = my[q] BY
       DEF HandOver, PcT, MyT, TgLabels
  <1>2. \A q \in Proc : pc[q] \in TgLabels => my[q].tg \in TgCalls /\ my[q].tg # p BY TgLocal
       DEF Placed
  <1>3. my[p].leg \in Legs \cup {None} BY LocalT
  <1>4. \A t \in TgCalls : t # p => pc'[t] = pc[t] BY <1>3, DisjointAssumption, NoneAssumption
       DEF HandOver, PcT, Proc
  <1> QED BY <1>1, <1>2, <1>4, PlacedFrame

LEMMA PlacedReserve ==
  ASSUME PcT, MyT, LocalsOK, Placed, TgsKept, NEW p \in Proc, pc[p] = "idle",
         p \notin TgCalls \/ tgs[p] = "none", NEW n, n \notin TgLabels, Reserve(p, n)
  PROVE  Placed'
  <1>1. PICK l \in OutLegs : /\ my' = [my EXCEPT ![p].leg = l]
                             /\ pc' = [pc EXCEPT ![p] = n, ![l] = "reserved"]
    BY DEF Reserve
  <1>2. \A q \in Proc : pc'[q] \in TgLabels => pc[q] \in TgLabels /\ my'[q] = my[q] BY <1>1
       DEF PcT, MyT, TgLabels
  <1>3. \A q \in Proc : pc[q] \in TgLabels => my[q].tg \in TgCalls /\ my[q].tg # p BY TgLocal
       DEF Placed
  <1>4. \A t \in TgCalls : t # p => pc'[t] = pc[t] BY <1>1, DisjointAssumption
       DEF PcT, Proc, Legs
  <1> QED BY <1>2, <1>3, <1>4, PlacedFrame

LEMMA PlacedNew ==
  ASSUME PcT, MyT, TgsT, LocalsOK, Placed, NEW p \in Proc, p \notin TgCalls \/ pc[p] # "idle",
         NEW l, pc' = [pc EXCEPT ![p] = l], NEW t \in TgCalls, Fresh(t),
         tgs' = [tgs EXCEPT ![t] = "setup"], my'[p].tg = t,
         \A q \in Proc \ {p} : my'[q] = my[q]
  PROVE  Placed'
  <1>1. tgs[t] = "none" /\ pc[t] = "idle" /\ t # p /\ t \in Proc BY DEF Fresh, Proc
  <1>2. \A q \in Proc : q # p => pc'[q] = pc[q] BY DEF PcT
  <1>3. \A q \in Proc : pc[q] \in TgLabels =>
          my[q].tg \in TgCalls \ {p, t} /\ tgs'[my[q].tg] # "none"
    BY <1>1, TgLocal DEF Placed, TgsT
  <1>4. tgs'[t] # "none" BY DEF TgsT
  <1>5. TgCalls \subseteq Proc BY DEF Proc
  <1> QED BY <1>1, <1>2, <1>3, <1>4, <1>5 DEF Placed

LEMMA PlacedCall ==
  ASSUME PcT, MyT, TgsT, LocalsOK, Placed, NEW p \in Proc, p \notin TgCalls \/ pc[p] # "idle",
         NEW l, pc' = [pc EXCEPT ![p] = l], NEW t \in TgCalls, PlaceCall(p, t)
  PROVE  Placed'
  <1>1. my' = [my EXCEPT ![p].tg = t] BY DEF PlaceCall
  <1>2. my'[p].tg = t /\ \A q \in Proc \ {p} : my'[q] = my[q] BY <1>1 DEF MyT, Locals
  <1> QED BY <1>2, PlacedNew DEF PlaceCall

LEMMA PlacedWatch ==
  ASSUME PcT, MyT, LocalsOK, Placed, TgsKept, NEW p \in Proc, pc[p] \in TgLabels, NEW l,
         l \notin TgLabels, pc' = [pc EXCEPT ![p] = l, ![my[p].tg] = "watch"],
         \A q \in Proc \ {p} : my'[q] = my[q]
  PROVE  Placed'
  <1>1. my[p].tg \in TgCalls /\ pc[my[p].tg] = "idle" /\ my[p].tg # p BY TgLocal
       DEF Placed, TgLabels
  <1>2. \A q \in Proc : pc'[q] \in TgLabels => pc[q] \in TgLabels /\ my'[q] = my[q] /\ q # p
    BY <1>1 DEF PcT, TgLabels
  <1>3. \A q \in Proc : pc[q] \in TgLabels /\ q # p =>
          my[q].tg \in TgCalls \ {p, my[p].tg}
    BY TgLocal DEF Placed, TgLabels
  <1>4. \A t \in TgCalls : t # p /\ t # my[p].tg => pc'[t] = pc[t] BY DisjointAssumption
       DEF PcT, Proc
  <1> QED BY <1>2, <1>3, <1>4, PlacedFrame

LEMMA PlacedWatchLeg ==
  ASSUME PcT, MyT, LocalsOK, Placed, TgsKept, NEW p \in Proc, pc[p] \in TgLabels, NEW l,
         l \notin TgLabels, NEW b, b \notin TgLabels,
         pc' = [pc EXCEPT ![p] = l, ![my[p].tg] = "watch", ![my[p].leg] = b],
         \A q \in Proc \ {p} : my'[q] = my[q]
  PROVE  Placed'
  <1>1. my[p].tg \in TgCalls /\ pc[my[p].tg] = "idle" /\ my[p].tg # p BY TgLocal
       DEF Placed, TgLabels
  <1>2. \A q \in Proc : pc'[q] \in TgLabels => pc[q] \in TgLabels /\ my'[q] = my[q] /\ q # p
    BY <1>1 DEF PcT, TgLabels
  <1>3. \A q \in Proc : pc[q] \in TgLabels /\ q # p =>
          my[q].tg \in TgCalls \ {p, my[p].tg}
    BY TgLocal DEF Placed, TgLabels
  <1>4. my[p].leg \in Legs \cup {None} BY LocalT
  <1>5. \A t \in TgCalls : t # p /\ t # my[p].tg => pc'[t] = pc[t]
    BY <1>4, DisjointAssumption, NoneAssumption DEF PcT, Proc
  <1> QED BY <1>2, <1>3, <1>5, PlacedFrame

LEMMA CallFrame ==
  ASSUME UT, RecInv, TgWatched, u'.tg \in {u.tg, None}, u'.reconnect \in {u.reconnect, None},
         \A t \in TgCalls : pc[t] # "idle" => pc'[t] = pc[t]
  PROVE  RecInv' /\ TgWatched'
  BY SlotT, NoneAssumption DEF RecInv, TgWatched

-----------------------------------------------------------------------------
(* One lemma for each group of actions: every action keeps Watched.        *)

\* _sip_incoming and _ring_users keep Watched.
LEMMA InLegStepWatches ==
  ASSUME Inv, Watched, NEW p \in InLegs, InLegStep(p)
  PROVE  Watched'
  <1> p \in Legs /\ p \in Proc /\ p \notin TgCalls BY DisjointAssumption DEF Legs, Proc
  <1>1. CASE OfferReject(p)
    <2>1. RecInv' /\ TgWatched'
      BY <1>1, NoneAssumption, DisjointAssumption
           DEF OfferReject, Inv, Typed, Watched, RecInv, TgWatched, PcT, UT, User, Proc, Legs,
               Finish, Await, Turn
    <2>2. Placed'
      BY <1>1, NoneAssumption, DisjointAssumption
           DEF OfferReject, Inv, Typed, Watched, Placed, PcT, TgsT, TgLabels, MyT, Locals,
               Finish, Await, Turn
    <2> QED BY <2>1, <2>2 DEF Watched
  <1>2. CASE OfferWaiting(p)
    <2>1. RecInv' /\ TgWatched'
      <3>1. u'.tg = u.tg /\ u'.reconnect = u.reconnect BY <1>2
           DEF OfferWaiting, Inv, Typed, UT, User
      <3>2. \A t \in TgCalls : pc'[t] = pc[t] BY <1>2, DisjointAssumption
           DEF OfferWaiting, Await, Finish, Inv, Typed, PcT, Proc, Legs
      <3> QED BY <3>1, <3>2, CallFrame DEF Inv, Typed, Watched
    <2>2. Placed'
      BY <1>2, TgsKeptBy, PlacedMove, PlacedFinish
           DEF OfferWaiting, Inv, Typed, Guarded, Watched, TgLabels, Await, MyT
    <2> QED BY <2>1, <2>2 DEF Watched
  <1>3. CASE OfferRing(p)
    <2>1. RecInv' /\ TgWatched'
      BY <1>3, NoneAssumption, DisjointAssumption
           DEF OfferRing, Inv, Typed, Watched, RecInv, TgWatched, PcT, UT, User, Proc, Legs,
               Either, Turn
    <2>2. Placed'
      BY <1>3, NoneAssumption, DisjointAssumption
           DEF OfferRing, Inv, Typed, Watched, Placed, PcT, TgsT, TgLabels, Either, Turn
    <2> QED BY <2>1, <2>2 DEF Watched
  <1>4. CASE RingCall(p)
    <2>1. RecInv' /\ TgWatched'
      BY <1>4, NoneAssumption, DisjointAssumption
           DEF RingCall, Inv, Typed, Watched, RecInv, TgWatched, PcT, UT, User, Proc, Legs,
               Await, Turn
    <2>2. Placed'
      <3>1. CASE Await(p, "ringFailed") /\ UNCHANGED <<tgs, my>>
        BY <3>1, TgsKeptBy, PlacedMove DEF Await, Inv, Typed, Guarded, Watched, TgLabels
      <3>2. CASE (\E t \in TgCalls : PlaceCall(p, t)) /\ Await(p, "ringing")
        BY <3>2, PlacedCall DEF Await, Inv, Typed, Guarded, Watched
      <3> QED BY <1>4, <3>1, <3>2 DEF RingCall
    <2> QED BY <2>1, <2>2 DEF Watched
  <1>5. CASE RingFail(p)
    <2>1. RecInv' /\ TgWatched'
      BY <1>5, NoneAssumption, DisjointAssumption
           DEF RingFail, Inv, Typed, Watched, RecInv, TgWatched, PcT, UT, User, Proc, Legs,
               Guarded, LocalsOK, Placed, TgLabels, MyT, Locals, Either, At
    <2>2. Placed'
      BY <1>5, NoneAssumption, DisjointAssumption
           DEF RingFail, Inv, Typed, Watched, Placed, PcT, TgsT, TgLabels, Either, At
    <2> QED BY <2>1, <2>2 DEF Watched
  <1>6. CASE RingMissed(p)
    <2>1. RecInv' /\ TgWatched'
      BY <1>6, NoneAssumption, DisjointAssumption
           DEF RingMissed, Inv, Typed, Watched, RecInv, TgWatched, PcT, UT, User, Proc, Legs,
               Finish, Await, Turn
    <2>2. Placed'
      BY <1>6, NoneAssumption, DisjointAssumption
           DEF RingMissed, Inv, Typed, Watched, Placed, PcT, TgsT, TgLabels, MyT, Locals,
               Finish, Await, Turn
    <2> QED BY <2>1, <2>2 DEF Watched
  <1>7. CASE RingGone(p)
    <2>1. RecInv' /\ TgWatched'
      BY <1>7, NoneAssumption, DisjointAssumption
           DEF RingGone, Inv, Typed, Watched, RecInv, TgWatched, PcT, UT, User, Proc, Legs,
               Await, GoOn, At
    <2>2. Placed'
      BY <1>7, TgsKeptBy, PlacedMove
           DEF RingGone, Inv, Typed, Guarded, Watched, TgLabels, Await, GoOn
    <2> QED BY <2>1, <2>2 DEF Watched
  <1>8. CASE RingCancelled(p)
    <2>1. RecInv' /\ TgWatched'
      BY <1>8, NoneAssumption, DisjointAssumption
           DEF RingCancelled, Inv, Typed, Watched, RecInv, TgWatched, PcT, UT, User, Proc, Legs,
               Finish, Await, Turn
    <2>2. Placed'
      BY <1>8, NoneAssumption, DisjointAssumption
           DEF RingCancelled, Inv, Typed, Watched, Placed, PcT, TgsT, TgLabels, MyT, Locals,
               Finish, Await, Turn
    <2> QED BY <2>1, <2>2 DEF Watched
  <1>9. CASE RingWin(p)
    <2>1. RecInv' /\ TgWatched'
      BY <1>9, NoneAssumption, DisjointAssumption
           DEF RingWin, Inv, Typed, Watched, RecInv, TgWatched, PcT, UT, User, Proc, Legs,
               Guarded, LocalsOK, Placed, TgLabels, MyT, Locals, Acquire, At
    <2>2. Placed'
      BY <1>9, NoneAssumption, DisjointAssumption
           DEF RingWin, Inv, Typed, Watched, Placed, PcT, TgsT, TgLabels, Acquire, PickedUp, At
    <2> QED BY <2>1, <2>2 DEF Watched
  <1>10. CASE RingAttach(p)
    <2>1. RecInv' /\ TgWatched'
      BY <1>10, NoneAssumption, DisjointAssumption
           DEF RingAttach, Inv, Typed, Watched, RecInv, TgWatched, PcT, UT, User, Proc, Legs,
               Guarded, LocalsOK, Placed, TgLabels, MyT, Locals, Attached, Locked, Turn
    <2>2. Placed'
      BY <1>10, TgsKeptBy, PlacedWatch
           DEF RingAttach, Locked, Turn, Inv, Typed, MyT, Guarded, Watched, TgLabels
    <2> QED BY <2>1, <2>2 DEF Watched
  <1> QED BY <1>1, <1>2, <1>3, <1>4, <1>5, <1>6, <1>7, <1>8, <1>9, <1>10 DEF InLegStep

\* _dial_leg keeps Watched.
LEMMA OutLegStepWatches ==
  ASSUME Inv, Watched, NEW p \in OutLegs, OutLegStep(p)
  PROVE  Watched'
  <1> p \in Legs /\ p \in Proc /\ p \notin TgCalls BY DisjointAssumption DEF Legs, Proc
  <1>1. CASE Invite(p)
    <2>1. RecInv' /\ TgWatched'
      BY <1>1, NoneAssumption, DisjointAssumption
           DEF Invite, Inv, Typed, Watched, RecInv, TgWatched, PcT, UT, User, Proc, Legs, Await,
               Acquire, Turn
    <2>2. Placed'
      BY <1>1, TgsKeptBy, PlacedMove
           DEF Invite, Inv, Typed, Guarded, Watched, TgLabels, Await, Acquire
    <2> QED BY <2>1, <2>2 DEF Watched
  <1>2. CASE DialResume(p)
    <2>1. RecInv' /\ TgWatched'
      <3>1. u'.tg = u.tg /\ u'.reconnect = u.reconnect BY <1>2
           DEF DialResume, Inv, Typed, UT, User
      <3>2. \A t \in TgCalls : pc'[t] = pc[t] BY <1>2, DisjointAssumption
           DEF DialResume, AfterReinvite, Await, Finish, Inv, Typed, PcT, Proc, Legs
      <3> QED BY <3>1, <3>2, CallFrame DEF Inv, Typed, Watched
    <2>2. Placed'
      BY <1>2, TgsKeptBy, PlacedMove, PlacedFinish
           DEF DialResume, Inv, Typed, Guarded, Watched, TgLabels, AfterReinvite, MyT
    <2> QED BY <2>1, <2>2 DEF Watched
  <1>3. CASE DialResumed(p)
    <2>1. RecInv' /\ TgWatched'
      BY <1>3, NoneAssumption, DisjointAssumption
           DEF DialResumed, Inv, Typed, Watched, RecInv, TgWatched, PcT, UT, User, Proc, Legs,
               Guarded, LocalsOK, Placed, TgLabels, MyT, Locals, Finish, Await, Attached, Turn
    <2>2. Placed'
      BY <1>3, NoneAssumption, DisjointAssumption
           DEF DialResumed, Inv, Typed, Watched, Placed, PcT, TgsT, TgLabels, MyT, Locals,
               Finish, Await, Turn
    <2> QED BY <2>1, <2>2 DEF Watched
  <1>4. CASE DialGiveUp(p)
    <2>1. RecInv' /\ TgWatched'
      BY <1>4, NoneAssumption, DisjointAssumption
           DEF DialGiveUp, Inv, Typed, Watched, RecInv, TgWatched, PcT, UT, User, Proc, Legs,
               Finish, Await, Acquire, At
    <2>2. Placed'
      BY <1>4, TgsKeptBy, PlacedMove, PlacedFinish
           DEF DialGiveUp, Inv, Typed, Guarded, Watched, TgLabels, Acquire
    <2> QED BY <2>1, <2>2 DEF Watched
  <1>5. CASE DialAttach(p)
    <2>1. RecInv' /\ TgWatched'
      <3>1. u'.tg = u.tg /\ u'.reconnect = u.reconnect BY <1>5, AttachedKeeps
           DEF DialAttach, Inv, Typed, UT
      <3>2. \A t \in TgCalls : pc'[t] = pc[t] BY <1>5, DisjointAssumption
           DEF DialAttach, Await, Either, Inv, Typed, PcT, Proc, Legs
      <3> QED BY <3>1, <3>2, CallFrame DEF Inv, Typed, Watched
    <2>2. Placed'
      BY <1>5, TgsKeptBy, PlacedMove
           DEF DialAttach, Inv, Typed, Guarded, Watched, TgLabels, Await, Either
    <2> QED BY <2>1, <2>2 DEF Watched
  <1> QED BY <1>1, <1>2, <1>3, <1>4, <1>5 DEF OutLegStep

\* The watcher of a leg (_leg_ended, _resume_held) keeps Watched.
LEMMA LegStepWatches ==
  ASSUME Inv, Watched, NEW p \in Legs, LegStep(p)
  PROVE  Watched'
  <1> p \in Proc /\ p \notin TgCalls BY DisjointAssumption DEF Proc
  <1>1. CASE LegEnded(p)
    <2>1. RecInv' /\ TgWatched'
      BY <1>1, NoneAssumption, DisjointAssumption
           DEF LegEnded, Inv, Typed, Watched, RecInv, TgWatched, PcT, UT, User, Proc, Legs,
               Acquire, At
    <2>2. Placed'
      BY <1>1, NoneAssumption, DisjointAssumption
           DEF LegEnded, Inv, Typed, Watched, Placed, PcT, TgsT, TgLabels, Acquire, At
    <2> QED BY <2>1, <2>2 DEF Watched
  <1>2. CASE EndIdle(p)
    <2>1. RecInv' /\ TgWatched'
      BY <1>2, NoneAssumption, DisjointAssumption
           DEF EndIdle, Inv, Typed, Watched, RecInv, TgWatched, PcT, UT, User, Proc, Legs,
               Await, Locked, Turn
    <2>2. Placed'
      BY <1>2, NoneAssumption, DisjointAssumption
           DEF EndIdle, Inv, Typed, Watched, Placed, PcT, TgsT, TgLabels, Await, Locked, Turn
    <2> QED BY <2>1, <2>2 DEF Watched
  <1>3. CASE EndActive(p)
    <2>1. RecInv' /\ TgWatched'
      BY <1>3, NoneAssumption, DisjointAssumption
           DEF EndActive, Inv, Typed, Watched, RecInv, TgWatched, PcT, UT, User, Proc, Legs,
               Either, Locked, Turn
    <2>2. Placed'
      BY <1>3, NoneAssumption, DisjointAssumption
           DEF EndActive, Inv, Typed, Watched, Placed, PcT, TgsT, TgLabels, Either, Locked, Turn
    <2> QED BY <2>1, <2>2 DEF Watched
  <1>4. CASE EndResume(p)
    <2>1. RecInv' /\ TgWatched'
      BY <1>4, NoneAssumption, DisjointAssumption
           DEF EndResume, Inv, Typed, Watched, RecInv, TgWatched, PcT, UT, User, Proc, Legs,
               AfterReinvite, Turn
    <2>2. Placed'
      BY <1>4, NoneAssumption, DisjointAssumption
           DEF EndResume, Inv, Typed, Watched, Placed, PcT, TgsT, TgLabels, MyT, Locals,
               AfterReinvite, Turn
    <2> QED BY <2>1, <2>2 DEF Watched
  <1>5. CASE EndResumed(p)
    <2>1. RecInv' /\ TgWatched'
      BY <1>5, NoneAssumption, DisjointAssumption
           DEF EndResumed, Inv, Typed, Watched, RecInv, TgWatched, PcT, UT, User, Proc, Legs,
               Guarded, LocalsOK, Placed, TgLabels, MyT, Locals, Await, Attached, Turn
    <2>2. Placed'
      BY <1>5, NoneAssumption, DisjointAssumption
           DEF EndResumed, Inv, Typed, Watched, Placed, PcT, TgsT, TgLabels, Await, Turn
    <2> QED BY <2>1, <2>2 DEF Watched
  <1>6. CASE EndAnswerWaiting(p)
    <2>1. RecInv' /\ TgWatched'
      BY <1>6, NoneAssumption, DisjointAssumption
           DEF EndAnswerWaiting, Inv, Typed, Watched, RecInv, TgWatched, PcT, UT, User, Proc,
               Legs, Await, Attached, Turn
    <2>2. Placed'
      BY <1>6, NoneAssumption, DisjointAssumption
           DEF EndAnswerWaiting, Inv, Typed, Watched, Placed, PcT, TgsT, TgLabels, Await, Turn
    <2> QED BY <2>1, <2>2 DEF Watched
  <1>7. CASE EndHangTg(p)
    <2>1. RecInv' /\ TgWatched'
      BY <1>7, NoneAssumption, DisjointAssumption
           DEF EndHangTg, Inv, Typed, Watched, RecInv, TgWatched, PcT, UT, User, Proc, Legs,
               Await, Turn
    <2>2. Placed'
      BY <1>7, TgsKeptBy, PlacedMove
           DEF EndHangTg, Inv, Typed, Guarded, Watched, TgLabels, Await, MyT
    <2> QED BY <2>1, <2>2 DEF Watched
  <1>8. CASE WaitingTimeout(p)
    <2>1. RecInv' /\ TgWatched'
      BY <1>8, NoneAssumption, DisjointAssumption
           DEF WaitingTimeout, Inv, Typed, Watched, RecInv, TgWatched, PcT, UT, User, Proc, Legs
    <2>2. Placed'
      BY <1>8, NoneAssumption, DisjointAssumption
           DEF WaitingTimeout, Inv, Typed, Watched, Placed, PcT, TgsT, TgLabels
    <2> QED BY <2>1, <2>2 DEF Watched
  <1> QED BY <1>1, <1>2, <1>3, <1>4, <1>5, <1>6, <1>7, <1>8 DEF LegStep

\* _tg_incoming and _tg_ended keep Watched.
LEMMA TgStepWatches ==
  ASSUME Inv, Watched, NEW p \in TgCalls, TgStep(p)
  PROVE  Watched'
  <1> p \in Proc BY DEF Proc
  <1>1. CASE AcceptFail(p)
    <2>1. RecInv' /\ TgWatched'
      BY <1>1, NoneAssumption, DisjointAssumption
           DEF AcceptFail, Inv, Typed, Watched, RecInv, TgWatched, PcT, UT, User, Proc, Legs,
               Guarded, LocalsOK, Placed, TgLabels, MyT, Locals, HandOver, At
    <2>2. Placed'
      BY <1>1, TgsKeptBy, PlacedHandOver
           DEF AcceptFail, Inv, Typed, Guarded, Watched, TgLabels, At
    <2> QED BY <2>1, <2>2 DEF Watched
  <1>2. CASE AcceptOk(p)
    <2>1. RecInv' /\ TgWatched'
      BY <1>2, NoneAssumption, DisjointAssumption
           DEF AcceptOk, Inv, Typed, Watched, RecInv, TgWatched, PcT, UT, User, Proc, Legs,
               Acquire, At
    <2>2. Placed'
      BY <1>2, NoneAssumption, DisjointAssumption
           DEF AcceptOk, Inv, Typed, Watched, Placed, PcT, TgsT, TgLabels, Acquire, At
    <2> QED BY <2>1, <2>2 DEF Watched
  <1>3. CASE Accepted(p)
    <2>1. RecInv' /\ TgWatched'
      BY <1>3, NoneAssumption, DisjointAssumption
           DEF Accepted, Inv, Typed, Watched, RecInv, TgWatched, PcT, UT, User, Proc, Legs,
               Guarded, LocalsOK, Placed, TgLabels, MyT, Locals, Locked, Turn
    <2>2. Placed'
      <3>1. my[p].leg \in Legs \cup {None} /\ pc[p] = "accLock" BY <1>3, LocalT
           DEF Accepted, Locked, Turn, Inv, Typed
      <3>2. \A q \in Proc : pc'[q] \in TgLabels => pc[q] \in TgLabels /\ my'[q] = my[q] BY <1>3
           DEF Accepted, Inv, Typed, PcT, MyT, TgLabels
      <3>3. \A t \in TgCalls : t # p => pc'[t] = pc[t]
        BY <1>3, <3>1, DisjointAssumption, NoneAssumption DEF Accepted, Inv, Typed, PcT, Proc
      <3>4. \A q \in Proc : pc[q] \in TgLabels => my[q].tg \in TgCalls /\ my[q].tg # p
        BY <3>1, TgLocal DEF Inv, Typed, Guarded, Watched, Placed
      <3> QED BY <1>3, <3>2, <3>3, <3>4, TgsKeptBy, PlacedFrame
           DEF Accepted, Inv, Typed, Guarded, Watched
    <2> QED BY <2>1, <2>2 DEF Watched
  <1>4. CASE TgEnded(p)
    <2>1. RecInv' /\ TgWatched'
      BY <1>4, NoneAssumption, DisjointAssumption
           DEF TgEnded, Inv, Typed, Watched, RecInv, TgWatched, PcT, UT, User, Proc, Legs,
               Finish, Await, Acquire, At
    <2>2. Placed'
      BY <1>4, TgsKeptBy, PlacedMove, PlacedFinish
           DEF TgEnded, Inv, Typed, Guarded, Watched, TgLabels, Acquire, At
    <2> QED BY <2>1, <2>2 DEF Watched
  <1>5. CASE TgDropped(p)
    <2>1. RecInv' /\ TgWatched'
      <3>1. pc[p] = "tgEndLock" BY <1>5 DEF TgDropped, Locked, Turn
      <3>2. u.reconnect # p BY <3>1, NoneAssumption DEF Watched, RecInv
      <3>3. u'.tg = None BY <1>5 DEF TgDropped, Inv, Typed, UT, User
      <3>4. CASE /\ Await(p, "recStart")
                 /\ u' = [u EXCEPT !.tg = None, !.bridge = None, !.reconnect = p]
        BY <3>3, <3>4 DEF Await, RecInv, TgWatched, Inv, Typed, PcT, UT, User
      <3>5. CASE pc' = [pc EXCEPT ![p] = "eeLock"] /\ u' = [u EXCEPT !.tg = None, !.bridge = None]
        BY <3>2, <3>3, <3>5 DEF Watched, RecInv, TgWatched, Inv, Typed, PcT, UT, User
      <3> QED BY <1>5, <3>4, <3>5 DEF TgDropped
    <2>2. Placed'
      BY <1>5, TgsKeptBy, PlacedMove
           DEF TgDropped, Inv, Typed, Guarded, Watched, TgLabels, Await, Locked, Turn
    <2> QED BY <2>1, <2>2 DEF Watched
  <1>6. CASE TgGone(p)
    <2>1. RecInv' /\ TgWatched'
      BY <1>6, NoneAssumption, DisjointAssumption
           DEF TgGone, Inv, Typed, Watched, RecInv, TgWatched, PcT, UT, User, Proc, Legs
    <2>2. Placed'
      BY <1>6, NoneAssumption, DisjointAssumption
           DEF TgGone, Inv, Typed, Watched, Placed, PcT, TgsT, TgLabels
    <2> QED BY <2>1, <2>2 DEF Watched
  <1> QED BY <1>1, <1>2, <1>3, <1>4, <1>5, <1>6 DEF TgStep

\* _reconnect keeps Watched.
LEMMA RecStepWatches ==
  ASSUME Inv, Watched, NEW p \in TgCalls, RecStep(p)
  PROVE  Watched'
  <1> p \in Proc BY DEF Proc
  <1>1. CASE RecStart(p)
    <2>1. RecInv' /\ TgWatched'
      BY <1>1, NoneAssumption, DisjointAssumption
           DEF RecStart, Inv, Typed, Watched, RecInv, TgWatched, PcT, UT, User, Proc, Legs,
               Finish, Await, At
    <2>2. Placed'
      BY <1>1, TgsKeptBy, PlacedMove, PlacedFinish
           DEF RecStart, Inv, Typed, Guarded, Watched, TgLabels, Await, At, MyT
    <2> QED BY <2>1, <2>2 DEF Watched
  <1>2. CASE RecCall(p)
    <2>1. RecInv' /\ TgWatched'
      <3>1. pc[p] = "recHold" BY <1>2 DEF RecCall, At
      <3>2. u'.tg = u.tg BY <1>2 DEF RecCall, Inv, Typed, UT, User
      <3>3. u.tg # p BY <3>1, NoneAssumption DEF Watched, TgWatched
      <3>4. \A t \in TgCalls : t # p => pc'[t] = pc[t]
        <4>1. Await(p, "recCalling") \/ Await(p, "recFailed") BY <1>2 DEF RecCall
        <4> QED BY <4>1 DEF Await, Inv, Typed, PcT, Proc
      <3>5. TgWatched' BY <3>2, <3>3, <3>4, SlotT DEF TgWatched, Watched, Inv, Typed
      <3>6. CASE u'.reconnect = None BY <3>5, <3>6 DEF RecInv
      <3>7. CASE u'.reconnect = u.reconnect /\ Await(p, "recCalling")
        BY <3>4, <3>5, <3>7, SlotT DEF RecInv, Await, Watched, Inv, Typed, PcT
      <3>8. u'.reconnect = None \/ (u'.reconnect = u.reconnect /\ Await(p, "recCalling"))
        BY <1>2 DEF RecCall, Inv, Typed, UT, User
      <3> QED BY <3>6, <3>7, <3>8
    <2>2. Placed'
      <3>0. pc[p] # "idle" BY <1>2 DEF RecCall, At
      <3>1. CASE Await(p, "recFailed") /\ UNCHANGED <<tgs, my>>
        BY <3>0, <3>1, TgsKeptBy, PlacedMove DEF Await, Inv, Typed, Guarded, Watched, TgLabels
      <3>2. CASE (\E n \in TgCalls : PlaceCall(p, n)) /\ Await(p, "recCalling")
        BY <3>0, <3>2, PlacedCall DEF Await, Inv, Typed, Guarded, Watched
      <3> QED BY <1>2, <3>1, <3>2 DEF RecCall
    <2> QED BY <2>1, <2>2 DEF Watched
  <1>3. CASE RecFail(p)
    <2>1. RecInv' /\ TgWatched'
      BY <1>3, NoneAssumption, DisjointAssumption
           DEF RecFail, Inv, Typed, Watched, RecInv, TgWatched, PcT, UT, User, Proc, Legs,
               Guarded, LocalsOK, Placed, TgLabels, MyT, Locals, Await, At
    <2>2. Placed'
      BY <1>3, NoneAssumption, DisjointAssumption
           DEF RecFail, Inv, Typed, Watched, Placed, PcT, TgsT, TgLabels, Await, At
    <2> QED BY <2>1, <2>2 DEF Watched
  <1>4. CASE RecWin(p)
    <2>1. RecInv' /\ TgWatched'
      BY <1>4, NoneAssumption, DisjointAssumption
           DEF RecWin, Inv, Typed, Watched, RecInv, TgWatched, PcT, UT, User, Proc, Legs,
               Guarded, LocalsOK, Placed, TgLabels, MyT, Locals, Acquire, At
    <2>2. Placed'
      BY <1>4, NoneAssumption, DisjointAssumption
           DEF RecWin, Inv, Typed, Watched, Placed, PcT, TgsT, TgLabels, Acquire, PickedUp, At
    <2> QED BY <2>1, <2>2 DEF Watched
  <1>5. CASE RecAttach(p)
    <2>1. RecInv' /\ TgWatched'
      BY <1>5, NoneAssumption, DisjointAssumption
           DEF RecAttach, Inv, Typed, Watched, RecInv, TgWatched, PcT, UT, User, Proc, Legs,
               Guarded, LocalsOK, Placed, TgLabels, MyT, Locals, Locked, Turn
    <2>2. Placed'
      <3>1. pc' = [pc EXCEPT ![p] = "recUnhold", ![my[p].tg] = "watch"] /\ pc[p] = "recLock"
        BY <1>5 DEF RecAttach, Locked, Turn
      <3>2. TgsKept BY <1>5, TgsKeptBy DEF RecAttach, Inv, Typed
      <3>3. \A q \in Proc \ {p} : my'[q] = my[q] BY <1>5 DEF RecAttach, Inv, Typed, MyT
      <3> QED BY <3>1, <3>2, <3>3, PlacedWatch DEF Inv, Typed, Guarded, Watched, TgLabels
    <2> QED BY <2>1, <2>2 DEF Watched
  <1>6. CASE RecAttached(p)
    <2>1. RecInv' /\ TgWatched'
      BY <1>6, NoneAssumption, DisjointAssumption
           DEF RecAttached, Inv, Typed, Watched, RecInv, TgWatched, PcT, UT, User, Proc, Legs,
               Guarded, LocalsOK, Placed, TgLabels, MyT, Locals, Finish, Await, Attached, Turn
    <2>2. Placed'
      BY <1>6, NoneAssumption, DisjointAssumption
           DEF RecAttached, Inv, Typed, Watched, Placed, PcT, TgsT, TgLabels, MyT, Locals,
               Finish, Await, Turn
    <2> QED BY <2>1, <2>2 DEF Watched
  <1>7. CASE RecAbandon(p)
    <2>1. RecInv' /\ TgWatched'
      BY <1>7, NoneAssumption, DisjointAssumption
           DEF RecAbandon, Inv, Typed, Watched, RecInv, TgWatched, PcT, UT, User, Proc, Legs,
               Guarded, LocalsOK, Placed, TgLabels, MyT, Locals, Await, Locked, Turn
    <2>2. Placed'
      BY <1>7, TgsKeptBy, PlacedMove
           DEF RecAbandon, Inv, Typed, Guarded, Watched, TgLabels, Await, Locked, Turn
    <2> QED BY <2>1, <2>2 DEF Watched
  <1>8. CASE RecEnd(p)
    <2>1. RecInv' /\ TgWatched'
      BY <1>8, NoneAssumption, DisjointAssumption
           DEF RecEnd, Inv, Typed, Watched, RecInv, TgWatched, PcT, UT, User, Proc, Legs,
               Guarded, LocalsOK, Placed, TgLabels, MyT, Locals, Acquire, At
    <2>2. Placed'
      BY <1>8, NoneAssumption, DisjointAssumption
           DEF RecEnd, Inv, Typed, Watched, Placed, PcT, TgsT, TgLabels, Acquire, At
    <2> QED BY <2>1, <2>2 DEF Watched
  <1> QED BY <1>1, <1>2, <1>3, <1>4, <1>5, <1>6, <1>7, <1>8 DEF RecStep

\* _end_everything keeps Watched.
LEMMA EeStepWatches ==
  ASSUME Inv, Watched, NEW p \in Proc, EeStep(p)
  PROVE  Watched'
  <1>1. CASE EndEverything(p)
    <2>1. RecInv' /\ TgWatched'
      BY <1>1, NoneAssumption, DisjointAssumption
           DEF EndEverything, Inv, Typed, Watched, RecInv, TgWatched, PcT, UT, User, Proc, Legs,
               Guarded, LocalsOK, Placed, TgLabels, MyT, Locals, Locked, Turn
    <2>2. Placed'
      <3>1. pc[p] = "eeLock" BY <1>1 DEF EndEverything, Locked, Turn
      <3>2. u.reconnect # None => u.reconnect \in TgCalls /\ pc[u.reconnect] # "idle" BY SlotT
           DEF Inv, Typed, Watched, RecInv
      <3>3. \A q \in Proc : pc'[q] \in TgLabels => pc[q] \in TgLabels /\ my'[q] = my[q] BY <1>1
           DEF EndEverything, TgLabels
      <3>4. \A q \in Proc : pc[q] \in TgLabels =>
              my[q].tg \in TgCalls \ {p, u.reconnect}
        BY <3>1, <3>2, TgLocal, NoneAssumption DEF Inv, Typed, Guarded, Watched, Placed, Proc
      <3>5. \A t \in TgCalls : t # p /\ t # u.reconnect => pc'[t] = pc[t] BY <1>1
           DEF EndEverything, Proc
      <3>6. TgsKept BY <1>1, TgsKeptBy DEF EndEverything, Inv, Typed
      <3> QED BY <3>3, <3>4, <3>5, <3>6, PlacedFrame DEF Inv, Typed, Guarded, Watched
    <2> QED BY <2>1, <2>2 DEF Watched
  <1>2. CASE EeCancelled(p)
    <2>1. RecInv' /\ TgWatched'
      BY <1>2, NoneAssumption, DisjointAssumption
           DEF EeCancelled, Inv, Typed, Watched, RecInv, TgWatched, PcT, UT, User, Proc, Legs,
               GoOn, Turn
    <2>2. Placed'
      BY <1>2, NoneAssumption, DisjointAssumption
           DEF EeCancelled, Inv, Typed, Watched, Placed, PcT, TgsT, TgLabels, GoOn, Turn
    <2> QED BY <2>1, <2>2 DEF Watched
  <1>3. CASE EeLeg(p)
    <2>1. RecInv' /\ TgWatched'
      BY <1>3, NoneAssumption, DisjointAssumption
           DEF EeLeg, Inv, Typed, Watched, RecInv, TgWatched, PcT, UT, User, Proc, Legs,
               Guarded, LocalsOK, Placed, TgLabels, MyT, Locals, Either, Turn
    <2>2. Placed'
      BY <1>3, NoneAssumption, DisjointAssumption
           DEF EeLeg, Inv, Typed, Watched, Placed, PcT, TgsT, TgLabels, MyT, Locals, Either,
               Turn
    <2> QED BY <2>1, <2>2 DEF Watched
  <1>4. CASE EeTg(p)
    <2>1. RecInv' /\ TgWatched'
      BY <1>4, NoneAssumption, DisjointAssumption
           DEF EeTg, Inv, Typed, Watched, RecInv, TgWatched, PcT, UT, User, Proc, Legs, Guarded,
               LocalsOK, Placed, TgLabels, MyT, Locals, Finish, Await, Turn
    <2>2. Placed'
      BY <1>4, TgsKeptBy, PlacedFinish DEF EeTg, Inv, Typed, Guarded, Watched, TgLabels, Turn
    <2> QED BY <2>1, <2>2 DEF Watched
  <1> QED BY <1>1, <1>2, <1>3, <1>4 DEF EeStep

\* The first step of every command keeps Watched.
LEMMA CommandStartWatches ==
  ASSUME Inv, Watched, NEW p \in Cmds, CommandStart(p)
  PROVE  Watched'
  <1> p \in Proc /\ p \notin TgCalls BY DisjointAssumption DEF Proc
  <1>1. CASE Hangup(p)
    <2>1. RecInv' /\ TgWatched'
      BY <1>1, NoneAssumption, DisjointAssumption
           DEF Hangup, Inv, Typed, Watched, RecInv, TgWatched, PcT, UT, User, Proc, Legs,
               Acquire, Finish, Await, At
    <2>2. Placed'
      BY <1>1, TgsKeptBy, PlacedMove, PlacedFinish
           DEF Hangup, Inv, Typed, Guarded, Watched, TgLabels, Acquire
    <2> QED BY <2>1, <2>2 DEF Watched
  <1>2. CASE Decline(p)
    <2>1. RecInv' /\ TgWatched'
      BY <1>2, NoneAssumption, DisjointAssumption
           DEF Decline, Inv, Typed, Watched, RecInv, TgWatched, PcT, UT, User, Proc, Legs,
               Finish, Await, At
    <2>2. Placed'
      BY <1>2, TgsKeptBy, PlacedFinish DEF Decline, Inv, Typed, Guarded, Watched, TgLabels
    <2> QED BY <2>1, <2>2 DEF Watched
  <1>3. CASE Switch(p)
    <2>1. RecInv' /\ TgWatched'
      BY <1>3, NoneAssumption, DisjointAssumption
           DEF Switch, Inv, Typed, Watched, RecInv, TgWatched, PcT, UT, User, Proc, Legs,
               Acquire, At
    <2>2. Placed'
      BY <1>3, TgsKeptBy, PlacedMove DEF Switch, Inv, Typed, Guarded, Watched, TgLabels, Acquire
    <2> QED BY <2>1, <2>2 DEF Watched
  <1>4. CASE Consult(p)
    <2>1. RecInv' /\ TgWatched'
      BY <1>4, NoneAssumption, DisjointAssumption
           DEF Consult, Inv, Typed, Watched, RecInv, TgWatched, PcT, UT, User, Proc, Legs,
               Reserve, At
    <2>2. Placed'
      BY <1>4, TgsKeptBy, PlacedReserve
           DEF Consult, Inv, Typed, Guarded, Watched, TgLabels, Command, At
    <2> QED BY <2>1, <2>2 DEF Watched
  <1>5. CASE Callback(p)
    <2>1. RecInv' /\ TgWatched'
      BY <1>5, NoneAssumption, DisjointAssumption
           DEF Callback, Inv, Typed, Watched, RecInv, TgWatched, PcT, UT, User, Proc, Legs,
               Reserve, At
    <2>2. Placed'
      BY <1>5, TgsKeptBy, PlacedReserve
           DEF Callback, Inv, Typed, Guarded, Watched, TgLabels, Command, At
    <2> QED BY <2>1, <2>2 DEF Watched
  <1>6. CASE Transfer(p)
    <2>1. RecInv' /\ TgWatched'
      BY <1>6, NoneAssumption, DisjointAssumption
           DEF Transfer, Inv, Typed, Watched, RecInv, TgWatched, PcT, UT, User, Proc, Legs,
               Acquire, At
    <2>2. Placed'
      BY <1>6, TgsKeptBy, PlacedMove
           DEF Transfer, Inv, Typed, Guarded, Watched, TgLabels, Acquire
    <2> QED BY <2>1, <2>2 DEF Watched
  <1>7. CASE Conference(p)
    <2>1. RecInv' /\ TgWatched'
      BY <1>7, NoneAssumption, DisjointAssumption
           DEF Conference, Inv, Typed, Watched, RecInv, TgWatched, PcT, UT, User, Proc, Legs, At
    <2>2. Placed'
      <3>1. PICK l \in OutLegs :
                 /\ my' = [my EXCEPT ![p].leg = l, ![p].todo = Some(u.held) \o <<u.active>>]
                 /\ pc' = [pc EXCEPT ![p] = "confRefer", ![l] = "reserved"]
        BY <1>7 DEF Conference
      <3>2. \A q \in Proc : pc'[q] \in TgLabels => pc[q] \in TgLabels /\ my'[q] = my[q] BY <3>1
           DEF Inv, Typed, PcT, MyT, TgLabels
      <3>3. \A t \in TgCalls : pc'[t] = pc[t] BY <3>1, DisjointAssumption
           DEF Inv, Typed, PcT, Proc, Legs
      <3> QED BY <1>7, <3>2, <3>3, TgLocal, TgsKeptBy, PlacedFrame
           DEF Conference, Inv, Typed, Guarded, Watched
    <2> QED BY <2>1, <2>2 DEF Watched
  <1> QED BY <1>1, <1>2, <1>3, <1>4, <1>5, <1>6, <1>7 DEF CommandStart

\* _switch keeps Watched.
LEMMA SwitchStepWatches ==
  ASSUME Inv, Watched, NEW p \in Cmds, SwitchStep(p)
  PROVE  Watched'
  <1> p \in Proc /\ p \notin TgCalls BY DisjointAssumption DEF Proc
  <1>1. CASE SwitchToWaiting(p)
    <2>1. RecInv' /\ TgWatched'
      BY <1>1, NoneAssumption, DisjointAssumption
           DEF SwitchToWaiting, Inv, Typed, Watched, RecInv, TgWatched, PcT, UT, User, Proc,
               Legs, AfterReinvite, Locked, Turn
    <2>2. Placed'
      BY <1>1, NoneAssumption, DisjointAssumption
           DEF SwitchToWaiting, Inv, Typed, Watched, Placed, PcT, TgsT, TgLabels, MyT, Locals,
               AfterReinvite, Locked, Turn
    <2> QED BY <2>1, <2>2 DEF Watched
  <1>2. CASE SwitchedToWaiting(p)
    <2>1. RecInv' /\ TgWatched'
      BY <1>2, NoneAssumption, DisjointAssumption
           DEF SwitchedToWaiting, Inv, Typed, Watched, RecInv, TgWatched, PcT, UT, User, Proc,
               Legs, Guarded, LocalsOK, Placed, TgLabels, MyT, Locals, Await, Attached, Turn
    <2>2. Placed'
      BY <1>2, NoneAssumption, DisjointAssumption
           DEF SwitchedToWaiting, Inv, Typed, Watched, Placed, PcT, TgsT, TgLabels, Await, Turn
    <2> QED BY <2>1, <2>2 DEF Watched
  <1>3. CASE SwitchToHeld(p)
    <2>1. RecInv' /\ TgWatched'
      BY <1>3, NoneAssumption, DisjointAssumption
           DEF SwitchToHeld, Inv, Typed, Watched, RecInv, TgWatched, PcT, UT, User, Proc, Legs,
               Either, Locked, Turn
    <2>2. Placed'
      BY <1>3, NoneAssumption, DisjointAssumption
           DEF SwitchToHeld, Inv, Typed, Watched, Placed, PcT, TgsT, TgLabels, MyT, Locals,
               Either, Locked, Turn
    <2> QED BY <2>1, <2>2 DEF Watched
  <1>4. CASE SwitchedToHeld(p)
    <2>1. RecInv' /\ TgWatched'
      BY <1>4, NoneAssumption, DisjointAssumption
           DEF SwitchedToHeld, Inv, Typed, Watched, RecInv, TgWatched, PcT, UT, User, Proc,
               Legs, Guarded, LocalsOK, Placed, TgLabels, MyT, Locals, Await, Attached, Turn
    <2>2. Placed'
      BY <1>4, NoneAssumption, DisjointAssumption
           DEF SwitchedToHeld, Inv, Typed, Watched, Placed, PcT, TgsT, TgLabels, Await, Turn
    <2> QED BY <2>1, <2>2 DEF Watched
  <1> QED BY <1>1, <1>2, <1>3, <1>4 DEF SwitchStep

\* _dial and _dial_direct keep Watched.
LEMMA DialStepWatches ==
  ASSUME Inv, Watched, NEW p \in Cmds, DialStep(p)
  PROVE  Watched'
  <1> p \in Proc /\ p \notin TgCalls BY DisjointAssumption DEF Proc
  <1>1. CASE ConsultHold(p)
    <2>1. RecInv' /\ TgWatched'
      BY <1>1, NoneAssumption, DisjointAssumption
           DEF ConsultHold, Inv, Typed, Watched, RecInv, TgWatched, PcT, UT, User, Proc, Legs,
               AfterReinvite, Locked, Turn
    <2>2. Placed'
      BY <1>1, NoneAssumption, DisjointAssumption
           DEF ConsultHold, Inv, Typed, Watched, Placed, PcT, TgsT, TgLabels, MyT, Locals,
               AfterReinvite, Locked, Turn
    <2> QED BY <2>1, <2>2 DEF Watched
  <1>2. CASE ConsultRaise(p)
    <2>1. RecInv' /\ TgWatched'
      BY <1>2, NoneAssumption, DisjointAssumption
           DEF ConsultRaise, Inv, Typed, Watched, RecInv, TgWatched, PcT, UT, User, Proc, Legs,
               Guarded, LocalsOK, Placed, TgLabels, MyT, Locals, HandOver, Locked, Turn
    <2>2. Placed'
      BY <1>2, TgsKeptBy, PlacedHandOver
           DEF ConsultRaise, Inv, Typed, Guarded, Watched, TgLabels
    <2> QED BY <2>1, <2>2 DEF Watched
  <1>3. CASE ConsultHeld(p)
    <2>1. RecInv' /\ TgWatched'
      BY <1>3, NoneAssumption, DisjointAssumption
           DEF ConsultHeld, Inv, Typed, Watched, RecInv, TgWatched, PcT, UT, User, Proc, Legs,
               Guarded, LocalsOK, Placed, TgLabels, MyT, Locals, HandOver, Turn
    <2>2. Placed'
      BY <1>3, TgsKeptBy, PlacedHandOver DEF ConsultHeld, Inv, Typed, Guarded, Watched, TgLabels
    <2> QED BY <2>1, <2>2 DEF Watched
  <1>4. CASE CbCall(p)
    <2>1. RecInv' /\ TgWatched'
      BY <1>4, NoneAssumption, DisjointAssumption
           DEF CbCall, Inv, Typed, Watched, RecInv, TgWatched, PcT, UT, User, Proc, Legs,
               Guarded, LocalsOK, Placed, TgLabels, MyT, Locals, Await, At
    <2>2. Placed'
      <3>1. PICK t \in TgCalls : /\ Fresh(t) /\ tgs' = [tgs EXCEPT ![t] = "setup"]
                                 /\ \/ my' = [my EXCEPT ![p].tg = t]
                                    \/ my' = [my EXCEPT ![p].tg = t, ![p].todo = <<my[p].leg>>]
        BY <1>4 DEF CbCall
      <3>2. my'[p].tg = t /\ \A q \in Proc \ {p} : my'[q] = my[q] BY <3>1
           DEF Inv, Typed, MyT, Locals
      <3>3. pc' = [pc EXCEPT ![p] = "cbCalling"] BY <1>4 DEF CbCall, Await
      <3> QED BY <3>1, <3>2, <3>3, PlacedNew DEF Inv, Typed, Guarded, Watched
    <2> QED BY <2>1, <2>2 DEF Watched
  <1>5. CASE CbFail(p)
    <2>1. RecInv' /\ TgWatched'
      BY <1>5, NoneAssumption, DisjointAssumption
           DEF CbFail, Inv, Typed, Watched, RecInv, TgWatched, PcT, UT, User, Proc, Legs,
               Guarded, LocalsOK, Placed, TgLabels, MyT, Locals, HandOver, At
    <2>2. Placed'
      BY <1>5, TgsKeptBy, PlacedHandOver DEF CbFail, Inv, Typed, Guarded, Watched, TgLabels
    <2> QED BY <2>1, <2>2 DEF Watched
  <1>6. CASE CbWin(p)
    <2>1. RecInv' /\ TgWatched'
      BY <1>6, NoneAssumption, DisjointAssumption
           DEF CbWin, Inv, Typed, Watched, RecInv, TgWatched, PcT, UT, User, Proc, Legs,
               Guarded, LocalsOK, Placed, TgLabels, MyT, Locals, Acquire, At
    <2>2. Placed'
      BY <1>6, NoneAssumption, DisjointAssumption
           DEF CbWin, Inv, Typed, Watched, Placed, PcT, TgsT, TgLabels, Acquire, PickedUp, At
    <2> QED BY <2>1, <2>2 DEF Watched
  <1>7. CASE CbConnected(p)
    <2>1. RecInv' /\ TgWatched'
      BY <1>7, NoneAssumption, DisjointAssumption
           DEF CbConnected, Inv, Typed, Watched, RecInv, TgWatched, PcT, UT, User, Proc, Legs,
               Guarded, LocalsOK, Placed, TgLabels, MyT, Locals, Locked, Turn
    <2>2. Placed'
      <3>1. /\ pc' = [pc EXCEPT ![p] = "done", ![my[p].tg] = "watch", ![my[p].leg] = "invite"]
            /\ pc[p] = "cbLock"
        BY <1>7 DEF CbConnected, Locked, Turn
      <3>2. TgsKept BY <1>7, TgsKeptBy DEF CbConnected, Inv, Typed
      <3>3. \A q \in Proc \ {p} : my'[q] = my[q] BY <1>7 DEF CbConnected, Inv, Typed, MyT
      <3> QED BY <3>1, <3>2, <3>3, PlacedWatchLeg DEF Inv, Typed, Guarded, Watched, TgLabels
    <2> QED BY <2>1, <2>2 DEF Watched
  <1>8. CASE DirectAttach(p)
    <2>1. RecInv' /\ TgWatched'
      BY <1>8, NoneAssumption, DisjointAssumption
           DEF DirectAttach, Inv, Typed, Watched, RecInv, TgWatched, PcT, UT, User, Proc, Legs,
               Guarded, LocalsOK, Placed, TgLabels, MyT, Locals, Attached, Locked, Turn
    <2>2. Placed'
      <3>1. /\ pc' = [pc EXCEPT ![p] = "done", ![my[p].tg] = "watch", ![my[p].leg] = "watch"]
            /\ pc[p] = "cbLock"
        BY <1>8 DEF DirectAttach, Locked, Turn
      <3>2. TgsKept BY <1>8, TgsKeptBy DEF DirectAttach, Inv, Typed
      <3>3. \A q \in Proc \ {p} : my'[q] = my[q] BY <1>8 DEF DirectAttach, Inv, Typed, MyT
      <3> QED BY <3>1, <3>2, <3>3, PlacedWatchLeg DEF Inv, Typed, Guarded, Watched, TgLabels
    <2> QED BY <2>1, <2>2 DEF Watched
  <1>9. CASE DirectLost(p)
    <2>1. RecInv' /\ TgWatched'
      BY <1>9, NoneAssumption, DisjointAssumption
           DEF DirectLost, Inv, Typed, Watched, RecInv, TgWatched, PcT, UT, User, Proc, Legs,
               Guarded, LocalsOK, Placed, TgLabels, MyT, Locals, Locked, Turn
    <2>2. Placed'
      <3>1. /\ pc' = [pc EXCEPT ![p] = "dirHang", ![my[p].tg] = "watch", ![my[p].leg] = "done"]
            /\ pc[p] = "cbLock"
        BY <1>9 DEF DirectLost, Locked, Turn
      <3>2. TgsKept BY <1>9, TgsKeptBy DEF DirectLost, Inv, Typed
      <3>3. \A q \in Proc \ {p} : my'[q] = my[q] BY <1>9 DEF DirectLost, Inv, Typed, MyT
      <3> QED BY <3>1, <3>2, <3>3, PlacedWatchLeg DEF Inv, Typed, Guarded, Watched, TgLabels
    <2> QED BY <2>1, <2>2 DEF Watched
  <1> QED BY <1>1, <1>2, <1>3, <1>4, <1>5, <1>6, <1>7, <1>8, <1>9 DEF DialStep

\* _transfer and _conference keep Watched.
LEMMA MoveStepWatches ==
  ASSUME Inv, Watched, NEW p \in Cmds, MoveStep(p)
  PROVE  Watched'
  <1> p \in Proc /\ p \notin TgCalls BY DisjointAssumption DEF Proc
  <1>1. CASE TransferLegs(p)
    <2>1. RecInv' /\ TgWatched'
      BY <1>1, NoneAssumption, DisjointAssumption
           DEF TransferLegs, Inv, Typed, Watched, RecInv, TgWatched, PcT, UT, User, Proc, Legs,
               AfterReinvite, Locked, Turn
    <2>2. Placed'
      BY <1>1, NoneAssumption, DisjointAssumption
           DEF TransferLegs, Inv, Typed, Watched, Placed, PcT, TgsT, TgLabels, MyT, Locals,
               AfterReinvite, Locked, Turn
    <2> QED BY <2>1, <2>2 DEF Watched
  <1>2. CASE Transferred(p)
    <2>1. RecInv' /\ TgWatched'
      BY <1>2, NoneAssumption, DisjointAssumption
           DEF Transferred, Inv, Typed, Watched, RecInv, TgWatched, PcT, UT, User, Proc, Legs,
               Guarded, LocalsOK, Placed, TgLabels, MyT, Locals, Finish, Await, Turn
    <2>2. Placed'
      BY <1>2, TgsKeptBy, PlacedFinish DEF Transferred, Inv, Typed, Guarded, Watched, TgLabels
    <2> QED BY <2>1, <2>2 DEF Watched
  <1>3. CASE ConfRefer(p)
    <2>1. RecInv' /\ TgWatched'
      BY <1>3, NoneAssumption, DisjointAssumption
           DEF ConfRefer, Inv, Typed, Watched, RecInv, TgWatched, PcT, UT, User, Proc, Legs,
               Guarded, LocalsOK, Placed, TgLabels, MyT, Locals, HandOver, Await, At
    <2>2. Placed'
      <3>1. CASE HandOver(p, "done")
        BY <1>3, <3>1, TgsKeptBy, PlacedHandOver
             DEF ConfRefer, Inv, Typed, Guarded, Watched, TgLabels
      <3>2. CASE my' = [my EXCEPT ![p].todo = Tail(@)] /\ Await(p, "confRefer")
        BY <1>3, <3>2, TgsKeptBy, PlacedMove
             DEF ConfRefer, Await, Inv, Typed, MyT, Guarded, Watched, TgLabels
      <3> QED BY <1>3, <3>1, <3>2 DEF ConfRefer
    <2> QED BY <2>1, <2>2 DEF Watched
  <1>4. CASE ConfMoved(p)
    <2>1. RecInv' /\ TgWatched'
      BY <1>4, NoneAssumption, DisjointAssumption
           DEF ConfMoved, Inv, Typed, Watched, RecInv, TgWatched, PcT, UT, User, Proc, Legs,
               Guarded, LocalsOK, Placed, TgLabels, MyT, Locals, Acquire, At
    <2>2. Placed'
      BY <1>4, NoneAssumption, DisjointAssumption
           DEF ConfMoved, Inv, Typed, Watched, Placed, PcT, TgsT, TgLabels, Acquire, At
    <2> QED BY <2>1, <2>2 DEF Watched
  <1>5. CASE ConfJoin(p)
    <2>1. RecInv' /\ TgWatched'
      BY <1>5, NoneAssumption, DisjointAssumption
           DEF ConfJoin, Inv, Typed, Watched, RecInv, TgWatched, PcT, UT, User, Proc, Legs,
               Guarded, LocalsOK, Placed, TgLabels, MyT, Locals, Locked, Turn
    <2>2. Placed'
      <3>1. my[p].leg \in Legs \cup {None} BY LocalT DEF Inv, Typed
      <3>2. \A q \in Proc : pc'[q] \in TgLabels => pc[q] \in TgLabels /\ my'[q] = my[q] BY <1>5
           DEF ConfJoin, Inv, Typed, PcT, MyT, TgLabels
      <3>3. \A t \in TgCalls : pc'[t] = pc[t] BY <1>5, <3>1, DisjointAssumption, NoneAssumption
           DEF ConfJoin, Inv, Typed, PcT, Proc
      <3> QED BY <1>5, <3>2, <3>3, TgLocal, TgsKeptBy, PlacedFrame
           DEF ConfJoin, Inv, Typed, Guarded, Watched
    <2> QED BY <2>1, <2>2 DEF Watched
  <1> QED BY <1>1, <1>2, <1>3, <1>4, <1>5 DEF MoveStep

\* The end of "async with u.lock".
LEMMA UnlockWatches ==
  ASSUME Inv, Watched, NEW p \in Proc, Unlock(p)
  PROVE  Watched'
  <1>1. RecInv' /\ TgWatched'
    BY NoneAssumption, DisjointAssumption
         DEF Unlock, Inv, Typed, Watched, RecInv, TgWatched, PcT, UT, User, Proc, Legs, Guarded,
             LocalsOK, Placed, TgLabels, MyT, Locals, Finish, Await, Turn, At, NothingToDo,
             Locked
  <1>2. Placed'
    BY NoneAssumption, DisjointAssumption
         DEF Unlock, Inv, Typed, Watched, Placed, PcT, TgsT, TgLabels, MyT, Locals, Finish,
             Await, Turn, At, NothingToDo, Locked
  <1> QED BY <1>1, <1>2 DEF Watched

\* A notification that raises.
LEMMA NotifyRaiseWatches ==
  ASSUME Inv, Watched, NEW p \in Proc, NotifyRaise(p)
  PROVE  Watched'
  <1>1. RecInv' /\ TgWatched'
    <2>1. pc[p] \notin {"watch", "tgEndLock"} BY DEF NotifyRaise, NotifyLabels
    <2>2. my[p].leg \in Legs \cup {None} BY LocalT DEF Inv, Typed
    <2>3. \A t \in TgCalls : (t # p => pc'[t] = pc[t]) /\ (t = p => pc'[t] = "done")
      <3>1. CASE Finish(p) BY <3>1 DEF Finish, Await, Inv, Typed, PcT, Proc
      <3>2. CASE HandOver(p, "done") BY <2>2, <3>2, DisjointAssumption, NoneAssumption
           DEF HandOver, Inv, Typed, PcT, Proc
      <3> QED BY <3>1, <3>2 DEF NotifyRaise
    <2>4. u' = u BY DEF NotifyRaise
    <2> QED BY <2>1, <2>3, <2>4, SlotT, NoneAssumption
         DEF RecInv, TgWatched, Watched, Inv, Typed, Proc
  <1>2. Placed'
    BY TgsKeptBy, PlacedHandOver, PlacedFinish
         DEF NotifyRaise, Inv, Typed, Guarded, Watched, TgLabels, NotifyLabels
  <1> QED BY <1>1, <1>2 DEF Watched

\* The environment.
LEMMA ArriveWatches ==
  ASSUME Inv, Watched, NEW p \in InLegs, Arrive(p)
  PROVE  Watched'
  <1> p \in Legs /\ p \in Proc /\ p \notin TgCalls BY DisjointAssumption DEF Legs, Proc
  <1>1. RecInv' /\ TgWatched'
    BY NoneAssumption, DisjointAssumption
         DEF Arrive, Inv, Typed, Watched, RecInv, TgWatched, PcT, UT, User, Proc, Legs, Either,
             At
  <1>2. Placed'
    BY TgsKeptBy, PlacedMove DEF Arrive, Inv, Typed, Guarded, Watched, TgLabels, Either
  <1> QED BY <1>1, <1>2 DEF Watched

LEMMA SipAnswersWatches ==
  ASSUME Inv, Watched, NEW p \in OutLegs, SipAnswers(p)
  PROVE  Watched'
  <1> p \in Legs /\ p \in Proc /\ p \notin TgCalls BY DisjointAssumption DEF Legs, Proc
  <1>1. RecInv' /\ TgWatched'
    BY NoneAssumption, DisjointAssumption
         DEF SipAnswers, Inv, Typed, Watched, RecInv, TgWatched, PcT, UT, User, Proc, Legs
  <1>2. Placed'
    BY NoneAssumption, DisjointAssumption
         DEF SipAnswers, Inv, Typed, Watched, Placed, PcT, TgsT, TgLabels
  <1> QED BY <1>1, <1>2 DEF Watched

LEMMA SipEndsWatches ==
  ASSUME Inv, Watched, NEW p \in Legs, SipEnds(p)
  PROVE  Watched'
  <1> p \in Proc /\ p \notin TgCalls BY DisjointAssumption DEF Proc
  <1>1. RecInv' /\ TgWatched'
    BY NoneAssumption, DisjointAssumption
         DEF SipEnds, Inv, Typed, Watched, RecInv, TgWatched, PcT, UT, User, Proc, Legs
  <1>2. Placed'
    BY NoneAssumption, DisjointAssumption
         DEF SipEnds, Inv, Typed, Watched, Placed, PcT, TgsT, TgLabels
  <1> QED BY <1>1, <1>2 DEF Watched

LEMMA TgIncomingWatches ==
  ASSUME Inv, Watched, NEW p \in TgCalls, TgIncoming(p)
  PROVE  Watched'
  <1> p \in Proc BY DEF Proc
  <1>1. RecInv' /\ TgWatched'
    BY NoneAssumption, DisjointAssumption
         DEF TgIncoming, Inv, Typed, Watched, RecInv, TgWatched, PcT, UT, User, Proc, Legs,
             Reserve, At
  <1>2. Placed'
    <2>1. TgsKept BY DEF TgIncoming, TgsKept, Inv, Typed, TgsT
    <2> QED BY <2>1, PlacedReserve
         DEF TgIncoming, At, Fresh, Inv, Typed, Guarded, Watched, TgLabels
  <1> QED BY <1>1, <1>2 DEF Watched

LEMMA TgDeclineWatches ==
  ASSUME Inv, Watched, NEW p \in TgCalls, TgDecline(p)
  PROVE  Watched'
  <1> p \in Proc BY DEF Proc
  <1>1. RecInv' /\ TgWatched'
    BY NoneAssumption, DisjointAssumption
         DEF TgDecline, Inv, Typed, Watched, RecInv, TgWatched, PcT, UT, User, Proc, Legs,
             Finish, Await, At
  <1>2. Placed'
    BY NoneAssumption, DisjointAssumption
         DEF TgDecline, Inv, Typed, Watched, Placed, PcT, TgsT, TgLabels, MyT, Locals, Finish,
             Await, Fresh, At
  <1> QED BY <1>1, <1>2 DEF Watched

LEMMA TgEndsWatches ==
  ASSUME Inv, Watched, NEW p \in TgCalls, TgEnds(p)
  PROVE  Watched'
  <1> p \in Proc BY DEF Proc
  <1>1. RecInv' /\ TgWatched'
    BY NoneAssumption, DisjointAssumption
         DEF TgEnds, Inv, Typed, Watched, RecInv, TgWatched, PcT, UT, User, Proc, Legs
  <1>2. Placed'
    BY NoneAssumption, DisjointAssumption
         DEF TgEnds, Inv, Typed, Watched, Placed, PcT, TgsT, TgLabels
  <1> QED BY <1>1, <1>2 DEF Watched

LEMMA PairEndedWatches ==
  ASSUME Watched, NEW p \in pairs, PairEnded(p)
  PROVE  Watched'
  <1>1. UNCHANGED <<tgs, u, pc, my>> BY DEF PairEnded
  <1> QED BY <1>1 DEF Watched, Placed, RecInv, TgWatched

-----------------------------------------------------------------------------
(* The theorem.                                                            *)

LEMMA InitWatched == Init => Watched
  BY DEF Init, Watched, Placed, RecInv, TgWatched, TgLabels

LEMMA NextWatches == Inv /\ Watched /\ [Next]_vars => Watched'
  <1> SUFFICES ASSUME Inv, Watched, [Next]_vars PROVE Watched' OBVIOUS
  <1>1. ASSUME NEW p \in Proc, SystemStep(p) PROVE Watched'
    BY <1>1, InLegStepWatches, OutLegStepWatches, LegStepWatches, TgStepWatches,
       RecStepWatches, SwitchStepWatches, DialStepWatches, MoveStepWatches, EeStepWatches,
       UnlockWatches DEF SystemStep
  <1>2. ASSUME NEW p \in Proc, EnvironmentStep(p) PROVE Watched'
    BY <1>2, ArriveWatches, SipAnswersWatches, SipEndsWatches, TgIncomingWatches,
       TgDeclineWatches, TgEndsWatches, CommandStartWatches, NotifyRaiseWatches
       DEF EnvironmentStep
  <1>3. CASE \E p \in pairs : PairEnded(p)
    BY <1>3, PairEndedWatches
  <1>4. CASE UNCHANGED vars
    BY <1>4 DEF vars, Watched, Placed, RecInv, TgWatched
  <1> QED BY <1>1, <1>2, <1>3, <1>4 DEF Next, Quiet

\* Whatever calls, hangups, commands, failures and reconnections interleave, the Telegram call
\* in UserState.tg has a task that will see its end (_watch_tg): the user is never left busy
\* with a call that is over.
THEOREM TgIsWatched == Spec => []TgWatched
  <1>1. Inv /\ Watched /\ [Next]_vars => (Inv /\ Watched)'
    BY NextKeeps, NextWatches
  <1>2. Init => Inv /\ Watched
    BY InitInv, InitWatched
  <1>3. Inv /\ Watched => TgWatched
    BY DEF Watched
  <1> QED BY <1>1, <1>2, <1>3, PTL DEF Spec

=============================================================================
