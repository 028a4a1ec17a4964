--------------------------- MODULE UserCallsQueue ---------------------------
(***************************************************************************)
(* Proofs about the tasks of a user as a whole, for any number of calls    *)
(* and commands: no task waits for the lock it holds, tg_pending has a     *)
(* task behind it, a connected user is served, and no live Telegram call   *)
(* loses its place to another live one.                                    *)
(*                                                                         *)
(* These say nothing about one handler, they say what the tasks together   *)
(* cannot do, so the argument is split in two.  "Moves" says what a step   *)
(* of one task may do to the other tasks, to the queue and to the          *)
(* Telegram calls; it is shown once for every action.  The invariants      *)
(* follow from Moves alone, without looking at the actions again.          *)
(***************************************************************************)
EXTENDS UserCallsWatch

-----------------------------------------------------------------------------
(* The inductive invariant.                                                *)

\* Where a task has set a leg aside, where it has a place in the queue, where it works on a
\* reconnection, and where it will see that a connected user hears something.
ResLabels   == {"accepting", "accLock", "consLock", "consHold", "cbNotify", "cbCalling",
                "cbLock", "confRefer", "confLock"}
QueueLabels == LockLabel \cup HoldLabel
RecLabels   == {"recStart", "recHold", "recCalling", "recLock", "recFailed", "recHang",
                "recUnhold"}
ServeLabels == {"invite", "invite2", "dialLock", "dialFailed", "dialFailed2", "dialUnhold",
                "eeLock", "endNext", "endUnhold"}
BackLabels  == {"ringNotify", "ringing", "ringFailed", "ringCancel", "accepting", "accLock",
                "cbNotify", "cbCalling", "cbLock", "recCalling", "recLock", "eeCancel"}

\* A leg that is set aside belongs to one task and does nothing itself.
Reserved == \A p \in Proc : pc[p] \in ResLabels =>
    /\ my[p].leg \in OutLegs /\ pc[my[p].leg] = "reserved"
    /\ \A q \in Proc : pc[q] \in ResLabels /\ my[q].leg = my[p].leg => q = p

\* The queue holds exactly the tasks that wait for the lock or hold it, the holder once.
InQueue    == \A p \in Proc : pc[p] \in QueueLabels => \E i \in 1..Len(lockq) : lockq[i] = p
OnlyQueued == \A i \in 1..Len(lockq) : pc[lockq[i]] \in QueueLabels
HeldOnce   == \A p \in Proc : pc[p] \in HoldLabel => \A i \in 2..Len(lockq) : lockq[i] # p

\* TgCallEngine has one call of the user, and the calls in use are not new ones.
LiveTg  == {"setup", "up", "closing"}
OneLive == \A s, t \in TgCalls : tgs[s] \in LiveTg /\ tgs[t] \in LiveTg => s = t
Begun   == /\ u.tg # None => tgs[u.tg] # "none"
           /\ \A t \in TgCalls : pc[t] \in {"accepting", "accLock"} => tgs[t] # "none"

Orderly == Reserved /\ InQueue /\ OnlyQueued /\ HeldOnce /\ OneLive /\ Begun

\* A connected user has an active leg or a task that will attach one or end the call.
Served == u.tg # None /\ tgs[u.tg] = "up" =>
    u.active # None \/ \E p \in Proc : pc[p] \in ServeLabels

\* Without reconnection there is none.
NoRec == u.reconnect = None /\ \A p \in Proc : pc[p] \notin RecLabels

-----------------------------------------------------------------------------
(* What a step of the task p may do.                                       *)

\* To the other tasks: nothing, start one that was set aside, or cancel the reconnection.
Untouched(q) == pc'[q] = pc[q] /\ my'[q] = my[q]
Begins(p, q) ==
    /\ my'[q] = my[q]
    /\ \/ pc[q] = "idle" /\ pc'[q] \in {"reserved", "watch"}
       \/ /\ pc[q] = "reserved" /\ pc'[q] \in {"invite", "invite2", "watch", "done"}
          /\ pc[p] \in ResLabels /\ pc'[p] \notin ResLabels /\ q = my[p].leg
Cancels(p, q) ==
    /\ pc[p] = "eeLock"
    /\ \/ pc[q] \in {"recStart", "recHold", "recCalling", "done"} /\ pc'[q] = "done"
       \/ pc[q] = "recLock" /\ pc'[q] = "cancelled"
OthersMove(p) == \A q \in Proc \ {p} : Untouched(q) \/ Begins(p, q) \/ Cancels(p, q)

\* To the leg it has set aside.
ResMove(p) ==
    /\ pc[p] # "reserved"
    /\ pc'[p] \in ResLabels =>
         \/ pc[p] \in ResLabels /\ my'[p].leg = my[p].leg
         \/ \E l \in OutLegs : pc[l] = "idle" /\ my'[p].leg = l /\ pc'[l] = "reserved"

\* To the queue: nothing, join it, leave it, or leave it and join it again.
LockMove(p) ==
    \/ /\ lockq' = lockq /\ (pc'[p] \in QueueLabels <=> pc[p] \in QueueLabels)
       /\ pc'[p] \in HoldLabel => pc[p] \in HoldLabel \/ HasLock(p)
    \/ /\ lockq' = Append(lockq, p) /\ pc'[p] \in LockLabel
       /\ pc[p] \notin QueueLabels \/ pc[p] = "recHang"
    \/ /\ lockq # <<>> /\ lockq' = Tail(lockq) /\ pc'[p] \notin QueueLabels
       /\ HasLock(p) \/ pc[p] \in HoldLabel
    \/ HasLock(p) /\ lockq' = Append(Tail(lockq), p) /\ pc'[p] \in LockLabel

\* To the Telegram calls: one new one if the engine has none, or the next state of some.
TgsMove(p) ==
    /\ TgsKept
    /\ \/ \A t \in TgCalls : tgs'[t] \in LiveTg => tgs[t] \in LiveTg
       \/ EngineFree /\ \E t \in TgCalls : \A s \in TgCalls \ {t} : tgs'[s] = tgs[s]
    /\ \A t \in TgCalls : tgs'[t] = "up" =>
         \/ tgs[t] = "up"
         \/ t = p /\ pc[p] = "accepting"
         \/ t = my[p].tg /\ pc[p] \in TgLabels
    /\ p \in TgCalls /\ pc'[p] \in {"accepting", "accLock"} => tgs'[p] # "none"

\* To u.tg: it becomes the call this task has placed or accepted.
TgMove(p) ==
    \/ u'.tg \in {u.tg, None}
    \/ pc[p] \in TgLabels /\ u'.tg = my[p].tg
    \/ p \in TgCalls /\ pc[p] = "accLock" /\ u'.tg = p

\* To the reconnection.
RecMove(p) == Reconnect = FALSE =>
    /\ pc'[p] \in RecLabels => pc[p] \in RecLabels
    /\ u'.reconnect \in {u.reconnect, None}

\* To tg_pending: a task that leaves it set is behind it, or never was.
PendMove(p) == u'.pending =>
    \/ pc'[p] \in BackLabels
    \/ u.pending /\ pc[p] \notin BackLabels \cup {"eeLock"}

\* To what a connected user hears.
ServeMove(p) == u'.tg # None /\ tgs'[u'.tg] = "up" =>
    \/ u'.active # None
    \/ \E q \in Proc : pc'[q] \in ServeLabels
    \/ u'.tg = u.tg /\ u'.active = u.active /\ pc[p] \notin ServeLabels

\* Or no task moves: a far end does something, a timer fires.
Still ==
    /\ UNCHANGED <<u, lockq, pc, my>>
    /\ \A t \in TgCalls : tgs'[t] = tgs[t] \/ (tgs[t] # "none" /\ tgs'[t] = "ended")

Moves(p) == /\ OthersMove(p) /\ ResMove(p) /\ LockMove(p)
            /\ TgsMove(p) /\ TgMove(p) /\ RecMove(p)
Keeps(p) == PendMove(p) /\ ServeMove(p)

-----------------------------------------------------------------------------
(* What follows from it.                                                   *)

LEMMA QueueNone ==
  /\ \A l \in {"idle", "reserved", "watch", "invite", "invite2", "done", "recStart", "recHold",
               "recCalling"} : l \notin QueueLabels
  /\ {"recLock", "cancelled"} \subseteq QueueLabels \ HoldLabel
  BY DEF QueueLabels, LockLabel, HoldLabel

LEMMA ReservedMoves ==
  ASSUME PcT, MyT, Reserved, NEW p \in Proc, OthersMove(p), ResMove(p)
  PROVE  Reserved'
  <1>1. OutLegs \subseteq Proc BY DEF Proc, Legs
  <1>2. ASSUME NEW q \in Proc, q # p, pc'[q] \in ResLabels
        PROVE  pc[q] \in ResLabels /\ my'[q] = my[q]
    BY <1>2 DEF OthersMove, Untouched, Begins, Cancels, ResLabels
  <1>3. ASSUME NEW q \in Proc, q # p, pc'[q] \in ResLabels
        PROVE  pc'[my[q].leg] = "reserved"
    <2>1. my[q].leg \in OutLegs /\ pc[my[q].leg] = "reserved" BY <1>2, <1>3 DEF Reserved
    <2>2. my[q].leg \in Proc \ {p} BY <1>1, <2>1 DEF ResMove
    <2>3. pc[p] \in ResLabels => my[q].leg # my[p].leg BY <1>2, <1>3 DEF Reserved
    <2> QED BY <2>1, <2>2, <2>3 DEF OthersMove, Untouched, Begins, Cancels
  <1>4. ASSUME pc'[p] \in ResLabels
        PROVE  /\ my'[p].leg \in OutLegs /\ pc'[my'[p].leg] = "reserved"
               /\ \A q \in Proc \ {p} : pc[q] \in ResLabels => my[q].leg # my'[p].leg
    <2>1. CASE pc[p] \in ResLabels /\ my'[p].leg = my[p].leg
      <3>1. my[p].leg \in OutLegs /\ pc[my[p].leg] = "reserved" BY <2>1 DEF Reserved
      <3>2. my[p].leg \in Proc \ {p} BY <1>1, <3>1 DEF ResMove
      <3>3. pc'[my[p].leg] = "reserved" BY <1>4, <3>1, <3>2
           DEF OthersMove, Untouched, Begins, Cancels
      <3> QED BY <2>1, <3>1, <3>3 DEF Reserved
    <2>2. CASE \E l \in OutLegs : pc[l] = "idle" /\ my'[p].leg = l /\ pc'[l] = "reserved"
      BY <2>2 DEF Reserved
    <2> QED BY <1>4, <2>1, <2>2 DEF ResMove
  <1> QED BY <1>2, <1>3, <1>4 DEF Reserved

LEMMA QueueMoves ==
  ASSUME PcT, LockT, LockHeld, InQueue, OnlyQueued, HeldOnce, NEW p \in Proc,
         OthersMove(p), LockMove(p)
  PROVE  InQueue' /\ OnlyQueued' /\ HeldOnce'
  <1>1. \A q \in Proc \ {p} : /\ pc'[q] \in QueueLabels <=> pc[q] \in QueueLabels
                              /\ pc'[q] \in HoldLabel => pc[q] \in HoldLabel
    BY QueueNone DEF OthersMove, Untouched, Begins, Cancels, QueueLabels
  <1>2. \A i \in 1..Len(lockq) : lockq[i] \in Proc BY DEF LockT
  <1>3. CASE /\ lockq' = lockq /\ (pc'[p] \in QueueLabels <=> pc[p] \in QueueLabels)
             /\ pc'[p] \in HoldLabel => pc[p] \in HoldLabel \/ HasLock(p)
    BY <1>1, <1>2, <1>3 DEF InQueue, OnlyQueued, HeldOnce, HasLock
  <1>4. CASE /\ lockq' = Append(lockq, p) /\ pc'[p] \in LockLabel
    <2>1. /\ Len(lockq') = Len(lockq) + 1 /\ lockq'[Len(lockq')] = p
          /\ \A i \in 1..Len(lockq) : lockq'[i] = lockq[i]
      BY <1>4 DEF LockT
    <2>2. pc'[p] \in QueueLabels /\ pc'[p] \notin HoldLabel BY <1>4
         DEF QueueLabels, LockLabel, HoldLabel
    <2>3. Len(lockq) \in Nat BY DEF LockT
    <2>4. InQueue' BY <1>1, <2>1, <2>2, <2>3 DEF InQueue
    <2>5. OnlyQueued' BY <1>1, <1>2, <2>1, <2>2, <2>3 DEF OnlyQueued
    <2>6. HeldOnce' BY <1>1, <2>1, <2>2, <2>3 DEF HeldOnce
    <2> QED BY <2>4, <2>5, <2>6
  <1>5. ASSUME lockq # <<>>, HasLock(p) \/ pc[p] \in HoldLabel
        PROVE  /\ Len(lockq) \in Nat \ {0} /\ Len(Tail(lockq)) = Len(lockq) - 1
               /\ \A i \in 1..Len(lockq) - 1 : Tail(lockq)[i] = lockq[i + 1]
               /\ lockq[1] = p /\ \A i \in 2..Len(lockq) : lockq[i] # p
    BY <1>5 DEF LockT, HasLock, HeldOnce, LockHeld
  <1>6. CASE /\ lockq # <<>> /\ lockq' = Tail(lockq) /\ pc'[p] \notin QueueLabels
             /\ HasLock(p) \/ pc[p] \in HoldLabel
    <2>1. /\ Len(lockq) \in Nat \ {0} /\ Len(lockq') = Len(lockq) - 1
          /\ \A i \in 1..Len(lockq) - 1 : lockq'[i] = lockq[i + 1] /\ lockq[i + 1] # p
          /\ lockq[1] = p
      BY <1>5, <1>6
    <2>2. InQueue'
      <3> SUFFICES ASSUME NEW q \in Proc, pc'[q] \in QueueLabels
                   PROVE  \E i \in 1..Len(lockq') : lockq'[i] = q
        BY DEF InQueue
      <3>1. q # p /\ pc[q] \in QueueLabels BY <1>1, <1>6
      <3>2. PICK i \in 1..Len(lockq) : lockq[i] = q BY <3>1 DEF InQueue
      <3>3. i # 1 BY <2>1, <3>1, <3>2
      <3>4. i - 1 \in 1..Len(lockq') /\ lockq'[i - 1] = q BY <2>1, <3>2, <3>3
      <3> QED BY <3>4
    <2>3. OnlyQueued' BY <1>1, <1>2, <2>1 DEF OnlyQueued
    <2>4. HeldOnce'
      <3> SUFFICES ASSUME NEW q \in Proc, pc'[q] \in HoldLabel,
                          NEW i \in 2..Len(lockq')
                   PROVE  lockq'[i] # q
        BY DEF HeldOnce
      <3>1. q # p BY <1>6 DEF QueueLabels
      <3>2. pc[q] \in HoldLabel BY <1>1, <3>1
      <3>3. lockq'[i] = lockq[i + 1] /\ i + 1 \in 2..Len(lockq) BY <2>1
      <3> QED BY <3>2, <3>3 DEF HeldOnce
    <2> QED BY <2>2, <2>3, <2>4
  <1>7. CASE HasLock(p) /\ lockq' = Append(Tail(lockq), p) /\ pc'[p] \in LockLabel
    <2>1. lockq # <<>> BY <1>7 DEF HasLock
    <2>2. /\ Len(lockq) \in Nat \ {0} /\ Len(lockq') = Len(lockq)
          /\ \A i \in 1..Len(lockq) - 1 : lockq'[i] = lockq[i + 1] /\ lockq[i + 1] # p
          /\ lockq[1] = p /\ lockq'[Len(lockq)] = p
      <3>1. Tail(lockq) \in Seq(Proc) /\ p \in Proc BY <2>1 DEF LockT
      <3>2. /\ Len(lockq') = Len(Tail(lockq)) + 1 /\ lockq'[Len(Tail(lockq)) + 1] = p
            /\ \A i \in 1..Len(Tail(lockq)) : lockq'[i] = Tail(lockq)[i]
        BY <1>7, <3>1
      <3> QED BY <1>5, <1>7, <2>1, <3>2
    <2>3. pc'[p] \in QueueLabels /\ pc'[p] \notin HoldLabel BY <1>7
         DEF QueueLabels, LockLabel, HoldLabel
    <2>4. InQueue'
      <3> SUFFICES ASSUME NEW q \in Proc, pc'[q] \in QueueLabels
                   PROVE  \E i \in 1..Len(lockq') : lockq'[i] = q
        BY DEF InQueue
      <3>1. CASE q = p BY <2>2, <3>1
      <3>2. CASE q # p
        <4>1. PICK i \in 1..Len(lockq) : lockq[i] = q BY <1>1, <3>2 DEF InQueue
        <4>2. i # 1 BY <2>2, <3>2, <4>1
        <4>3. i - 1 \in 1..Len(lockq') /\ lockq'[i - 1] = q BY <2>2, <4>1, <4>2
        <4> QED BY <4>3
      <3> QED BY <3>1, <3>2
    <2>5. OnlyQueued'
      <3> SUFFICES ASSUME NEW i \in 1..Len(lockq') PROVE pc'[lockq'[i]] \in QueueLabels
        BY DEF OnlyQueued
      <3>1. CASE i = Len(lockq) BY <2>2, <2>3, <3>1
      <3>2. CASE i # Len(lockq)
        <4>1. i + 1 \in 1..Len(lockq) /\ lockq'[i] = lockq[i + 1] /\ lockq'[i] # p
          BY <2>2, <3>2
        <4> QED BY <1>1, <1>2, <4>1 DEF OnlyQueued
      <3> QED BY <3>1, <3>2
    <2>6. HeldOnce'
      <3> SUFFICES ASSUME NEW q \in Proc, pc'[q] \in HoldLabel,
                          NEW i \in 2..Len(lockq')
                   PROVE  lockq'[i] # q
        BY DEF HeldOnce
      <3>1. q # p BY <2>3
      <3>2. pc[q] \in HoldLabel BY <1>1, <3>1
      <3>3. CASE i = Len(lockq) BY <2>2, <3>1, <3>3
      <3>4. CASE i # Len(lockq)
        <4>1. lockq'[i] = lockq[i + 1] /\ i + 1 \in 2..Len(lockq) BY <2>2, <3>4
        <4> QED BY <3>2, <4>1 DEF HeldOnce
      <3> QED BY <3>3, <3>4
    <2> QED BY <2>4, <2>5, <2>6
  <1> QED BY <1>3, <1>4, <1>6, <1>7 DEF LockMove

LEMMA TgsMoves ==
  ASSUME TgsT, PcT, MyT, UT, LocalsOK, Placed, OneLive, Begun, NEW p \in Proc,
         OthersMove(p), TgsMove(p), TgMove(p)
  PROVE  OneLive' /\ Begun'
  <1>1. OneLive'
    <2>1. CASE \A t \in TgCalls : tgs'[t] \in LiveTg => tgs[t] \in LiveTg
      BY <2>1 DEF OneLive
    <2>2. CASE EngineFree /\ \E t \in TgCalls : \A s \in TgCalls \ {t} : tgs'[s] = tgs[s]
      <3>1. PICK t \in TgCalls : \A s \in TgCalls \ {t} : tgs'[s] = tgs[s] BY <2>2
      <3>2. \A s \in TgCalls \ {t} : tgs'[s] \notin LiveTg BY <2>2, <3>1 DEF EngineFree, LiveTg
      <3> QED BY <3>2 DEF OneLive
    <2> QED BY <2>1, <2>2 DEF TgsMove
  <1>2. u'.tg # None => u'.tg \in TgCalls /\ tgs[u'.tg] # "none"
    BY SlotT, TgLocal DEF TgMove, Placed, Begun
  <1>3. \A t \in TgCalls : pc'[t] \in {"accepting", "accLock"} => tgs'[t] # "none"
    <2> SUFFICES ASSUME NEW t \in TgCalls, pc'[t] \in {"accepting", "accLock"}
                 PROVE  tgs'[t] # "none"
      OBVIOUS
    <2>1. CASE t = p BY <2>1 DEF TgsMove
    <2>2. CASE t # p
      <3>1. pc[t] = pc'[t] BY <2>2 DEF Proc, OthersMove, Untouched, Begins, Cancels
      <3> QED BY <3>1 DEF Begun, TgsMove, TgsKept
    <2> QED BY <2>1, <2>2
  <1> QED BY <1>1, <1>2, <1>3 DEF Begun, TgsMove, TgsKept

LEMMA PendMoves ==
  ASSUME PcT, PendingBacked, NEW p \in Proc, OthersMove(p), PendMove(p)
  PROVE  PendingBacked'
  <1> SUFFICES ASSUME u'.pending PROVE \E q \in Proc : pc'[q] \in BackLabels
    BY DEF PendingBacked, BackLabels
  <1>1. CASE pc'[p] \in BackLabels BY <1>1
  <1>2. CASE u.pending /\ pc[p] \notin BackLabels \cup {"eeLock"}
    <2>1. PICK q \in Proc : pc[q] \in BackLabels BY <1>2 DEF PendingBacked, BackLabels
    <2>2. q # p /\ pc'[q] = pc[q] BY <1>2, <2>1
         DEF OthersMove, Untouched, Begins, Cancels, BackLabels
    <2> QED BY <2>1, <2>2
  <1> QED BY <1>1, <1>2 DEF PendMove

LEMMA ServeMoves ==
  ASSUME UT, TgsT, PcT, MyT, LocalsOK, Watched, Served, NEW p \in Proc,
         OthersMove(p), TgsMove(p), ServeMove(p)
  PROVE  Served'
  <1> SUFFICES ASSUME u'.tg # None, tgs'[u'.tg] = "up", u'.active = None
               PROVE  \E q \in Proc : pc'[q] \in ServeLabels
    BY DEF Served
  <1>1. CASE u'.tg = u.tg /\ u'.active = u.active /\ pc[p] \notin ServeLabels
    <2>1. u.tg \in TgCalls /\ pc[u.tg] \in {"watch", "tgEndLock"}
      BY <1>1, SlotT DEF Watched, TgWatched
    <2>2. pc[p] \in TgLabels => u.tg # my[p].tg BY <2>1 DEF Watched, Placed
    <2>3. tgs[u.tg] = "up" BY <1>1, <2>1, <2>2 DEF TgsMove
    <2>4. PICK q \in Proc : pc[q] \in ServeLabels BY <1>1, <2>1, <2>3, NoneAssumption
         DEF Served, Proc
    <2>5. q # p /\ pc'[q] = pc[q] BY <1>1, <2>4
         DEF OthersMove, Untouched, Begins, Cancels, ServeLabels
    <2> QED BY <2>4, <2>5
  <1> QED BY <1>1 DEF ServeMove

\* The Telegram calls in a step that leaves them alone, ends some, places or connects one.
LEMMA TgsStays ==
  ASSUME TgsT, NEW p \in Proc, tgs' = tgs,
         p \in TgCalls /\ pc'[p] \in {"accepting", "accLock"} => tgs[p] # "none"
  PROVE  TgsMove(p)
  <1>1. TgsKept /\ \A s \in TgCalls : tgs'[s] = tgs[s] BY DEF TgsKept
  <1> QED BY <1>1 DEF TgsMove

LEMMA TgsDown ==
  ASSUME TgsT, NEW p \in Proc, NEW t, HangTg(t) \/ CancelEngine,
         pc'[p] \notin {"accepting", "accLock"}
  PROVE  TgsMove(p)
  <1>1. \A s \in TgCalls : tgs'[s] = tgs[s] \/ (tgs[s] \in {"setup", "up"} /\ tgs'[s] = "closing")
    BY DEF HangTg, CancelEngine, TgsT
  <1> QED BY <1>1 DEF TgsMove, TgsKept, LiveTg

LEMMA TgsNew ==
  ASSUME TgsT, NEW p \in Proc, NEW t \in TgCalls, EngineFree, NEW s \in {"setup", "closing"},
         tgs' = [tgs EXCEPT ![t] = s], pc'[p] \in {"accepting", "accLock"} => p = t
  PROVE  TgsMove(p)
  <1>1. tgs'[t] = s /\ \A r \in TgCalls \ {t} : tgs'[r] = tgs[r] BY DEF TgsT
  <1>2. TgsKept BY <1>1 DEF TgsKept
  <1>3. \A r \in TgCalls : tgs'[r] = "up" => tgs[r] = "up" BY <1>1
  <1> QED BY <1>1, <1>2, <1>3 DEF TgsMove

LEMMA TgsPicked ==
  ASSUME TgsT, MyT, NEW p \in Proc, PickedUp(p), pc[p] \in TgLabels,
         pc'[p] \notin {"accepting", "accLock"}
  PROVE  TgsMove(p)
  <1>1. \A s \in TgCalls : tgs'[s] = tgs[s] \/ (s = my[p].tg /\ tgs[s] = "setup" /\ tgs'[s] = "up")
    BY DEF PickedUp, TgsT
  <1>2. TgsKept BY <1>1 DEF TgsKept
  <1>3. \A s \in TgCalls : tgs'[s] \in LiveTg => tgs[s] \in LiveTg BY <1>1 DEF LiveTg
  <1>4. \A s \in TgCalls : tgs'[s] = "up" => tgs[s] = "up" \/ s = my[p].tg BY <1>1
  <1> QED BY <1>2, <1>3, <1>4 DEF TgsMove

\* What _tg_ended and _reconnect leave of UserState.
LEMMA DropKeeps ==
  ASSUME NEW v \in User, NEW t
  PROVE  /\ LET w == [v EXCEPT !.tg = None, !.bridge = None, !.reconnect = t]
            IN  w.tg = None /\ w.pending = v.pending
         /\ LET w == [v EXCEPT !.tg = None, !.bridge = None]
            IN  w.tg = None /\ w.pending = v.pending /\ w.reconnect = v.reconnect
  BY DEF User

LEMMA RedialKeeps ==
  ASSUME NEW v \in User
  PROVE  /\ LET w == [v EXCEPT !.pending = TRUE]
            IN  w.tg = v.tg /\ w.active = v.active /\ w.reconnect = v.reconnect
         /\ LET w == [v EXCEPT !.pending = FALSE, !.reconnect = None]
            IN  /\ w.tg = v.tg /\ w.active = v.active /\ w.reconnect = None
                /\ w.pending = FALSE
  BY DEF User

USE NoneAssumption, DisjointAssumption
    DEF OthersMove, Untouched, Begins, Cancels, ResMove, LockMove, TgMove, RecMove, PendMove,
        ServeMove, ResLabels, QueueLabels, LockLabel, HoldLabel, RecLabels, BackLabels, ServeLabels,
        TgLabels, LegLabels, Inv, Typed, Guarded, Watched, PcT, MyT, UT, User, Locals, LocalsOK,
        LockHeld, Placed, Reserved, RecInv, TgWatched, Proc, Legs

\* _sip_incoming and _ring_users.
LEMMA InLegStepMoves ==
  ASSUME Inv, Watched, Reserved, NEW p \in InLegs, InLegStep(p)
  PROVE  Moves(p) /\ Keeps(p)
  <1> p \in Proc OBVIOUS
  <1>1. CASE OfferReject(p)
    <2>1. OthersMove(p) /\ ResMove(p) /\ LockMove(p) /\ TgMove(p) /\ RecMove(p)
      BY <1>1 DEF OfferReject, Turn, Finish, Await
    <2>2. Keeps(p) BY <1>1 DEF OfferReject, Turn, Finish, Await, Keeps
    <2>3. TgsMove(p) BY <1>1, TgsStays DEF OfferReject, Turn, Finish, Await
    <2> QED BY <2>1, <2>2, <2>3 DEF Moves
  <1>2. CASE OfferWaiting(p)
    <2>1. OthersMove(p) /\ ResMove(p) /\ LockMove(p) /\ TgMove(p) /\ RecMove(p)
      BY <1>2 DEF OfferWaiting, Turn, Await, Finish
    <2>2. Keeps(p) BY <1>2 DEF OfferWaiting, Turn, Await, Finish, Keeps
    <2>3. TgsMove(p) BY <1>2, TgsStays DEF OfferWaiting, Turn, Await, Finish
    <2> QED BY <2>1, <2>2, <2>3 DEF Moves
  <1>3. CASE OfferRing(p)
    <2>1. OthersMove(p) /\ ResMove(p) /\ LockMove(p) /\ TgMove(p) /\ RecMove(p)
      BY <1>3 DEF OfferRing, Turn, Either
    <2>2. Keeps(p) BY <1>3 DEF OfferRing, Turn, Either, Keeps
    <2>3. TgsMove(p) BY <1>3, TgsStays DEF OfferRing, Turn, Either
    <2> QED BY <2>1, <2>2, <2>3 DEF Moves
  <1>4. CASE RingCall(p)
    <2>1. OthersMove(p) /\ ResMove(p) /\ LockMove(p) /\ TgMove(p) /\ RecMove(p)
      BY <1>4 DEF RingCall, Turn, Fresh, Await, PlaceCall
    <2>2. Keeps(p) BY <1>4 DEF RingCall, Turn, Fresh, Await, PlaceCall, Keeps
    <2>3. TgsMove(p) BY <1>4, TgsNew, TgsStays DEF RingCall, Turn, Fresh, Await, PlaceCall
    <2> QED BY <2>1, <2>2, <2>3 DEF Moves
  <1>5. CASE RingFail(p)
    <2>1. OthersMove(p) /\ ResMove(p) /\ LockMove(p) /\ TgMove(p) /\ RecMove(p)
      BY <1>5 DEF RingFail, At, Either
    <2>2. Keeps(p) BY <1>5 DEF RingFail, At, Either, Keeps
    <2>3. TgsMove(p) BY <1>5, TgsStays DEF RingFail, At, Either
    <2> QED BY <2>1, <2>2, <2>3 DEF Moves
  <1>6. CASE RingMissed(p)
    <2>1. OthersMove(p) /\ ResMove(p) /\ LockMove(p) /\ TgMove(p) /\ RecMove(p)
      BY <1>6 DEF RingMissed, Turn, Finish, Await
    <2>2. Keeps(p) BY <1>6 DEF RingMissed, Turn, Finish, Await, Keeps
    <2>3. TgsMove(p) BY <1>6, TgsStays DEF RingMissed, Turn, Finish, Await
    <2> QED BY <2>1, <2>2, <2>3 DEF Moves
  <1>7. CASE RingGone(p)
    <2>1. OthersMove(p) /\ ResMove(p) /\ LockMove(p) /\ TgMove(p) /\ RecMove(p)
      BY <1>7 DEF RingGone, At, GoOn, Await
    <2>2. Keeps(p) BY <1>7 DEF RingGone, At, GoOn, Await, Keeps
    <2>3. TgsMove(p) BY <1>7, TgsDown DEF RingGone, At, GoOn, Await
    <2> QED BY <2>1, <2>2, <2>3 DEF Moves
  <1>8. CASE RingCancelled(p)
    <2>1. OthersMove(p) /\ ResMove(p) /\ LockMove(p) /\ TgMove(p) /\ RecMove(p)
      BY <1>8 DEF RingCancelled, Turn, Finish, Await
    <2>2. Keeps(p) BY <1>8 DEF RingCancelled, Turn, Finish, Await, Keeps
    <2>3. TgsMove(p) BY <1>8, TgsStays DEF RingCancelled, Turn, Finish, Await
    <2> QED BY <2>1, <2>2, <2>3 DEF Moves
  <1>9. CASE RingWin(p)
    <2>1. OthersMove(p) /\ ResMove(p) /\ LockMove(p) /\ TgMove(p) /\ RecMove(p)
      BY <1>9 DEF RingWin, At, Acquire, Queue
    <2>2. Keeps(p) BY <1>9 DEF RingWin, At, Acquire, Queue, Keeps
    <2>3. TgsMove(p) BY <1>9, TgsPicked DEF RingWin, At, Acquire, Queue
    <2> QED BY <2>1, <2>2, <2>3 DEF Moves
  <1>10. CASE RingAttach(p)
    <2>1. OthersMove(p) BY <1>10 DEF RingAttach, Locked, Turn, HasLock, Release, Attached
    <2>2. ResMove(p) /\ TgMove(p) /\ RecMove(p)
      BY <1>10 DEF RingAttach, Locked, Turn, HasLock, Release, Attached
    <2>3. LockMove(p) BY <1>10 DEF RingAttach, Locked, Turn, HasLock, Release, Attached
    <2>4. Keeps(p) BY <1>10 DEF RingAttach, Locked, Turn, HasLock, Release, Attached, Keeps
    <2>5. TgsMove(p) BY <1>10, TgsStays DEF RingAttach, Locked, Turn, HasLock, Release, Attached
    <2> QED BY <2>1, <2>4, <2>5, <2>2, <2>3 DEF Moves
  <1> QED BY <1>1, <1>2, <1>3, <1>4, <1>5, <1>6, <1>7, <1>8, <1>9, <1>10 DEF InLegStep

\* _dial_leg.
LEMMA OutLegStepMoves ==
  ASSUME Inv, Watched, Reserved, NEW p \in OutLegs, OutLegStep(p)
  PROVE  Moves(p) /\ Keeps(p)
  <1> p \in Proc OBVIOUS
  <1>1. CASE Invite(p)
    <2>1. OthersMove(p) /\ ResMove(p) /\ LockMove(p) /\ TgMove(p) /\ RecMove(p)
      BY <1>1 DEF Invite, Turn, Acquire, Queue, Await
    <2>2. Keeps(p) BY <1>1 DEF Invite, Turn, Acquire, Queue, Await, Keeps
    <2>3. TgsMove(p) BY <1>1, TgsStays DEF Invite, Turn, Acquire, Queue, Await
    <2> QED BY <2>1, <2>2, <2>3 DEF Moves
  <1>2. CASE DialResume(p)
    <2>1. OthersMove(p) /\ ResMove(p) /\ LockMove(p) /\ TgMove(p) /\ RecMove(p)
      BY <1>2 DEF DialResume, At, AfterReinvite, Finish, Await
    <2>2. Keeps(p) BY <1>2 DEF DialResume, At, AfterReinvite, Finish, Await, Keeps
    <2>3. TgsMove(p) BY <1>2, TgsStays DEF DialResume, At, AfterReinvite, Finish, Await
    <2> QED BY <2>1, <2>2, <2>3 DEF Moves
  <1>3. CASE DialResumed(p)
    <2>1. OthersMove(p) /\ ResMove(p) /\ LockMove(p) /\ TgMove(p) /\ RecMove(p)
      BY <1>3 DEF DialResumed, Turn, Attached, Finish, Await
    <2>2. Keeps(p) BY <1>3 DEF DialResumed, Turn, Attached, Finish, Await, Keeps
    <2>3. TgsMove(p) BY <1>3, TgsStays DEF DialResumed, Turn, Attached, Finish, Await
    <2> QED BY <2>1, <2>2, <2>3 DEF Moves
  <1>4. CASE DialGiveUp(p)
    <2>1. OthersMove(p) /\ ResMove(p) /\ LockMove(p) /\ TgMove(p) /\ RecMove(p)
      BY <1>4 DEF DialGiveUp, At, Acquire, Queue, Finish, Await
    <2>2. Keeps(p) BY <1>4 DEF DialGiveUp, At, Acquire, Queue, Finish, Await, Keeps
    <2>3. TgsMove(p) BY <1>4, TgsStays DEF DialGiveUp, At, Acquire, Queue, Finish, Await
    <2> QED BY <2>1, <2>2, <2>3 DEF Moves
  <1>5. CASE DialAttach(p)
    <2>1. OthersMove(p)
      BY <1>5 DEF DialAttach, Locked, Turn, HasLock, Either, Attached, Release, Await
    <2>2. ResMove(p) /\ TgMove(p) /\ RecMove(p)
      <3>1. u'.tg = u.tg /\ u'.reconnect = u.reconnect BY <1>5, AttachedKeeps DEF DialAttach
      <3>2. pc[p] = "dialLock" /\ pc'[p] \in {"dialHang", "watch"} BY <1>5
           DEF DialAttach, Locked, Turn, Either, Await
      <3> QED BY <3>1, <3>2
    <2>3. LockMove(p)
      BY <1>5 DEF DialAttach, Locked, Turn, HasLock, Either, Attached, Release, Await
    <2>4. Keeps(p)
      <3>1. pc[p] = "dialLock" /\ pc'[p] \in {"dialHang", "watch"} BY <1>5
           DEF DialAttach, Locked, Turn, Either, Await
      <3>2. CASE u.tg = None
        <4>1. u' = u BY <1>5, <3>2 DEF DialAttach
        <4> QED BY <3>1, <3>2, <4>1 DEF Keeps
      <3>3. CASE u.tg # None
        <4>1. u' = [u EXCEPT !.active = p, !.bridge = <<p, u.tg>>] BY <1>5, <3>3
             DEF DialAttach, Attached
        <4>2. u'.active = p /\ u'.pending = u.pending BY <4>1
        <4> QED BY <3>1, <4>2 DEF Keeps
      <3> QED BY <3>2, <3>3
    <2>5. TgsMove(p)
      BY <1>5, TgsStays DEF DialAttach, Locked, Turn, HasLock, Either, Attached, Release, Await
    <2> QED BY <2>1, <2>4, <2>5, <2>2, <2>3 DEF Moves
  <1> QED BY <1>1, <1>2, <1>3, <1>4, <1>5 DEF OutLegStep

\* The watcher of a leg.
LEMMA LegStepMoves ==
  ASSUME Inv, Watched, Reserved, NEW p \in Legs, LegStep(p)
  PROVE  Still \/ (Moves(p) /\ Keeps(p))
  <1> p \in Proc OBVIOUS
  <1>1. CASE LegEnded(p)
    <2>1. OthersMove(p) /\ ResMove(p) /\ LockMove(p) /\ TgMove(p) /\ RecMove(p)
      BY <1>1 DEF LegEnded, At, Acquire, Queue
    <2>2. Keeps(p) BY <1>1 DEF LegEnded, At, Acquire, Queue, Keeps
    <2>3. TgsMove(p) BY <1>1, TgsStays DEF LegEnded, At, Acquire, Queue
    <2> QED BY <2>1, <2>2, <2>3 DEF Moves
  <1>2. CASE EndIdle(p)
    <2>1. OthersMove(p) /\ ResMove(p) /\ LockMove(p) /\ TgMove(p) /\ RecMove(p)
      BY <1>2 DEF EndIdle, Locked, Turn, HasLock, Await
    <2>2. Keeps(p) BY <1>2 DEF EndIdle, Locked, Turn, HasLock, Await, Keeps
    <2>3. TgsMove(p) BY <1>2, TgsStays DEF EndIdle, Locked, Turn, HasLock, Await
    <2> QED BY <2>1, <2>2, <2>3 DEF Moves
  <1>3. CASE EndActive(p)
    <2>1. OthersMove(p) /\ ResMove(p) /\ LockMove(p) /\ TgMove(p) /\ RecMove(p)
      BY <1>3 DEF EndActive, Locked, Turn, HasLock, Either
    <2>2. Keeps(p) BY <1>3 DEF EndActive, Locked, Turn, HasLock, Either, Keeps
    <2>3. TgsMove(p) BY <1>3, TgsStays DEF EndActive, Locked, Turn, HasLock, Either
    <2> QED BY <2>1, <2>2, <2>3 DEF Moves
  <1>4. CASE EndResume(p)
    <2>1. OthersMove(p) /\ ResMove(p) /\ LockMove(p) /\ TgMove(p) /\ RecMove(p)
      BY <1>4 DEF EndResume, Turn, AfterReinvite
    <2>2. Keeps(p) BY <1>4 DEF EndResume, Turn, AfterReinvite, Keeps
    <2>3. TgsMove(p) BY <1>4, TgsStays DEF EndResume, Turn, AfterReinvite
    <2> QED BY <2>1, <2>2, <2>3 DEF Moves
  <1>5. CASE EndResumed(p)
    <2>1. OthersMove(p) /\ ResMove(p) /\ LockMove(p) /\ TgMove(p) /\ RecMove(p)
      BY <1>5 DEF EndResumed, Turn, Attached, Await
    <2>2. Keeps(p) BY <1>5 DEF EndResumed, Turn, Attached, Await, Keeps
    <2>3. TgsMove(p) BY <1>5, TgsStays DEF EndResumed, Turn, Attached, Await
    <2> QED BY <2>1, <2>2, <2>3 DEF Moves
  <1>6. CASE EndAnswerWaiting(p)
    <2>1. OthersMove(p) /\ ResMove(p) /\ LockMove(p) /\ TgMove(p) /\ RecMove(p)
      BY <1>6 DEF EndAnswerWaiting, Turn, Attached, Await
    <2>2. Keeps(p) BY <1>6 DEF EndAnswerWaiting, Turn, Attached, Await, Keeps
    <2>3. TgsMove(p) BY <1>6, TgsStays DEF EndAnswerWaiting, Turn, Attached, Await
    <2> QED BY <2>1, <2>2, <2>3 DEF Moves
  <1>7. CASE EndHangTg(p)
    <2>1. OthersMove(p) /\ ResMove(p) /\ LockMove(p) /\ TgMove(p) /\ RecMove(p)
      BY <1>7 DEF EndHangTg, Turn, Await
    <2>2. Keeps(p) BY <1>7 DEF EndHangTg, Turn, Await, Keeps
    <2>3. TgsMove(p) BY <1>7, TgsDown DEF EndHangTg, Turn, Await
    <2> QED BY <2>1, <2>2, <2>3 DEF Moves
  <1>8. CASE WaitingTimeout(p) BY <1>8 DEF WaitingTimeout, Still
  <1> QED BY <1>1, <1>2, <1>3, <1>4, <1>5, <1>6, <1>7, <1>8 DEF LegStep

\* _tg_incoming and the watcher of a Telegram call.
LEMMA TgStepMoves ==
  ASSUME Inv, Watched, Reserved, NEW p \in TgCalls, TgStep(p)
  PROVE  Still \/ (Moves(p) /\ Keeps(p))
  <1> p \in Proc OBVIOUS
  <1>1. CASE AcceptFail(p)
    <2>1. OthersMove(p) /\ ResMove(p) /\ LockMove(p) /\ TgMove(p) /\ RecMove(p)
      BY <1>1 DEF AcceptFail, At, HandOver
    <2>2. Keeps(p) BY <1>1 DEF AcceptFail, At, HandOver, Keeps
    <2>3. TgsMove(p) BY <1>1, TgsStays DEF AcceptFail, At, HandOver
    <2> QED BY <2>1, <2>2, <2>3 DEF Moves
  <1>2. CASE AcceptOk(p)
    <2>1. OthersMove(p) /\ ResMove(p) /\ LockMove(p) /\ TgMove(p) /\ RecMove(p)
      BY <1>2 DEF AcceptOk, At, Acquire, Queue
    <2>2. Keeps(p) BY <1>2 DEF AcceptOk, At, Acquire, Queue, Keeps
    <2>3. TgsMove(p) BY <1>2 DEF AcceptOk, At, Acquire, Queue, TgsMove, TgsT, TgsKept, LiveTg
    <2> QED BY <2>1, <2>2, <2>3 DEF Moves
  <1>3. CASE Accepted(p)
    <2>1. OthersMove(p) /\ ResMove(p) /\ LockMove(p) /\ TgMove(p) /\ RecMove(p)
      BY <1>3 DEF Accepted, Locked, Turn, HasLock, Release
    <2>2. Keeps(p) BY <1>3 DEF Accepted, Locked, Turn, HasLock, Release, Keeps
    <2>3. TgsMove(p) BY <1>3, TgsStays DEF Accepted, Locked, Turn, HasLock, Release
    <2> QED BY <2>1, <2>2, <2>3 DEF Moves
  <1>4. CASE TgEnded(p)
    <2>1. OthersMove(p) /\ ResMove(p) /\ LockMove(p) /\ TgMove(p) /\ RecMove(p)
      BY <1>4 DEF TgEnded, At, Acquire, Queue, Finish, Await
    <2>2. Keeps(p) BY <1>4 DEF TgEnded, At, Acquire, Queue, Finish, Await, Keeps
    <2>3. TgsMove(p) BY <1>4, TgsStays DEF TgEnded, At, Acquire, Queue, Finish, Await
    <2> QED BY <2>1, <2>2, <2>3 DEF Moves
  <1>5. CASE TgDropped(p)
    <2>1. OthersMove(p) BY <1>5 DEF TgDropped, Locked, Turn, HasLock, Release, Await, Queue
    <2>2. pc[p] = "tgEndLock" /\ pc'[p] \in {"recStart", "eeLock"} /\ HasLock(p)
      BY <1>5 DEF TgDropped, Locked, Turn, Await
    <2>3. /\ u'.tg = None /\ u'.pending = u.pending
          /\ Reconnect = FALSE => u'.reconnect = u.reconnect /\ pc'[p] = "eeLock"
      <3>1. \/ /\ Reconnect
               /\ u' = [u EXCEPT !.tg = None, !.bridge = None, !.reconnect = p]
            \/ /\ pc'[p] = "eeLock"
               /\ u' = [u EXCEPT !.tg = None, !.bridge = None]
        BY <1>5 DEF TgDropped, CanReconnect
      <3>2. u \in User /\ Reconnect \in BOOLEAN BY FlagsAssumption
      <3> QED BY ONLY <3>1, <3>2, DropKeeps
    <2>4. ResMove(p) /\ TgMove(p) /\ RecMove(p) BY <2>2, <2>3
    <2>5. LockMove(p)
      <3>1. \/ pc'[p] = "recStart" /\ lockq' = Tail(lockq)
            \/ pc'[p] = "eeLock" /\ lockq' = Append(Tail(lockq), p)
        BY <1>5 DEF TgDropped, Release, Await, Queue
      <3> QED BY <2>2, <3>1 DEF HasLock
    <2>6. Keeps(p) BY <2>2, <2>3 DEF Keeps
    <2>7. TgsMove(p) BY <1>5, TgsStays DEF TgDropped, Locked, Turn, HasLock, Release, Await, Queue
    <2> QED BY <2>1, <2>6, <2>7, <2>4, <2>5 DEF Moves
  <1>6. CASE TgGone(p) BY <1>6 DEF TgGone, Still
  <1> QED BY <1>1, <1>2, <1>3, <1>4, <1>5, <1>6 DEF TgStep

\* _reconnect.
LEMMA RecStepMoves ==
  ASSUME Inv, Watched, Reserved, NEW p \in TgCalls, RecStep(p)
  PROVE  Moves(p) /\ Keeps(p)
  <1> p \in Proc OBVIOUS
  <1>1. CASE RecStart(p)
    <2>1. OthersMove(p) /\ ResMove(p) /\ LockMove(p) /\ TgMove(p) /\ RecMove(p)
      BY <1>1 DEF RecStart, At, Await, Finish
    <2>2. Keeps(p) BY <1>1 DEF RecStart, At, Await, Finish, Keeps
    <2>3. TgsMove(p) BY <1>1, TgsStays DEF RecStart, At, Await, Finish
    <2> QED BY <2>1, <2>2, <2>3 DEF Moves
  <1>2. CASE RecCall(p)
    <2>1. OthersMove(p) BY <1>2 DEF RecCall, At, Fresh, Await, PlaceCall
    <2>2. pc[p] = "recHold" /\ pc'[p] \in {"recCalling", "recFailed"} /\ lockq' = lockq
      BY <1>2 DEF RecCall, At, Await
    <2>3. /\ u'.tg = u.tg /\ u'.active = u.active /\ u'.reconnect \in {u.reconnect, None}
          /\ u'.pending => pc'[p] = "recCalling"
      <3>1. \/ u' = [u EXCEPT !.pending = TRUE] /\ pc'[p] = "recCalling"
            \/ u' = [u EXCEPT !.pending = FALSE, !.reconnect = None]
        BY <1>2 DEF RecCall, At, Await
      <3>2. u \in User OBVIOUS
      <3> QED BY ONLY <3>1, <3>2, RedialKeeps
    <2>4. ResMove(p) /\ TgMove(p) /\ RecMove(p) BY <2>2, <2>3
    <2>5. LockMove(p) BY <2>2
    <2>6. Keeps(p) BY <2>2, <2>3 DEF Keeps
    <2>7. TgsMove(p) BY <1>2, TgsNew, TgsStays DEF RecCall, At, Fresh, Await, PlaceCall
    <2> QED BY <2>1, <2>6, <2>7, <2>4, <2>5 DEF Moves
  <1>3. CASE RecFail(p)
    <2>1. OthersMove(p) /\ ResMove(p) /\ LockMove(p) /\ TgMove(p) /\ RecMove(p)
      BY <1>3 DEF RecFail, At, Await
    <2>2. Keeps(p) BY <1>3 DEF RecFail, At, Await, Keeps
    <2>3. TgsMove(p) BY <1>3, TgsStays DEF RecFail, At, Await
    <2> QED BY <2>1, <2>2, <2>3 DEF Moves
  <1>4. CASE RecWin(p)
    <2>1. OthersMove(p) /\ ResMove(p) /\ LockMove(p) /\ TgMove(p) /\ RecMove(p)
      BY <1>4 DEF RecWin, At, Acquire, Queue
    <2>2. Keeps(p) BY <1>4 DEF RecWin, At, Acquire, Queue, Keeps
    <2>3. TgsMove(p) BY <1>4, TgsPicked DEF RecWin, At, Acquire, Queue
    <2> QED BY <2>1, <2>2, <2>3 DEF Moves
  <1>5. CASE RecAttach(p)
    <2>1. OthersMove(p) /\ ResMove(p) /\ LockMove(p) /\ TgMove(p) /\ RecMove(p)
      BY <1>5 DEF RecAttach, Locked, Turn, HasLock
    <2>2. Keeps(p) BY <1>5 DEF RecAttach, Locked, Turn, HasLock, Keeps, Alive
    <2>3. TgsMove(p) BY <1>5, TgsStays DEF RecAttach, Locked, Turn, HasLock
    <2> QED BY <2>1, <2>2, <2>3 DEF Moves
  <1>6. CASE RecAttached(p)
    <2>1. OthersMove(p) /\ ResMove(p) /\ LockMove(p) /\ TgMove(p) /\ RecMove(p)
      BY <1>6 DEF RecAttached, Turn, Release, Attached, Finish, Await
    <2>2. Keeps(p) BY <1>6 DEF RecAttached, Turn, Release, Attached, Finish, Await, Keeps
    <2>3. TgsMove(p) BY <1>6, TgsStays DEF RecAttached, Turn, Release, Attached, Finish, Await
    <2> QED BY <2>1, <2>2, <2>3 DEF Moves
  <1>7. CASE RecAbandon(p)
    <2>1. OthersMove(p) /\ ResMove(p) /\ LockMove(p) /\ TgMove(p) /\ RecMove(p)
      BY <1>7 DEF RecAbandon, Locked, Turn, HasLock, Await
    <2>2. Keeps(p) BY <1>7 DEF RecAbandon, Locked, Turn, HasLock, Await, Keeps
    <2>3. TgsMove(p) BY <1>7, TgsDown DEF RecAbandon, Locked, Turn, HasLock, Await
    <2> QED BY <2>1, <2>2, <2>3 DEF Moves
  <1>8. CASE RecEnd(p)
    <2>1. OthersMove(p) /\ ResMove(p) /\ LockMove(p) /\ TgMove(p) /\ RecMove(p)
      BY <1>8 DEF RecEnd, At, Acquire, Queue
    <2>2. Keeps(p) BY <1>8 DEF RecEnd, At, Acquire, Queue, Keeps
    <2>3. TgsMove(p) BY <1>8, TgsStays DEF RecEnd, At, Acquire, Queue
    <2> QED BY <2>1, <2>2, <2>3 DEF Moves
  <1> QED BY <1>1, <1>2, <1>3, <1>4, <1>5, <1>6, <1>7, <1>8 DEF RecStep

\* _end_everything.
LEMMA EeStepMoves ==
  ASSUME Inv, Watched, Reserved, NEW p \in Proc, EeStep(p)
  PROVE  Moves(p) /\ Keeps(p)
  <1>1. CASE EndEverything(p)
    <2>1. OthersMove(p)
      <3> SUFFICES ASSUME NEW q \in Proc \ {p} PROVE Untouched(q) \/ Cancels(p, q) OBVIOUS
      <3>1. pc[p] = "eeLock" BY <1>1 DEF EndEverything, Locked, Turn
      <3>2. q # u.reconnect => Untouched(q) BY <1>1 DEF EndEverything
      <3>3. q = u.reconnect => pc'[q] = IF pc[q] = "recLock" THEN "cancelled" ELSE "done"
        BY <1>1 DEF EndEverything
      <3> QED BY <3>1, <3>2, <3>3
    <2>2. ResMove(p) /\ TgMove(p) /\ RecMove(p)
      BY <1>1 DEF EndEverything, Locked, Turn, HasLock, Release
    <2>3. LockMove(p) BY <1>1 DEF EndEverything, Locked, Turn, HasLock, Release
    <2>4. Keeps(p) BY <1>1 DEF EndEverything, Locked, Turn, HasLock, Release, Keeps
    <2>5. TgsMove(p) BY <1>1, TgsDown, TgsStays DEF EndEverything, Locked, Turn, HasLock, Release
    <2> QED BY <2>1, <2>4, <2>5, <2>2, <2>3 DEF Moves
  <1>2. CASE EeCancelled(p)
    <2>1. OthersMove(p) /\ ResMove(p) /\ LockMove(p) /\ TgMove(p) /\ RecMove(p)
      BY <1>2 DEF EeCancelled, Turn, Release, GoOn
    <2>2. Keeps(p) BY <1>2 DEF EeCancelled, Turn, Release, GoOn, Keeps
    <2>3. TgsMove(p) BY <1>2, TgsStays DEF EeCancelled, Turn, Release, GoOn
    <2> QED BY <2>1, <2>2, <2>3 DEF Moves
  <1>3. CASE EeLeg(p)
    <2>1. OthersMove(p) /\ ResMove(p) /\ LockMove(p) /\ TgMove(p) /\ RecMove(p)
      BY <1>3 DEF EeLeg, Turn, Either
    <2>2. Keeps(p) BY <1>3 DEF EeLeg, Turn, Either, Keeps
    <2>3. TgsMove(p) BY <1>3, TgsStays DEF EeLeg, Turn, Either
    <2> QED BY <2>1, <2>2, <2>3 DEF Moves
  <1>4. CASE EeTg(p)
    <2>1. OthersMove(p) /\ ResMove(p) /\ LockMove(p) /\ TgMove(p) /\ RecMove(p)
      BY <1>4 DEF EeTg, Turn, Finish, Await
    <2>2. Keeps(p) BY <1>4 DEF EeTg, Turn, Finish, Await, Keeps
    <2>3. TgsMove(p) BY <1>4, TgsDown DEF EeTg, Turn, Finish, Await
    <2> QED BY <2>1, <2>2, <2>3 DEF Moves
  <1> QED BY <1>1, <1>2, <1>3, <1>4 DEF EeStep

\* The commands.
LEMMA CommandStartMoves ==
  ASSUME Inv, Watched, Reserved, NEW p \in Cmds, CommandStart(p)
  PROVE  Moves(p) /\ Keeps(p)
  <1> p \in Proc OBVIOUS
  <1>1. CASE Hangup(p)
    <2>1. OthersMove(p) /\ ResMove(p) /\ LockMove(p) /\ TgMove(p) /\ RecMove(p)
      BY <1>1 DEF Hangup, Command, At, Finish, Await, Acquire, Queue
    <2>2. Keeps(p) BY <1>1 DEF Hangup, Command, At, Finish, Await, Acquire, Queue, Keeps
    <2>3. TgsMove(p) BY <1>1, TgsStays DEF Hangup, Command, At, Finish, Await, Acquire, Queue
    <2> QED BY <2>1, <2>2, <2>3 DEF Moves
  <1>2. CASE Decline(p)
    <2>1. OthersMove(p) /\ ResMove(p) /\ LockMove(p) /\ TgMove(p) /\ RecMove(p)
      BY <1>2 DEF Decline, Command, At, Finish, Await
    <2>2. Keeps(p) BY <1>2 DEF Decline, Command, At, Finish, Await, Keeps
    <2>3. TgsMove(p) BY <1>2, TgsDown, TgsStays DEF Decline, Command, At, Finish, Await
    <2> QED BY <2>1, <2>2, <2>3 DEF Moves
  <1>3. CASE Switch(p)
    <2>1. OthersMove(p) /\ ResMove(p) /\ LockMove(p) /\ TgMove(p) /\ RecMove(p)
      BY <1>3 DEF Switch, Command, At, Acquire, Queue
    <2>2. Keeps(p) BY <1>3 DEF Switch, Command, At, Acquire, Queue, Keeps
    <2>3. TgsMove(p) BY <1>3, TgsStays DEF Switch, Command, At, Acquire, Queue
    <2> QED BY <2>1, <2>2, <2>3 DEF Moves
  <1>4. CASE Consult(p)
    <2>1. OthersMove(p) /\ ResMove(p) /\ LockMove(p) /\ TgMove(p) /\ RecMove(p)
      BY <1>4 DEF Consult, Command, At, Reserve, Queue
    <2>2. Keeps(p) BY <1>4 DEF Consult, Command, At, Reserve, Queue, Keeps
    <2>3. TgsMove(p) BY <1>4, TgsStays DEF Consult, Command, At, Reserve, Queue
    <2> QED BY <2>1, <2>2, <2>3 DEF Moves
  <1>5. CASE Callback(p)
    <2>1. OthersMove(p) /\ ResMove(p) /\ LockMove(p) /\ TgMove(p) /\ RecMove(p)
      BY <1>5 DEF Callback, Command, At, Reserve
    <2>2. Keeps(p) BY <1>5 DEF Callback, Command, At, Reserve, Keeps
    <2>3. TgsMove(p) BY <1>5, TgsStays DEF Callback, Command, At, Reserve
    <2> QED BY <2>1, <2>2, <2>3 DEF Moves
  <1>6. CASE Transfer(p)
    <2>1. OthersMove(p) /\ ResMove(p) /\ LockMove(p) /\ TgMove(p) /\ RecMove(p)
      BY <1>6 DEF Transfer, Command, At, Acquire, Queue
    <2>2. Keeps(p) BY <1>6 DEF Transfer, Command, At, Acquire, Queue, Keeps
    <2>3. TgsMove(p) BY <1>6, TgsStays DEF Transfer, Command, At, Acquire, Queue
    <2> QED BY <2>1, <2>2, <2>3 DEF Moves
  <1>7. CASE Conference(p)
    <2>1. OthersMove(p) /\ ResMove(p) /\ LockMove(p) /\ TgMove(p) /\ RecMove(p)
      BY <1>7 DEF Conference, Command, At
    <2>2. Keeps(p) BY <1>7 DEF Conference, Command, At, Keeps
    <2>3. TgsMove(p) BY <1>7, TgsStays DEF Conference, Command, At
    <2> QED BY <2>1, <2>2, <2>3 DEF Moves
  <1> QED BY <1>1, <1>2, <1>3, <1>4, <1>5, <1>6, <1>7 DEF CommandStart

\* _switch.
LEMMA SwitchStepMoves ==
  ASSUME Inv, Watched, Reserved, NEW p \in Cmds, SwitchStep(p)
  PROVE  Moves(p) /\ Keeps(p)
  <1> p \in Proc OBVIOUS
  <1>1. CASE SwitchToWaiting(p)
    <2>1. OthersMove(p) /\ ResMove(p) /\ LockMove(p) /\ TgMove(p) /\ RecMove(p)
      BY <1>1 DEF SwitchToWaiting, Locked, Turn, HasLock, AfterReinvite
    <2>2. Keeps(p) BY <1>1 DEF SwitchToWaiting, Locked, Turn, HasLock, AfterReinvite, Keeps
    <2>3. TgsMove(p) BY <1>1, TgsStays DEF SwitchToWaiting, Locked, Turn, HasLock, AfterReinvite
    <2> QED BY <2>1, <2>2, <2>3 DEF Moves
  <1>2. CASE SwitchedToWaiting(p)
    <2>1. OthersMove(p) /\ ResMove(p) /\ LockMove(p) /\ TgMove(p) /\ RecMove(p)
      BY <1>2 DEF SwitchedToWaiting, Turn, Attached, Await
    <2>2. Keeps(p) BY <1>2 DEF SwitchedToWaiting, Turn, Attached, Await, Keeps
    <2>3. TgsMove(p) BY <1>2, TgsStays DEF SwitchedToWaiting, Turn, Attached, Await
    <2> QED BY <2>1, <2>2, <2>3 DEF Moves
  <1>3. CASE SwitchToHeld(p)
    <2>1. OthersMove(p) /\ ResMove(p) /\ LockMove(p) /\ TgMove(p) /\ RecMove(p)
      BY <1>3 DEF SwitchToHeld, Locked, Turn, HasLock, Either
    <2>2. Keeps(p) BY <1>3 DEF SwitchToHeld, Locked, Turn, HasLock, Either, Keeps
    <2>3. TgsMove(p) BY <1>3, TgsStays DEF SwitchToHeld, Locked, Turn, HasLock, Either
    <2> QED BY <2>1, <2>2, <2>3 DEF Moves
  <1>4. CASE SwitchedToHeld(p)
    <2>1. OthersMove(p) /\ ResMove(p) /\ LockMove(p) /\ TgMove(p) /\ RecMove(p)
      BY <1>4 DEF SwitchedToHeld, Turn, Attached, Await
    <2>2. Keeps(p) BY <1>4 DEF SwitchedToHeld, Turn, Attached, Await, Keeps
    <2>3. TgsMove(p) BY <1>4, TgsStays DEF SwitchedToHeld, Turn, Attached, Await
    <2> QED BY <2>1, <2>2, <2>3 DEF Moves
  <1> QED BY <1>1, <1>2, <1>3, <1>4 DEF SwitchStep

\* _dial and _dial_direct.
LEMMA DialStepMoves ==
  ASSUME Inv, Watched, Reserved, NEW p \in Cmds, DialStep(p)
  PROVE  Moves(p) /\ Keeps(p)
  <1> p \in Proc OBVIOUS
  <1>1. CASE ConsultHold(p)
    <2>1. OthersMove(p) /\ ResMove(p) /\ LockMove(p) /\ TgMove(p) /\ RecMove(p)
      BY <1>1 DEF ConsultHold, Locked, Turn, HasLock, AfterReinvite
    <2>2. Keeps(p) BY <1>1 DEF ConsultHold, Locked, Turn, HasLock, AfterReinvite, Keeps
    <2>3. TgsMove(p) BY <1>1, TgsStays DEF ConsultHold, Locked, Turn, HasLock, AfterReinvite
    <2> QED BY <2>1, <2>2, <2>3 DEF Moves
  <1>2. CASE ConsultRaise(p)
    <2>1. OthersMove(p) /\ ResMove(p) /\ LockMove(p) /\ TgMove(p) /\ RecMove(p)
      BY <1>2 DEF ConsultRaise, Locked, Turn, HasLock, Release, HandOver
    <2>2. Keeps(p) BY <1>2 DEF ConsultRaise, Locked, Turn, HasLock, Release, HandOver, Keeps
    <2>3. TgsMove(p) BY <1>2, TgsStays DEF ConsultRaise, Locked, Turn, HasLock, Release, HandOver
    <2> QED BY <2>1, <2>2, <2>3 DEF Moves
  <1>3. CASE ConsultHeld(p)
    <2>1. OthersMove(p) /\ ResMove(p) /\ LockMove(p) /\ TgMove(p) /\ RecMove(p)
      BY <1>3 DEF ConsultHeld, Turn, Release, HandOver
    <2>2. Keeps(p) BY <1>3 DEF ConsultHeld, Turn, Release, HandOver, Keeps
    <2>3. TgsMove(p) BY <1>3, TgsStays DEF ConsultHeld, Turn, Release, HandOver
    <2> QED BY <2>1, <2>2, <2>3 DEF Moves
  <1>4. CASE CbCall(p)
    <2>1. OthersMove(p) /\ ResMove(p) /\ LockMove(p) /\ TgMove(p) /\ RecMove(p)
      BY <1>4 DEF CbCall, At, Fresh, Await
    <2>2. Keeps(p) BY <1>4 DEF CbCall, At, Fresh, Await, Keeps
    <2>3. TgsMove(p) BY <1>4, TgsNew DEF CbCall, At, Fresh, Await
    <2> QED BY <2>1, <2>2, <2>3 DEF Moves
  <1>5. CASE CbFail(p)
    <2>1. OthersMove(p) /\ ResMove(p) /\ LockMove(p) /\ TgMove(p) /\ RecMove(p)
      BY <1>5 DEF CbFail, At, HandOver
    <2>2. Keeps(p) BY <1>5 DEF CbFail, At, HandOver, Keeps
    <2>3. TgsMove(p) BY <1>5, TgsStays DEF CbFail, At, HandOver
    <2> QED BY <2>1, <2>2, <2>3 DEF Moves
  <1>6. CASE CbWin(p)
    <2>1. OthersMove(p) /\ ResMove(p) /\ LockMove(p) /\ TgMove(p) /\ RecMove(p)
      BY <1>6 DEF CbWin, At, Acquire, Queue
    <2>2. Keeps(p) BY <1>6 DEF CbWin, At, Acquire, Queue, Keeps
    <2>3. TgsMove(p) BY <1>6, TgsPicked DEF CbWin, At, Acquire, Queue
    <2> QED BY <2>1, <2>2, <2>3 DEF Moves
  <1>7. CASE CbConnected(p)
    <2>1. OthersMove(p) /\ ResMove(p) /\ LockMove(p) /\ TgMove(p) /\ RecMove(p)
      BY <1>7 DEF CbConnected, Locked, Turn, HasLock, Release
    <2>2. Keeps(p) BY <1>7 DEF CbConnected, Locked, Turn, HasLock, Release, Keeps
    <2>3. TgsMove(p) BY <1>7, TgsStays DEF CbConnected, Locked, Turn, HasLock, Release
    <2> QED BY <2>1, <2>2, <2>3 DEF Moves
  <1>8. CASE DirectAttach(p)
    <2>1. OthersMove(p) /\ ResMove(p) /\ LockMove(p) /\ TgMove(p) /\ RecMove(p)
      BY <1>8 DEF DirectAttach, Locked, Turn, HasLock, Release, Attached
    <2>2. Keeps(p) BY <1>8 DEF DirectAttach, Locked, Turn, HasLock, Release, Attached, Keeps
    <2>3. TgsMove(p) BY <1>8, TgsStays DEF DirectAttach, Locked, Turn, HasLock, Release, Attached
    <2> QED BY <2>1, <2>2, <2>3 DEF Moves
  <1>9. CASE DirectLost(p)
    <2>1. OthersMove(p) /\ ResMove(p) /\ LockMove(p) /\ TgMove(p) /\ RecMove(p)
      BY <1>9 DEF DirectLost, Locked, Turn, HasLock
    <2>2. Keeps(p) BY <1>9 DEF DirectLost, Locked, Turn, HasLock, Keeps, HangTg, TgsT
    <2>3. TgsMove(p) BY <1>9, TgsDown DEF DirectLost, Locked, Turn, HasLock
    <2> QED BY <2>1, <2>2, <2>3 DEF Moves
  <1> QED BY <1>1, <1>2, <1>3, <1>4, <1>5, <1>6, <1>7, <1>8, <1>9 DEF DialStep

\* _transfer and _conference.
LEMMA MoveStepMoves ==
  ASSUME Inv, Watched, Reserved, NEW p \in Cmds, MoveStep(p)
  PROVE  Moves(p) /\ Keeps(p)
  <1> p \in Proc OBVIOUS
  <1>1. CASE TransferLegs(p)
    <2>1. OthersMove(p) /\ ResMove(p) /\ LockMove(p) /\ TgMove(p) /\ RecMove(p)
      BY <1>1 DEF TransferLegs, Locked, Turn, HasLock, Release, AfterReinvite
    <2>2. Keeps(p) BY <1>1 DEF TransferLegs, Locked, Turn, HasLock, Release, AfterReinvite, Keeps
    <2>3. TgsMove(p)
      BY <1>1, TgsStays DEF TransferLegs, Locked, Turn, HasLock, Release, AfterReinvite
    <2> QED BY <2>1, <2>2, <2>3 DEF Moves
  <1>2. CASE Transferred(p)
    <2>1. OthersMove(p) /\ ResMove(p) /\ LockMove(p) /\ TgMove(p) /\ RecMove(p)
      BY <1>2 DEF Transferred, Turn, Finish, Await
    <2>2. Keeps(p) BY <1>2 DEF Transferred, Turn, Finish, Await, Keeps
    <2>3. TgsMove(p) BY <1>2, TgsDown DEF Transferred, Turn, Finish, Await
    <2> QED BY <2>1, <2>2, <2>3 DEF Moves
  <1>3. CASE ConfRefer(p)
    <2>1. OthersMove(p) /\ ResMove(p) /\ LockMove(p) /\ TgMove(p) /\ RecMove(p)
      BY <1>3 DEF ConfRefer, At, Await, HandOver
    <2>2. Keeps(p) BY <1>3 DEF ConfRefer, At, Await, HandOver, Keeps
    <2>3. TgsMove(p) BY <1>3, TgsStays DEF ConfRefer, At, Await, HandOver
    <2> QED BY <2>1, <2>2, <2>3 DEF Moves
  <1>4. CASE ConfMoved(p)
    <2>1. OthersMove(p) /\ ResMove(p) /\ LockMove(p) /\ TgMove(p) /\ RecMove(p)
      BY <1>4 DEF ConfMoved, At, Acquire, Queue
    <2>2. Keeps(p) BY <1>4 DEF ConfMoved, At, Acquire, Queue, Keeps
    <2>3. TgsMove(p) BY <1>4, TgsStays DEF ConfMoved, At, Acquire, Queue
    <2> QED BY <2>1, <2>2, <2>3 DEF Moves
  <1>5. CASE ConfJoin(p)
    <2>1. OthersMove(p) BY <1>5 DEF ConfJoin, Locked, Turn, HasLock, Release
    <2>2. ResMove(p) /\ TgMove(p) /\ RecMove(p) BY <1>5 DEF ConfJoin, Locked, Turn, HasLock, Release
    <2>3. LockMove(p) BY <1>5 DEF ConfJoin, Locked, Turn, HasLock, Release
    <2>4. Keeps(p) BY <1>5 DEF ConfJoin, Locked, Turn, HasLock, Release, Keeps
    <2>5. TgsMove(p) BY <1>5, TgsStays DEF ConfJoin, Locked, Turn, HasLock, Release
    <2> QED BY <2>1, <2>4, <2>5, <2>2, <2>3 DEF Moves
  <1> QED BY <1>1, <1>2, <1>3, <1>4, <1>5 DEF MoveStep

\* The end of a critical section.
LEMMA UnlockMoves ==
  ASSUME Inv, Watched, Reserved, NEW p \in Proc, Unlock(p)
  PROVE  Moves(p) /\ Keeps(p)
  <1>1. OthersMove(p) /\ ResMove(p) /\ LockMove(p) /\ TgMove(p) /\ RecMove(p)
    BY DEF Unlock, NothingToDo, Locked, Turn, HasLock, At, Release, Finish, Await
  <1>2. Keeps(p)
    BY DEF Unlock, NothingToDo, Locked, Turn, HasLock, At, Release, Finish, Await, Keeps
  <1>3. TgsMove(p)
    BY TgsStays DEF Unlock, NothingToDo, Locked, Turn, HasLock, At, Release, Finish,
       Await
  <1> QED BY <1>1, <1>2, <1>3 DEF Moves

\* A notice that raises where the code does not expect it.
LEMMA NotifyRaiseMoves ==
  ASSUME Inv, Watched, Reserved, NEW p \in Proc, NotifyRaise(p)
  PROVE  Moves(p) /\ (NotifyRaises = FALSE => Keeps(p))
  <1>1. NotifyRaises BY DEF NotifyRaise
  <1>2. pc[p] \in NotifyLabels /\ pc'[p] = "done"
    BY DEF NotifyRaise, HandOver, Finish, Await, NotifyLabels
  <1>3. OthersMove(p)
    <2>1. CASE pc[p] = "cbNotify"
      <3>1. /\ my[p].leg \in OutLegs /\ pc[my[p].leg] = "reserved" /\ pc[p] \in ResLabels
            /\ pc'[p] \notin ResLabels
        BY <1>2, <2>1
      <3>2. /\ pc' = [pc EXCEPT ![p] = "done", ![my[p].leg] = "done"]
            /\ my' = [my EXCEPT ![p] = NoLocals]
        BY <2>1 DEF NotifyRaise, HandOver
      <3> QED BY <3>1, <3>2
    <2>2. CASE pc[p] # "cbNotify" BY <2>2 DEF NotifyRaise, Finish, Await
    <2> QED BY <2>1, <2>2
  <1>4. ResMove(p) /\ TgMove(p) /\ RecMove(p) BY <1>2 DEF NotifyRaise, NotifyLabels
  <1>5. LockMove(p)
    <2>1. CASE pc[p] \in HoldLabel
      <3>1. lockq # <<>> /\ lockq' = Tail(lockq) BY <2>1 DEF NotifyRaise
      <3> QED BY <1>2, <2>1, <3>1
    <2>2. CASE pc[p] \notin HoldLabel BY <1>2, <2>2 DEF NotifyRaise, NotifyLabels
    <2> QED BY <2>1, <2>2
  <1>6. TgsMove(p) BY <1>2, TgsStays DEF NotifyRaise
  <1> QED BY <1>1, <1>3, <1>4, <1>5, <1>6 DEF Moves

\* The PBX calls.
LEMMA ArriveMoves ==
  ASSUME Inv, Watched, Reserved, NEW p \in InLegs, Arrive(p)
  PROVE  Moves(p) /\ Keeps(p)
  <1> p \in Proc OBVIOUS
  <1>1. OthersMove(p) /\ ResMove(p) /\ LockMove(p) /\ TgMove(p) /\ RecMove(p)
    BY DEF Arrive, At, Either
  <1>2. Keeps(p) BY DEF Arrive, At, Either, Keeps
  <1>3. TgsMove(p) BY TgsStays DEF Arrive, At, Either
  <1> QED BY <1>1, <1>2, <1>3 DEF Moves

\* The PBX answers.
LEMMA SipAnswersMoves ==
  ASSUME Inv, Watched, Reserved, NEW p \in OutLegs, SipAnswers(p)
  PROVE  Still
  BY DEF SipAnswers, Still

\* A far end hangs up.
LEMMA SipEndsMoves ==
  ASSUME Inv, Watched, Reserved, NEW p \in Legs, SipEnds(p)
  PROVE  Still
  BY DEF SipEnds, Still

\* The user calls the gateway.
LEMMA TgIncomingMoves ==
  ASSUME Inv, Watched, Reserved, NEW p \in TgCalls, TgIncoming(p)
  PROVE  Moves(p) /\ Keeps(p)
  <1> p \in Proc OBVIOUS
  <1>1. OthersMove(p) /\ ResMove(p) /\ LockMove(p) /\ TgMove(p) /\ RecMove(p)
    BY DEF TgIncoming, At, Fresh, Reserve
  <1>2. Keeps(p) BY DEF TgIncoming, At, Fresh, Reserve, Keeps
  <1>3. TgsMove(p) BY TgsNew DEF TgIncoming, At, Fresh, Reserve
  <1> QED BY <1>1, <1>2, <1>3 DEF Moves

\* A Telegram call that is refused at once.
LEMMA TgDeclineMoves ==
  ASSUME Inv, Watched, Reserved, NEW p \in TgCalls, TgDecline(p)
  PROVE  Moves(p) /\ Keeps(p)
  <1> p \in Proc OBVIOUS
  <1>1. OthersMove(p) /\ ResMove(p) /\ LockMove(p) /\ TgMove(p) /\ RecMove(p)
    BY DEF TgDecline, At, Fresh, Finish, Await
  <1>2. Keeps(p) BY DEF TgDecline, At, Fresh, Finish, Await, Keeps
  <1>3. TgsMove(p) BY TgsNew DEF TgDecline, At, Fresh, Finish, Await
  <1> QED BY <1>1, <1>2, <1>3 DEF Moves

\* The Telegram side ends its call.
LEMMA TgEndsMoves ==
  ASSUME Inv, Watched, Reserved, NEW p \in TgCalls, TgEnds(p)
  PROVE  Still
  BY DEF TgEnds, Still

HIDE DEF OthersMove, Untouched, Begins, Cancels, ResMove, LockMove, TgMove, RecMove, PendMove,
         ServeMove, ResLabels, QueueLabels, LockLabel, HoldLabel, RecLabels, BackLabels,
         ServeLabels, TgLabels, LegLabels, Inv, Typed, Guarded, Watched, PcT, MyT, UT, User, Locals,
         LocalsOK, LockHeld, Placed, Reserved, RecInv, TgWatched, Proc, Legs

-----------------------------------------------------------------------------
(* Every step.                                                             *)

LEMMA NextMoves ==
  ASSUME Inv, Watched, Reserved, [Next]_vars
  PROVE  Still \/ \E p \in Proc : Moves(p) /\ (NotifyRaises = FALSE => Keeps(p))
  <1>1. ASSUME NEW p \in Proc, SystemStep(p) PROVE Still \/ (Moves(p) /\ Keeps(p))
    BY <1>1, InLegStepMoves, OutLegStepMoves, LegStepMoves, TgStepMoves, RecStepMoves,
       EeStepMoves, SwitchStepMoves, DialStepMoves, MoveStepMoves, UnlockMoves DEF SystemStep
  <1>2. ASSUME NEW p \in Proc, EnvironmentStep(p)
        PROVE  Still \/ (Moves(p) /\ (NotifyRaises = FALSE => Keeps(p)))
    BY <1>2, ArriveMoves, SipAnswersMoves, SipEndsMoves, TgIncomingMoves, TgDeclineMoves,
       TgEndsMoves, CommandStartMoves, NotifyRaiseMoves DEF EnvironmentStep
  <1>3. CASE \E p \in pairs : PairEnded(p) BY <1>3 DEF PairEnded, Still
  <1>4. CASE UNCHANGED vars BY <1>4 DEF vars, Still
  <1> QED BY <1>1, <1>2, <1>3, <1>4 DEF Next, Quiet

LEMMA StillKeeps ==
  ASSUME Still, UT, Orderly
  PROVE  /\ Orderly' /\ (PendingBacked => PendingBacked') /\ (Served => Served')
         /\ (NoRec => NoRec') /\ (NoSelfWait => NoSelfWait') /\ u'.tg = u.tg
  <1>1. \A t \in TgCalls : /\ tgs'[t] \in LiveTg => tgs[t] \in LiveTg
                           /\ tgs'[t] = "none" => tgs[t] = "none"
                           /\ tgs'[t] = "up" => tgs[t] = "up"
    BY DEF Still, LiveTg
  <1>2. u.tg # None => u.tg \in TgCalls BY SlotT
  <1>3. UNCHANGED <<u, lockq, pc, my>> BY DEF Still
  <1>4. Reserved' /\ InQueue' /\ OnlyQueued' /\ HeldOnce'
    BY <1>3 DEF Orderly, Reserved, InQueue, OnlyQueued, HeldOnce
  <1>5. OneLive' /\ Begun' BY <1>1, <1>2, <1>3 DEF Orderly, OneLive, Begun
  <1>6. Served => Served' BY <1>1, <1>2, <1>3 DEF Served
  <1> QED BY <1>3, <1>4, <1>5, <1>6 DEF Orderly, PendingBacked, NoRec, NoSelfWait

LEMMA NextOrderly == Inv /\ Watched /\ Orderly /\ [Next]_vars => Orderly'
  <1> SUFFICES ASSUME Inv, Watched, Orderly, [Next]_vars PROVE Orderly' OBVIOUS
  <1>1. CASE Still BY <1>1, StillKeeps DEF Inv, Typed
  <1>2. ASSUME NEW p \in Proc, Moves(p) PROVE Orderly'
    <2>1. Reserved' BY <1>2, ReservedMoves DEF Inv, Typed, Orderly, Moves
    <2>2. InQueue' /\ OnlyQueued' /\ HeldOnce' BY <1>2, QueueMoves
         DEF Inv, Typed, Guarded, Orderly, Moves
    <2>3. OneLive' /\ Begun' BY <1>2, TgsMoves DEF Inv, Typed, Guarded, Watched, Orderly, Moves
    <2> QED BY <2>1, <2>2, <2>3 DEF Orderly
  <1> QED BY <1>1, <1>2, NextMoves DEF Orderly

LEMMA InitOrderly == Init => Orderly
  <1> SUFFICES ASSUME Init PROVE Orderly OBVIOUS
  <1>1. \A p \in Proc : pc[p] = "idle" BY DEF Init
  <1>2. lockq = <<>> /\ u.tg = None /\ \A t \in TgCalls : tgs[t] = "none" BY DEF Init
  <1>3. Reserved BY <1>1 DEF Reserved, ResLabels
  <1>4. InQueue /\ OnlyQueued /\ HeldOnce BY <1>1, <1>2, QueueNone
       DEF InQueue, OnlyQueued, HeldOnce, QueueLabels
  <1>5. OneLive /\ Begun BY <1>1, <1>2 DEF OneLive, Begun, LiveTg, Proc
  <1> QED BY <1>3, <1>4, <1>5 DEF Orderly

LEMMA AllHolds == Spec => [](Inv /\ Watched /\ Orderly)
  <1>1. Init => Inv /\ Watched /\ Orderly BY InitInv, InitWatched, InitOrderly
  <1>2. Inv /\ Watched /\ Orderly /\ [Next]_vars => (Inv /\ Watched /\ Orderly)'
    BY NextKeeps, NextWatches, NextOrderly
  <1> QED BY <1>1, <1>2, PTL DEF Spec

-----------------------------------------------------------------------------
(* The theorems.                                                           *)

LEMMA NoRecMoves ==
  ASSUME Reconnect = FALSE, NoRec, PcT, NEW p \in Proc, OthersMove(p), RecMove(p)
  PROVE  NoRec'
  <1>1. \A q \in Proc \ {p} : pc'[q] \notin RecLabels
    BY DEF NoRec, OthersMove, Untouched, Begins, Cancels, RecLabels
  <1> QED BY <1>1 DEF NoRec, RecMove

LEMMA OnceMoves ==
  ASSUME NoRec, NoSelfWait, LockT, LockHeld, OnlyQueued, HeldOnce, NEW p \in Proc, LockMove(p)
  PROVE  NoSelfWait'
  <1>1. CASE lockq' = lockq BY <1>1 DEF NoSelfWait
  <1>2. CASE lockq' = Append(lockq, p) /\ (pc[p] \notin QueueLabels \/ pc[p] = "recHang")
    <2>1. pc[p] \notin QueueLabels BY <1>2 DEF NoRec, RecLabels
    <2>2. \A i \in 1..Len(lockq) : lockq[i] # p BY <2>1 DEF OnlyQueued
    <2>3. /\ Len(lockq') = Len(lockq) + 1 /\ lockq'[Len(lockq')] = p /\ Len(lockq) \in Nat
          /\ \A i \in 1..Len(lockq) : lockq'[i] = lockq[i]
      BY <1>2 DEF LockT
    <2> QED BY <2>2, <2>3 DEF NoSelfWait
  <1>3. ASSUME lockq # <<>>, HasLock(p) \/ pc[p] \in HoldLabel
        PROVE  /\ Len(lockq) \in Nat \ {0} /\ Len(Tail(lockq)) = Len(lockq) - 1
               /\ \A i \in 1..Len(lockq) - 1 : /\ Tail(lockq)[i] = lockq[i + 1]
                                               /\ lockq[i + 1] # p
    BY <1>3 DEF LockT, HasLock, HeldOnce, LockHeld
  <1>4. CASE lockq # <<>> /\ lockq' = Tail(lockq) /\ (HasLock(p) \/ pc[p] \in HoldLabel)
    <2> SUFFICES ASSUME NEW i \in 1..Len(lockq'), NEW j \in 1..Len(lockq'), lockq'[i] = lockq'[j]
                 PROVE  i = j
      BY DEF NoSelfWait
    <2>1. /\ i + 1 \in 1..Len(lockq) /\ j + 1 \in 1..Len(lockq)
          /\ lockq[i + 1] = lockq[j + 1]
      BY <1>3, <1>4
    <2>2. i + 1 = j + 1 BY <2>1 DEF NoSelfWait
    <2> QED BY <1>3, <1>4, <2>2
  <1>5. CASE HasLock(p) /\ lockq' = Append(Tail(lockq), p)
    <2>1. lockq # <<>> BY <1>5 DEF HasLock
    <2>2. Tail(lockq) \in Seq(Proc) BY <2>1 DEF LockT
    <2>3. /\ Len(lockq') = Len(lockq) /\ lockq'[Len(lockq)] = p /\ Len(lockq) \in Nat \ {0}
          /\ \A i \in 1..Len(lockq) - 1 : lockq'[i] = lockq[i + 1] /\ lockq[i + 1] # p
      <3>1. /\ Len(lockq') = Len(Tail(lockq)) + 1 /\ lockq'[Len(Tail(lockq)) + 1] = p
            /\ \A i \in 1..Len(Tail(lockq)) : lockq'[i] = Tail(lockq)[i]
        BY <1>5, <2>2
      <3> QED BY <1>3, <1>5, <2>1, <3>1
    <2> SUFFICES ASSUME NEW i \in 1..Len(lockq'), NEW j \in 1..Len(lockq'), lockq'[i] = lockq'[j]
                 PROVE  i = j
      BY DEF NoSelfWait
    <2>4. CASE i = Len(lockq) \/ j = Len(lockq) BY <2>3, <2>4
    <2>5. CASE i # Len(lockq) /\ j # Len(lockq)
      <3>1. /\ i + 1 \in 1..Len(lockq) /\ j + 1 \in 1..Len(lockq)
            /\ lockq[i + 1] = lockq[j + 1]
        BY <2>3, <2>5
      <3>2. i + 1 = j + 1 BY <3>1 DEF NoSelfWait
      <3> QED BY <2>3, <3>2
    <2> QED BY <2>4, <2>5
  <1> QED BY <1>1, <1>2, <1>4, <1>5 DEF LockMove

\* Without reconnection no task ever asks for the UserState.lock it holds or waits for twice:
\* the only place where the code does is _reconnect (manager.py:823).
THEOREM NeverSelfWaits ==
  ASSUME Reconnect = FALSE
  PROVE  Spec => []NoSelfWait
  <1>1. Init => NoRec /\ NoSelfWait BY DEF Init, NoRec, RecLabels, NoSelfWait
  <1>2. Inv /\ Watched /\ Orderly /\ NoRec /\ NoSelfWait /\ [Next]_vars => (NoRec /\ NoSelfWait)'
    <2> SUFFICES ASSUME Inv, Watched, Orderly, NoRec, NoSelfWait, [Next]_vars
                 PROVE  NoRec' /\ NoSelfWait'
      OBVIOUS
    <2>1. CASE Still BY <2>1, StillKeeps DEF Inv, Typed
    <2>2. ASSUME NEW p \in Proc, Moves(p) PROVE NoRec' /\ NoSelfWait'
      BY <2>2, NoRecMoves, OnceMoves DEF Inv, Typed, Guarded, Orderly, Moves
    <2> QED BY <2>1, <2>2, NextMoves DEF Orderly
  <1> QED BY <1>1, <1>2, AllHolds, PTL DEF Spec

\* When notices do not raise, tg_pending never stays set without a task that will clear it,
\* whatever calls, cancellations, commands and reconnections interleave: the user is not left
\* refusing every call.
THEOREM PendingIsBacked ==
  ASSUME NotifyRaises = FALSE
  PROVE  Spec => []PendingBacked
  <1>1. Init => PendingBacked BY DEF Init, PendingBacked
  <1>2. Inv /\ Watched /\ Orderly /\ PendingBacked /\ [Next]_vars => PendingBacked'
    <2> SUFFICES ASSUME Inv, Watched, Orderly, PendingBacked, [Next]_vars PROVE PendingBacked'
      OBVIOUS
    <2>1. CASE Still BY <2>1, StillKeeps DEF Inv, Typed
    <2>2. ASSUME NEW p \in Proc, Moves(p), Keeps(p) PROVE PendingBacked'
      BY <2>2, PendMoves DEF Inv, Typed, Moves, Keeps
    <2> QED BY <2>1, <2>2, NextMoves DEF Orderly
  <1> QED BY <1>1, <1>2, AllHolds, PTL DEF Spec

LEMMA ServedIsServed == InQueue /\ Served => TgServed
  <1> SUFFICES ASSUME InQueue, Served, u.tg # None, tgs[u.tg] = "up", u.active = None, lockq = <<>>
               PROVE  \E p \in Proc : pc[p] \in
                        {"invite", "invite2", "dialFailed", "dialFailed2", "dialUnhold", "eeLegs"}
    BY DEF TgServed
  <1>1. PICK p \in Proc : pc[p] \in ServeLabels BY DEF Served
  <1>2. pc[p] \notin QueueLabels BY DEF InQueue
  <1>3. {"dialLock", "eeLock", "endNext", "endUnhold"} \subseteq QueueLabels
    BY DEF QueueLabels, LockLabel, HoldLabel
  <1> QED BY <1>1, <1>2, <1>3 DEF ServeLabels

\* When notices do not raise, a connected Telegram user always has an active leg, or a task
\* that is attaching one or taking the call down: ends, switches, dialling, transfers and
\* reconnections leave nobody on a silent line.
THEOREM TgIsServed ==
  ASSUME NotifyRaises = FALSE
  PROVE  Spec => []TgServed
  <1>1. Init => Served BY DEF Init, Served
  <1>2. Inv /\ Watched /\ Orderly /\ Served /\ [Next]_vars => Served'
    <2> SUFFICES ASSUME Inv, Watched, Orderly, Served, [Next]_vars PROVE Served'
      OBVIOUS
    <2>1. CASE Still BY <2>1, StillKeeps DEF Inv, Typed
    <2>2. ASSUME NEW p \in Proc, Moves(p), Keeps(p) PROVE Served'
      BY <2>2, ServeMoves DEF Inv, Typed, Guarded, Moves, Keeps
    <2> QED BY <2>1, <2>2, NextMoves DEF Orderly
  <1>3. Orderly /\ Served => TgServed BY ServedIsServed DEF Orderly
  <1> QED BY <1>1, <1>2, <1>3, AllHolds, PTL DEF Spec

\* UserState.tg is overwritten by another call only when one of the two is over, through every
\* handler and every window between their awaits: no live Telegram call is lost to another.
THEOREM TgIsKept == Spec => TgKept
  <1>1. Inv /\ Watched /\ Orderly /\ [Next]_vars =>
          [u.tg # None /\ u'.tg \notin {u.tg, None} => "ended" \in {tgs[u.tg], tgs[u'.tg]}]_vars
    <2> SUFFICES ASSUME Inv, Watched, Orderly, [Next]_vars, u.tg # None, u'.tg \notin {u.tg, None}
                 PROVE  "ended" \in {tgs[u.tg], tgs[u'.tg]}
      OBVIOUS
    <2>1. u.tg \in TgCalls /\ tgs[u.tg] # "none" BY SlotT DEF Inv, Typed, Orderly, Begun
    <2>2. PICK p \in Proc : Moves(p)
      BY NextMoves, StillKeeps DEF Orderly, Inv, Typed
    <2>3. u'.tg \in TgCalls /\ tgs[u'.tg] # "none"
      BY <2>2, TgLocal DEF Moves, TgMove, Inv, Typed, Guarded, Watched, Placed, Orderly, Begun
    <2>4. \A t \in TgCalls : tgs[t] \in {"none", "ended"} \cup LiveTg
      BY DEF Inv, Typed, TgsT, TgState, LiveTg
    <2> QED BY <2>1, <2>3, <2>4 DEF Orderly, OneLive
  <1> QED BY <1>1, AllHolds, PTL DEF Spec, TgKept

=============================================================================
