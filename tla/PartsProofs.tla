--------------------------- MODULE PartsProofs -----------------------------
(***************************************************************************)
(* Proofs about the smaller components, one section each: no crash loses a *)
(* saved file, a registered line is covered by its lease, one of those a   *)
(* call rings for takes it, audio is heard in the order it was sent, the   *)
(* loss reported is the loss there was, the digits pressed are heard, a    *)
(* call rings by the rules of whom it calls, and the rate limit of the API *)
(* holds over any minute.                                                  *)
(*                                                                         *)
(* The sections share the first one only: facts about natural numbers and  *)
(* sequences that the prover's library does not state.                     *)
(***************************************************************************)
EXTENDS RtcpStats, RtpDtmf, AudioBridge, Screening, StateFile, ApiGuard, Line, RingAll,
        SequenceTheorems, FiniteSetTheorems, WellFoundedInduction, TLAPS

\* Every set of naturals that is not empty has a least element.
LEMMA LeastNatural == ASSUME NEW T \in SUBSET Nat, T # {} PROVE \E n \in T : \A m \in T : n <= m
  <1> DEFINE R == OpToRel(<, Nat)
  <1>1. IsWellFoundedOn(R, Nat) BY NatLessThanWellFounded
  <1>2. \A m, n \in Nat : m < n => <<m, n>> \in R BY Zenon DEF OpToRel
  <1>3. PICK x \in T : \A y \in T : ~ (<<y, x>> \in R)
    <2> HIDE DEF R
    <2> QED BY <1>1, WFMin
  <1> HIDE DEF R
  <1>4. ASSUME NEW y \in T PROVE x <= y
    <2>1. ~(y < x) BY <1>2, <1>3, Zenon
    <2> QED BY <2>1
  <1> QED BY <1>4

\* A set that has a and with each number below b the next one has every number from a to b.
LEMMA UpFrom ==
    ASSUME NEW a \in Nat, NEW b \in Nat, NEW T, a \in T, \A n \in a .. b - 1 : n \in T => n + 1 \in T
    PROVE  \A n \in a .. b : n \in T
  <1> DEFINE U == {n \in a .. b : n \notin T}
  <1> SUFFICES ASSUME U # {} PROVE FALSE OBVIOUS
  <1>1. U \in SUBSET Nat OBVIOUS
  <1>2. PICK n \in U : \A m \in U : n <= m
    <2> HIDE DEF U
    <2> QED BY <1>1, LeastNatural
  <1>3. n \in a .. b /\ n \notin T /\ n # a OBVIOUS
  <1>4. n - 1 \in a .. b - 1 /\ n - 1 \in a .. b /\ n - 1 < n /\ (n - 1) + 1 = n BY <1>3
  <1>5. n - 1 \in T BY <1>2, <1>4
  <1> QED BY <1>3, <1>4, <1>5

\* Where the elements of two sequences stand when the second follows the first.
LEMMA Joined ==
    ASSUME NEW D, NEW s \in Seq(D), NEW t \in Seq(D)
    PROVE  /\ s \o t \in Seq(D) /\ Len(s) \in Nat /\ Len(t) \in Nat /\ Len(s \o t) = Len(s) + Len(t)
           /\ \A i \in 1 .. Len(s) : (s \o t)[i] = s[i]
           /\ \A i \in 1 .. Len(t) : (s \o t)[Len(s) + i] = t[i]
  <1> DEFINE st == s \o t
  <1>1. Len(s) \in Nat /\ Len(t) \in Nat BY LenProperties
  <1>2. /\ st \in Seq(D) /\ Len(st) = Len(s) + Len(t)
        /\ \A i \in 1 .. Len(s) + Len(t) : st[i] = IF i <= Len(s) THEN s[i] ELSE t[i - Len(s)]
    BY ConcatProperties
  <1> HIDE DEF st
  <1>3. \A i \in 1 .. Len(s) : st[i] = s[i] BY <1>1, <1>2
  <1>4. ASSUME NEW i \in 1 .. Len(t) PROVE st[Len(s) + i] = t[i]
    <2>1. Len(s) + i \in 1 .. Len(s) + Len(t) /\ ~(Len(s) + i <= Len(s)) /\ (Len(s) + i) - Len(s) = i BY <1>1
    <2> QED BY <1>2, <2>1
  <1> QED BY <1>1, <1>2, <1>3, <1>4 DEF st

-----------------------------------------------------------------------------
(***************************************************************************)
(* The state files.                                                        *)
(*                                                                         *)
(* NothingLost speaks of the live and the old file only.  What makes it    *)
(* inductive is that a temporary file about to replace the live one has    *)
(* been written whole, and that only the history is rotated.               *)
(***************************************************************************)
Tables == Seq(Nat)
Contents == Tables \cup {Absent, Torn}

FileType ==
    /\ table \in Tables
    /\ disk \in [live : Contents, old : Contents, tmp : Contents]
    /\ saving \in {"no", "rotate", "write", "text", "replace"}
    /\ kept \in Contents
    /\ made \in [changes : Nat, crashes : Nat]

\* What the steps of a save have done so far.
SaveSteps ==
    /\ saving = "rotate" => Rotates
    /\ saving = "replace" => disk.tmp \in Tables

FileInv == FileType /\ SaveSteps /\ NothingLost

\* A table cannot be taken for a torn or an absent file.
LEMMA TablesAreWhole == \A t \in Tables : t # Torn /\ t # Absent
  <1> SUFFICES ASSUME NEW t \in Tables, t = <<-1>> \/ t = <<-2>> PROVE FALSE
    BY DEF Torn, Absent
  <1>1. 1 \in 1 .. Len(t) /\ t[1] \notin Nat OBVIOUS
  <1>2. \A i \in 1 .. Len(t) : t[i] \in Nat BY DEF Tables
  <1> QED BY <1>1, <1>2

LEMMA MarksDiffer == Torn # Absent
  BY DEF Torn, Absent

LEMMA NewestIsTable == ASSUME NEW s \in Tables, NEW n \in Nat PROVE Newest(s, n) \in Tables
  <1> DEFINE m == IF Len(s) > n THEN Len(s) - n + 1 ELSE 1
  <1>1. Len(s) \in Nat /\ m \in Int /\ m >= 1 BY DEF Tables
  <1>2. \A i \in m .. Len(s) : s[i] \in Nat BY <1>1 DEF Tables
  <1>3. SubSeq(s, m, Len(s)) \in Seq(Nat) BY <1>1, <1>2, SubSeqProperties
  <1> QED BY <1>3 DEF Newest, Tables

LEMMA FileInitInv == FileInit => FileInv
  BY MarksDiffer DEF FileInit, FileInv, FileType, SaveSteps, NothingLost, Contents, Tables, Rotates

LEMMA FileNextInv == FileInv /\ [FileNext]_fileVars => FileInv'
  <1> SUFFICES ASSUME FileInv, [FileNext]_fileVars PROVE FileInv' OBVIOUS
  <1> USE FileAssumption DEF FileInv
  <1>1. CASE Change
    <2>1. <<made.changes + 1>> \in Tables /\ Append(table, made.changes + 1) \in Tables
      BY DEF FileType, Tables
    <2>2. table' \in Tables
      BY <1>1, <2>1, NewestIsTable DEF Change
    <2> QED BY <1>1, <2>2 DEF Change, FileType, SaveSteps, NothingLost, Rotates
  <1>2. CASE Prune
    BY <1>2 DEF Prune, FileType, SaveSteps, NothingLost, Rotates, Tables
  <1>3. CASE Rotate
    <2>1. table' \in Tables
      BY <1>3, NewestIsTable DEF Rotate, FileType
    <2>2. disk' \in [live : Contents, old : Contents, tmp : Contents]
      BY <1>3 DEF Rotate, FileType, Contents
    <2>3. NothingLost'
      BY <1>3, MarksDiffer DEF Rotate, FileType, SaveSteps, NothingLost, Rotates
    <2> QED BY <1>3, <2>1, <2>2, <2>3 DEF Rotate, FileType, SaveSteps
  <1>4. CASE OpenTmp
    BY <1>4 DEF OpenTmp, FileType, SaveSteps, NothingLost, Rotates, Contents
  <1>5. CASE WriteTmp
    BY <1>5 DEF WriteTmp, FileType, SaveSteps, NothingLost, Rotates, Contents
  <1>6. CASE Replace
    <2>1. disk.tmp \in Tables BY <1>6 DEF Replace, SaveSteps
    <2>2. disk.tmp # Torn BY <2>1, TablesAreWhole
    <2> QED BY <1>6, <2>1, <2>2 DEF Replace, FileType, SaveSteps, NothingLost, Rotates, Contents
  <1>7. CASE SaveFails
    BY <1>7 DEF SaveFails, FileType, SaveSteps, NothingLost, Rotates
  <1>8. CASE Restart
    <2>1. table' \in Tables
      <3>1. CASE disk.live \in {Absent, Torn} BY <1>8, <3>1 DEF Restart, Tables
      <3>2. CASE disk.live \notin {Absent, Torn}
        <4>1. disk.live \in Tables BY <3>2 DEF FileType, Contents
        <4> QED BY <1>8, <3>2, <4>1, NewestIsTable DEF Restart
      <3> QED BY <3>1, <3>2
    <2> QED BY <1>8, <2>1 DEF Restart, FileType, SaveSteps, NothingLost, Rotates
  <1>9. CASE UNCHANGED fileVars
    BY <1>9 DEF fileVars, FileType, SaveSteps, NothingLost, Rotates
  <1> QED
    BY <1>1, <1>2, <1>3, <1>4, <1>5, <1>6, <1>7, <1>8, <1>9 DEF FileNext

\* Whenever the process is killed, and whichever writes fail, the live file is the one of the last
\* save that succeeded, or a rotation has put it aside (history.py and prefs.py, _save).
THEOREM SavedIsKept == FileSpec => []NothingLost
  <1>1. FileInv => NothingLost BY DEF FileInv
  <1> QED BY <1>1, FileInitInv, FileNextInv, PTL DEF FileSpec

-----------------------------------------------------------------------------
(***************************************************************************)
(* The line.                                                               *)
(*                                                                         *)
(* LeaseCovers says that the lease has not run out while the loop sleeps.  *)
(* The inductive invariant says by how much: what is left to sleep is      *)
(* always shorter than the lease, because Wait(e) is shorter than e.       *)
(***************************************************************************)
LineType ==
    /\ reg \in [pc : {"ask", "sleep", "delay", "retry", "leave", "off"}, left : Nat, expires : Nat]
    /\ registered \in BOOLEAN /\ reach \in BOOLEAN /\ stopping \in BOOLEAN
    /\ lease \in Nat /\ conn \in {"up", "down"}

\* A sleeping loop wakes before its lease ends; only a stopped line has left the loop.
AwakeInTime ==
    /\ reg.pc = "sleep" => registered /\ conn = "up" /\ reg.left < lease
    /\ stopping => reg.pc \in {"leave", "off"}
    /\ registered /\ ~stopping => conn = "up"

LineInv == LineType /\ AwakeInTime

\* max(10, min(e / 2, e - 15)) is shorter than any lifetime over ten seconds (account.py:498).
LEMMA WaitIsShorter == ASSUME NEW e \in Nat, e > 2 PROVE Wait(e) \in Nat /\ Wait(e) < e
  <1>1. (e + 1) \div 2 \in Nat /\ (e + 1) \div 2 <= e - 1 OBVIOUS
  <1> QED BY <1>1 DEF Wait

LEMMA LineInitInv == LineInit => LineInv
  <1> SUFFICES ASSUME LineInit PROVE LineInv OBVIOUS
  <1>1. reg = [pc |-> "ask", left |-> 0, expires |-> Asked] /\ lease = 0 /\ conn = "up"
    BY DEF LineInit
  <1>2. registered = FALSE /\ reach = TRUE /\ stopping = FALSE BY DEF LineInit
  <1>3. registered \in BOOLEAN /\ reach \in BOOLEAN /\ stopping \in BOOLEAN BY <1>2, Zenon
  <1>4. AwakeInTime BY <1>1, <1>2 DEF AwakeInTime
  <1>5. LineType BY <1>1, <1>3, LineAssumption DEF LineType
  <1> QED BY <1>4, <1>5 DEF LineInv

LEMMA LineNextInv == LineInv /\ [LineNext]_lineVars => LineInv'
  <1> SUFFICES ASSUME LineInv, [LineNext]_lineVars PROVE LineInv' OBVIOUS
  <1> USE LineAssumption DEF LineInv, LineType, AwakeInTime
  <1>1. CASE Wake BY <1>1 DEF Wake
  <1>2. CASE Connect BY <1>2 DEF Connect
  <1>3. CASE TooBrief BY <1>3 DEF TooBrief
  <1>4. CASE Tick BY <1>4 DEF Tick
  <1>5. CASE Left BY <1>5 DEF Left, RegistrationFails
  <1>6. CASE ReportDown BY <1>6 DEF ReportDown
  <1>7. CASE SayDown BY <1>7 DEF SayDown
  <1>8. CASE SayOk BY <1>8 DEF SayOk
  <1>9. ASSUME NEW e \in Grants, Granted(e) PROVE LineInv'
    <2>1. e \in Nat /\ e > 2 OBVIOUS
    <2>2. Wait(e) \in Nat /\ Wait(e) < e BY <2>1, WaitIsShorter
    <2> QED BY <1>9, <2>1, <2>2 DEF Granted, RegistrationOk
  <1>10. CASE AskFails BY <1>10 DEF AskFails, RegistrationFails
  <1>11. CASE ConnectionLost BY <1>11 DEF ConnectionLost, RegistrationFails
  <1>12. CASE ReachChanges BY <1>12 DEF ReachChanges
  <1>13. CASE LineStop BY <1>13 DEF LineStop
  <1>14. CASE UNCHANGED lineVars BY <1>14 DEF lineVars
  <1> QED
    BY <1>1, <1>2, <1>3, <1>4, <1>5, <1>6, <1>7, <1>8, <1>9, <1>10, <1>11, <1>12, <1>13, <1>14
       DEF LineNext, LineSystem

\* Whatever is granted, refused or lost, a loop that sleeps as registered is woken before the
\* registrar forgets the line, and a registered line has a connection (account.py, _register_loop).
THEOREM LeaseIsKept == LineSpec => []LeaseCovers
  <1>1. LineInv => LeaseCovers BY DEF LineInv, LineType, AwakeInTime, LeaseCovers
  <1> QED BY <1>1, LineInitInv, LineNextInv, PTL DEF LineSpec

-----------------------------------------------------------------------------
(***************************************************************************)
(* Ringing several users.                                                  *)
(*                                                                         *)
(* OneAnswers compares two users.  The inductive invariant says of each    *)
(* what its own call, the call the engine has of it, and the tasks of      *)
(* every ring know of each other: who talks won a ring that is over, and a *)
(* task that is up belongs to a call of the engine that nobody else has.   *)
(***************************************************************************)
Whose == Callers \cup {"own", "none"}
RingPcs == {"new", "tell", "place", "ring", "cancel", "done"}
EngineCalls == [of : Whose, up : BOOLEAN]
Rings == [pc : RingPcs, todo : SUBSET Owners, winner : Owners \cup {"none"}]
TaskStates == {"no", "wait", "up", "failed"}

RingType ==
    /\ tg \in [Owners -> Whose]
    /\ engine \in [Owners -> EngineCalls]
    /\ task \in [Callers -> [Owners -> TaskStates]]
    /\ ring \in [Callers -> Rings]
    /\ caller \in [Callers -> {"ringing", "up", "down"}]

\* Who talks has a call of the engine that is up, and is the one who won the ring.
TalksAt(u) == tg[u] # "none" =>
    /\ engine[u].of = tg[u] /\ engine[u].up = TRUE
    /\ tg[u] \in Callers => ring[tg[u]].pc = "done" /\ ring[tg[u]].winner = u

\* A ring begins with no task and ends with none; it has a winner from the first answer on.
TasksAt(c, u) ==
    /\ ring[c].pc \in {"new", "done"} => task[c][u] = "no"
    /\ ring[c].pc \in {"tell", "place"} => task[c][u] \in {"no", "wait"}
    /\ ring[c].winner # "none" => ring[c].pc \in {"cancel", "done"}
    /\ ring[c].winner = u => task[c][u] = "no"

\* A call of the engine for a caller is that of a task, of the winner, or of two who talk.
CalledAt(c, u) == engine[u].of = c =>
    /\ ring[c].pc \in {"ring", "cancel", "done"}
    /\ ring[c].pc = "done" => tg[u] = c
    /\ ring[c].pc # "done" => task[c][u] \in {"wait", "up"} \/ ring[c].winner = u
    /\ engine[u].up = TRUE <=> task[c][u] = "up" \/ ring[c].winner = u

UpAt(c) == caller[c] = "up" => \E u \in Owners : tg[u] = c

RingInv ==
    /\ RingType
    /\ \A u \in Owners : TalksAt(u)
    /\ \A c \in Callers, u \in Owners : TasksAt(c, u) /\ CalledAt(c, u)
    /\ \A c \in Callers : UpAt(c)

LEMMA RingInitInv == RingInit => RingInv
  BY RingAssumption DEF RingInit, RingInv, RingType, TalksAt, TasksAt, CalledAt, UpAt, NoCall, Whose, RingPcs, EngineCalls, Rings, TaskStates

LEMMA Apart ==
    /\ "own" \notin Callers /\ "none" \notin Callers /\ "none" \notin Owners
    /\ NoCall = [of |-> "none", up |-> FALSE]
  BY RingAssumption DEF NoCall

\* What a step leaves alone stays right.
LEMMA TalksKept == ASSUME RingInv, NEW u \in Owners, tg'[u] = tg[u], engine'[u] = engine[u],
                          tg[u] \in Callers => ring'[tg[u]] = ring[tg[u]]
                   PROVE TalksAt(u)'
  BY DEF RingInv, TalksAt

LEMMA TasksKept == ASSUME RingInv, NEW c \in Callers, NEW u \in Owners, ring'[c] = ring[c], task'[c][u] = task[c][u]
                   PROVE TasksAt(c, u)'
  BY DEF RingInv, TasksAt

LEMMA CalledKept == ASSUME RingInv, NEW c \in Callers, NEW u \in Owners, ring'[c] = ring[c], task'[c][u] = task[c][u],
                           tg'[u] = tg[u], engine'[u] = engine[u]
                    PROVE CalledAt(c, u)'
  BY DEF RingInv, CalledAt

\* A user whose engine call is another's, or none, owes a caller nothing.
LEMMA NotCalled == ASSUME NEW c \in Callers, NEW u \in Owners, engine'[u].of # c PROVE CalledAt(c, u)'
  BY DEF CalledAt

LEMMA UpKept == ASSUME RingInv, NEW c \in Callers, caller'[c] = "up" => caller[c] = "up",
                       \A u \in Owners : tg[u] = c => tg'[u] = c \/ caller'[c] # "up"
                PROVE UpAt(c)'
  BY DEF RingInv, UpAt

LEMMA RingOwnBegins == ASSUME RingInv, NEW o \in Owners, OwnBegins(o) PROVE RingInv'
  <1> USE Apart
  <1>1. engine' = [engine EXCEPT ![o].of = "own"] /\ engine[o] = NoCall /\ tg[o] = "none" BY DEF OwnBegins, UserBusy
  <1>2. tg' = tg /\ task' = task /\ ring' = ring /\ caller' = caller BY DEF OwnBegins
  <1>3. RingType' BY <1>1, <1>2 DEF RingInv, RingType, Whose, EngineCalls
  <1>4. engine'[o].of = "own" /\ \A u \in Owners \ {o} : engine'[u] = engine[u] BY <1>1 DEF RingInv, RingType, EngineCalls
  <1>5. ASSUME NEW u \in Owners PROVE TalksAt(u)'
    BY <1>1, <1>2, <1>4, TalksKept DEF TalksAt
  <1>6. ASSUME NEW c \in Callers, NEW u \in Owners PROVE TasksAt(c, u)' /\ CalledAt(c, u)'
    <2>1. CASE u = o BY <1>2, <1>4, <2>1, TasksKept, NotCalled
    <2>2. CASE u # o BY <1>2, <1>4, <2>2, TasksKept, CalledKept
    <2> QED BY <2>1, <2>2
  <1>7. ASSUME NEW c \in Callers PROVE UpAt(c)' BY <1>2, UpKept
  <1> QED BY <1>3, <1>5, <1>6, <1>7 DEF RingInv

LEMMA RingOwnUp == ASSUME RingInv, NEW o \in Owners, OwnUp(o) PROVE RingInv'
  <1> USE Apart
  <1>1. engine' = [engine EXCEPT ![o].up = TRUE] /\ engine[o].of = "own" /\ engine[o].up = FALSE BY DEF OwnUp
  <1>2. tg' = [tg EXCEPT ![o] = "own"] /\ task' = task /\ ring' = ring /\ caller' = caller BY DEF OwnUp
  <1>3. RingType' BY <1>1, <1>2 DEF RingInv, RingType, Whose, EngineCalls
  <1>4. engine'[o].of = "own" /\ engine'[o].up = TRUE /\ tg'[o] = "own" BY <1>1, <1>2 DEF RingInv, RingType, EngineCalls
  <1>5. \A u \in Owners \ {o} : engine'[u] = engine[u] /\ tg'[u] = tg[u] BY <1>1, <1>2 DEF RingInv, RingType
  <1>6. tg[o] = "none" BY <1>1 DEF RingInv, TalksAt
  <1>7. ASSUME NEW u \in Owners PROVE TalksAt(u)'
    <2>1. CASE u = o BY <1>4, <2>1 DEF TalksAt
    <2>2. CASE u # o BY <1>2, <1>5, <2>2, TalksKept
    <2> QED BY <2>1, <2>2
  <1>8. ASSUME NEW c \in Callers, NEW u \in Owners PROVE TasksAt(c, u)' /\ CalledAt(c, u)'
    <2>1. CASE u = o BY <1>2, <1>4, <2>1, TasksKept, NotCalled
    <2>2. CASE u # o BY <1>2, <1>5, <2>2, TasksKept, CalledKept
    <2> QED BY <2>1, <2>2
  <1>9. ASSUME NEW c \in Callers PROVE UpAt(c)' BY <1>2, <1>5, <1>6, UpKept
  <1> QED BY <1>3, <1>7, <1>8, <1>9 DEF RingInv

LEMMA RingOwnEnds == ASSUME RingInv, NEW o \in Owners, OwnEnds(o) PROVE RingInv'
  <1> USE Apart
  <1>1. engine' = [engine EXCEPT ![o] = NoCall] /\ engine[o].of = "own" BY DEF OwnEnds
  <1>2. tg' = [tg EXCEPT ![o] = "none"] /\ task' = task /\ ring' = ring /\ caller' = caller BY DEF OwnEnds
  <1>3. RingType' BY <1>1, <1>2 DEF RingInv, RingType, Whose, EngineCalls
  <1>4. engine'[o] = NoCall /\ tg'[o] = "none" BY <1>1, <1>2 DEF RingInv, RingType
  <1>5. \A u \in Owners \ {o} : engine'[u] = engine[u] /\ tg'[u] = tg[u] BY <1>1, <1>2 DEF RingInv, RingType
  <1>6. tg[o] \notin Callers BY <1>1 DEF RingInv, TalksAt
  <1>7. ASSUME NEW u \in Owners PROVE TalksAt(u)'
    BY <1>2, <1>4, <1>5, TalksKept DEF TalksAt
  <1>8. ASSUME NEW c \in Callers, NEW u \in Owners PROVE TasksAt(c, u)' /\ CalledAt(c, u)'
    <2>1. CASE u = o BY <1>2, <1>4, <2>1, TasksKept, NotCalled
    <2>2. CASE u # o BY <1>2, <1>5, <2>2, TasksKept, CalledKept
    <2> QED BY <2>1, <2>2
  <1>9. ASSUME NEW c \in Callers PROVE UpAt(c)' BY <1>2, <1>5, <1>6, UpKept
  <1> QED BY <1>3, <1>7, <1>8, <1>9 DEF RingInv

LEMMA RingAnswers == ASSUME RingInv, NEW o \in Owners, Answers(o) PROVE RingInv'
  <1> USE Apart
  <1> DEFINE k == engine[o].of
  <1>1. k \in Callers /\ engine[o].up = FALSE BY DEF Answers, RingInv, RingType, EngineCalls
  <1>2. engine' = [engine EXCEPT ![o].up = TRUE] /\ task' = [task EXCEPT ![k][o] = "up"] BY DEF Answers
  <1>3. tg' = tg /\ ring' = ring /\ caller' = caller BY DEF Answers
  <1>4. RingType' BY <1>1, <1>2, <1>3 DEF RingInv, RingType, EngineCalls, TaskStates
  <1>5. engine'[o].of = k /\ engine'[o].up = TRUE /\ task'[k][o] = "up" BY <1>1, <1>2 DEF RingInv, RingType, EngineCalls
  <1>6. \A u \in Owners \ {o} : engine'[u] = engine[u] BY <1>2 DEF RingInv, RingType
  <1>7. \A c \in Callers, u \in Owners : c # k \/ u # o => task'[c][u] = task[c][u] BY <1>1, <1>2 DEF RingInv, RingType
  <1>8. CalledAt(k, o) /\ TalksAt(o) /\ TasksAt(k, o) BY <1>1 DEF RingInv
  <1>9. ring[k].pc \in {"ring", "cancel"} /\ ring[k].winner # o /\ tg[o] = "none"
    BY <1>1, <1>8 DEF CalledAt, TalksAt
  <1>10. ASSUME NEW u \in Owners PROVE TalksAt(u)'
    BY <1>3, <1>6, <1>9, TalksKept DEF TalksAt
  <1>11. ASSUME NEW c \in Callers, NEW u \in Owners PROVE TasksAt(c, u)' /\ CalledAt(c, u)'
    <2>1. CASE u = o /\ c = k BY <1>3, <1>5, <1>8, <1>9, <2>1 DEF TasksAt, CalledAt
    <2>2. CASE u = o /\ c # k BY <1>3, <1>5, <1>7, <2>2, TasksKept, NotCalled
    <2>3. CASE u # o BY <1>3, <1>6, <1>7, <2>3, TasksKept, CalledKept
    <2> QED BY <2>1, <2>2, <2>3
  <1>12. ASSUME NEW c \in Callers PROVE UpAt(c)' BY <1>3, UpKept
  <1> QED BY <1>4, <1>10, <1>11, <1>12 DEF RingInv

\* The end of a call of the engine, with the caller who was put through to it.
LEMMA FailingType == ASSUME RingInv, NEW o \in Owners PROVE
    /\ Failing(o) \in [Callers -> [Owners -> TaskStates]]
    /\ \A c \in Callers, u \in Owners : u # o => Failing(o)[c][u] = task[c][u]
    /\ \A c \in Callers : task[c][o] = "no" => Failing(o)[c][o] = "no"
    /\ \A c \in Callers : Failing(o)[c][o] = task[c][o]
                           \/ /\ ring[c].pc \in {"ring", "cancel"} /\ ring[c].winner # o
                              /\ engine[o].of = c
  <1>1. ASSUME NEW c \in Callers PROVE
          /\ Failing(o)[c] = [task[c] EXCEPT ![o] = IF engine[o] = [of |-> c, up |-> FALSE] THEN "failed" ELSE task[c][o]]
          /\ task[c] \in [Owners -> TaskStates]
    BY DEF RingInv, RingType, Failing
  <1>2. ASSUME NEW c \in Callers, engine[o] = [of |-> c, up |-> FALSE]
        PROVE ring[c].pc \in {"ring", "cancel"} /\ ring[c].winner # o /\ task[c][o] # "no" /\ engine[o].of = c
    <2>1. engine[o].of = c /\ engine[o].up = FALSE BY <1>2
    <2>2. CalledAt(c, o) /\ TalksAt(o) BY DEF RingInv
    <2>3. ring[c].pc # "done" BY <2>1, <2>2, Apart DEF CalledAt, TalksAt
    <2> QED BY <2>1, <2>2, <2>3 DEF CalledAt
  <1>3. Failing(o) = [c \in Callers |-> Failing(o)[c]] BY DEF Failing
  <1>4. ASSUME NEW c \in Callers PROVE Failing(o)[c] \in [Owners -> TaskStates]
    <2> DEFINE v == IF engine[o] = [of |-> c, up |-> FALSE] THEN "failed" ELSE task[c][o]
    <2>1. v \in TaskStates BY <1>1 DEF TaskStates
    <2>2. Failing(o)[c] = [task[c] EXCEPT ![o] = v] /\ task[c] \in [Owners -> TaskStates] BY <1>1
    <2> HIDE DEF v
    <2> QED BY <2>1, <2>2
  <1>5. Failing(o) \in [Callers -> [Owners -> TaskStates]] BY <1>3, <1>4
  <1>6. ASSUME NEW c \in Callers, NEW u \in Owners, u # o PROVE Failing(o)[c][u] = task[c][u] BY <1>1, <1>6
  <1>7. ASSUME NEW c \in Callers
        PROVE Failing(o)[c][o] = IF engine[o] = [of |-> c, up |-> FALSE] THEN "failed" ELSE task[c][o]
    BY <1>1
  <1>8. ASSUME NEW c \in Callers, task[c][o] = "no" PROVE Failing(o)[c][o] = "no" BY <1>2, <1>7, <1>8
  <1>9. ASSUME NEW c \in Callers, Failing(o)[c][o] # task[c][o]
        PROVE ring[c].pc \in {"ring", "cancel"} /\ ring[c].winner # o /\ engine[o].of = c
    BY <1>2, <1>7, <1>9
  <1> QED BY <1>5, <1>6, <1>8, <1>9

LEMMA LeftType == ASSUME RingInv, NEW o \in Owners PROVE
    /\ LeftAlone(o) \in [Callers -> {"ringing", "up", "down"}]
    /\ \A c \in Callers : tg[o] = c => LeftAlone(o)[c] = "down"
    /\ \A c \in Callers : LeftAlone(o)[c] = "up" => caller[c] = "up"
  BY DEF RingInv, RingType, LeftAlone

LEMMA RingTgEnds == ASSUME RingInv, NEW o \in Owners, TgEnds(o) PROVE RingInv'
  <1> USE Apart
  <1>1. engine' = [engine EXCEPT ![o] = NoCall] /\ tg' = [tg EXCEPT ![o] = "none"] BY DEF TgEnds
  <1>2. task' = Failing(o) /\ ring' = ring /\ caller' = LeftAlone(o) BY DEF TgEnds
  <1>3. RingType' BY <1>1, <1>2, FailingType, LeftType DEF RingInv, RingType, Whose, EngineCalls
  <1>4. engine'[o] = NoCall /\ tg'[o] = "none" BY <1>1 DEF RingInv, RingType
  <1>5. \A u \in Owners \ {o} : engine'[u] = engine[u] /\ tg'[u] = tg[u] BY <1>1 DEF RingInv, RingType
  <1>6. ASSUME NEW u \in Owners PROVE TalksAt(u)'
    BY <1>2, <1>4, <1>5, TalksKept DEF TalksAt
  <1>7. ASSUME NEW c \in Callers, NEW u \in Owners PROVE TasksAt(c, u)' /\ CalledAt(c, u)'
    <2>1. CASE u = o
      <3>1. CASE task'[c][o] = task[c][o] BY <1>2, <1>4, <2>1, <3>1, TasksKept, NotCalled
      <3>2. CASE task'[c][o] # task[c][o]
        <4>1. ring[c].pc \in {"ring", "cancel"} /\ ring[c].winner # o BY <1>2, <3>2, FailingType
        <4>2. TasksAt(c, o) BY DEF RingInv
        <4> QED BY <1>2, <1>4, <2>1, <4>1, <4>2, NotCalled DEF TasksAt
      <3> QED BY <3>1, <3>2
    <2>2. CASE u # o BY <1>2, <1>5, <2>2, FailingType, TasksKept, CalledKept
    <2> QED BY <2>1, <2>2
  <1>8. ASSUME NEW c \in Callers PROVE UpAt(c)' BY <1>2, <1>5, LeftType, UpKept
  <1> QED BY <1>3, <1>6, <1>7, <1>8 DEF RingInv

LEMMA RingTalkEnds == ASSUME RingInv, NEW o \in Owners, TalkEnds(o) PROVE RingInv'
  <1> USE Apart
  <1>1. engine' = [engine EXCEPT ![o] = NoCall] /\ tg' = [tg EXCEPT ![o] = "none"] BY DEF TalkEnds
  <1>2. task' = task /\ ring' = ring /\ caller' = caller /\ caller[tg[o]] = "down" BY DEF TalkEnds
  <1>3. RingType' BY <1>1, <1>2 DEF RingInv, RingType, Whose, EngineCalls
  <1>4. engine'[o] = NoCall /\ tg'[o] = "none" BY <1>1 DEF RingInv, RingType
  <1>5. \A u \in Owners \ {o} : engine'[u] = engine[u] /\ tg'[u] = tg[u] BY <1>1 DEF RingInv, RingType
  <1>6. ASSUME NEW u \in Owners PROVE TalksAt(u)'
    BY <1>2, <1>4, <1>5, TalksKept DEF TalksAt
  <1>7. ASSUME NEW c \in Callers, NEW u \in Owners PROVE TasksAt(c, u)' /\ CalledAt(c, u)'
    <2>1. CASE u = o BY <1>2, <1>4, <2>1, TasksKept, NotCalled
    <2>2. CASE u # o BY <1>2, <1>5, <2>2, TasksKept, CalledKept
    <2> QED BY <2>1, <2>2
  <1>8. ASSUME NEW c \in Callers PROVE UpAt(c)' BY <1>2, <1>5, UpKept
  <1> QED BY <1>3, <1>6, <1>7, <1>8 DEF RingInv

\* A step of a ring that leaves the calls alone.
LEMMA RingOnly == ASSUME RingInv, NEW k \in Callers, UNCHANGED <<tg, engine>>, RingType',
                         \A c \in Callers \ {k} : ring'[c] = ring[c] /\ task'[c] = task[c],
                         \A c \in Callers : caller'[c] = "up" => caller[c] = "up",
                         ring[k].pc # "done",
                         \A u \in Owners : TasksAt(k, u)' /\ CalledAt(k, u)'
                  PROVE RingInv'
  <1> USE Apart
  <1>1. ASSUME NEW u \in Owners PROVE TalksAt(u)'
    <2>1. tg[u] # k BY DEF RingInv, TalksAt
    <2> QED BY <2>1, TalksKept
  <1>2. ASSUME NEW c \in Callers, NEW u \in Owners PROVE TasksAt(c, u)' /\ CalledAt(c, u)'
    <2>1. CASE c = k BY <2>1
    <2>2. CASE c # k BY <2>2, TasksKept, CalledKept
    <2> QED BY <2>1, <2>2
  <1>3. ASSUME NEW c \in Callers PROVE UpAt(c)' BY UpKept
  <1> QED BY <1>1, <1>2, <1>3 DEF RingInv

LEMMA RingSipIncoming == ASSUME RingInv, NEW k \in Callers, SipIncoming(k) PROVE RingInv'
  <1> DEFINE idle == {u \in Owners : ~UserBusy(u)}
  <1>1. ring[k].pc = "new" /\ UNCHANGED <<tg, engine, task>> BY DEF SipIncoming
  <1>2. \/ ring' = [ring EXCEPT ![k].pc = "tell", ![k].todo = idle] /\ caller' = caller
        \/ ring' = [ring EXCEPT ![k].pc = "done"] /\ caller' = [caller EXCEPT ![k] = "down"]
    BY DEF SipIncoming
  <1>3. RingType'
    <2>1. ring[k] \in Rings BY DEF RingInv, RingType
    <2>2. [ring[k] EXCEPT !.pc = "tell", !.todo = idle] \in Rings /\ [ring[k] EXCEPT !.pc = "done"] \in Rings
      BY <2>1 DEF Rings, RingPcs
    <2>3. \/ ring' = [ring EXCEPT ![k] = [ring[k] EXCEPT !.pc = "tell", !.todo = idle]]
          \/ ring' = [ring EXCEPT ![k] = [ring[k] EXCEPT !.pc = "done"]]
      BY <1>2
    <2>4. ring' \in [Callers -> Rings] BY <2>2, <2>3 DEF RingInv, RingType
    <2> QED BY <1>1, <1>2, <2>4 DEF RingInv, RingType
  <1>4. ring'[k].pc \in {"tell", "done"} /\ ring'[k].winner = ring[k].winner
    BY <1>2 DEF RingInv, RingType, Rings, RingPcs
  <1>5. \A c \in Callers \ {k} : ring'[c] = ring[c] BY <1>2 DEF RingInv, RingType
  <1>6. \A c \in Callers : caller'[c] = "up" => caller[c] = "up" BY <1>2 DEF RingInv, RingType
  <1>7. ASSUME NEW u \in Owners PROVE TasksAt(k, u)' /\ CalledAt(k, u)'
    <2>1. TasksAt(k, u) /\ CalledAt(k, u) BY DEF RingInv
    <2> QED BY <1>1, <1>4, <2>1 DEF TasksAt, CalledAt
  <1> QED BY <1>1, <1>3, <1>5, <1>6, <1>7, RingOnly

LEMMA RingTell == ASSUME RingInv, NEW k \in Callers, Tell(k) PROVE RingInv'
  <1>1. ring[k].pc = "tell" /\ UNCHANGED <<tg, engine, caller>> BY DEF Tell
  <1>2. PICK o \in Owners :
          /\ ring' = [ring EXCEPT ![k].todo = @ \ {o}, ![k].pc = IF @ = "tell" /\ ring[k].todo = {o} THEN "place" ELSE @]
          /\ task' = [task EXCEPT ![k][o] = "wait"]
    BY DEF Tell, RingInv, RingType, Rings
  <1>3. RingType'
    <2> DEFINE r == [ring[k] EXCEPT !.todo = @ \ {o}, !.pc = IF @ = "tell" /\ ring[k].todo = {o} THEN "place" ELSE @]
    <2>1. ring[k] \in Rings BY DEF RingInv, RingType
    <2>2. r \in Rings BY <2>1 DEF Rings, RingPcs
    <2>3. ring' = [ring EXCEPT ![k] = r] BY <1>2
    <2>4. ring' \in [Callers -> Rings] BY <2>2, <2>3 DEF RingInv, RingType
    <2>5. task' \in [Callers -> [Owners -> TaskStates]] BY <1>2 DEF RingInv, RingType, TaskStates
    <2> QED BY <1>1, <2>4, <2>5 DEF RingInv, RingType
  <1>4. ring'[k].pc \in {"tell", "place"} /\ ring'[k].winner = ring[k].winner
    BY <1>1, <1>2 DEF RingInv, RingType, Rings, RingPcs
  <1>5. \A c \in Callers \ {k} : ring'[c] = ring[c] /\ task'[c] = task[c] BY <1>2 DEF RingInv, RingType
  <1>6. \A u \in Owners : task'[k][u] = IF u = o THEN "wait" ELSE task[k][u] BY <1>2 DEF RingInv, RingType
  <1>7. ASSUME NEW u \in Owners PROVE TasksAt(k, u)' /\ CalledAt(k, u)'
    <2>1. TasksAt(k, u) /\ CalledAt(k, u) BY DEF RingInv
    <2> QED BY <1>1, <1>4, <1>6, <2>1, Apart DEF TasksAt, CalledAt
  <1> QED BY <1>1, <1>3, <1>5, <1>7, RingOnly

LEMMA RingFailed == ASSUME RingInv, NEW k \in Callers, Failed(k) PROVE RingInv'
  <1>1. ring[k].pc = "ring" /\ UNCHANGED <<tg, engine, ring, caller>> BY DEF Failed
  <1>2. PICK o \in Owners : task[k][o] = "failed" /\ task' = [task EXCEPT ![k][o] = "no"] BY DEF Failed
  <1>3. RingType' BY <1>1, <1>2 DEF RingInv, RingType, TaskStates
  <1>4. \A c \in Callers \ {k} : task'[c] = task[c] BY <1>2 DEF RingInv, RingType
  <1>5. \A u \in Owners : task'[k][u] = IF u = o THEN "no" ELSE task[k][u] BY <1>2 DEF RingInv, RingType
  <1>6. ASSUME NEW u \in Owners PROVE TasksAt(k, u)' /\ CalledAt(k, u)'
    <2>1. TasksAt(k, u) /\ CalledAt(k, u) BY DEF RingInv
    <2> QED BY <1>1, <1>2, <1>5, <2>1 DEF TasksAt, CalledAt
  <1> QED BY <1>1, <1>3, <1>4, <1>6, RingOnly

LEMMA RingWins == ASSUME RingInv, NEW k \in Callers, Wins(k) PROVE RingInv'
  <1>1. ring[k].pc = "ring" /\ UNCHANGED <<tg, engine, caller>> BY DEF Wins
  <1>2. PICK o \in Owners : /\ task[k][o] = "up" /\ task' = [task EXCEPT ![k][o] = "no"]
                            /\ ring' = [ring EXCEPT ![k].pc = "cancel", ![k].winner = o]
    BY DEF Wins
  <1>3. RingType'
    <2> DEFINE r == [ring[k] EXCEPT !.pc = "cancel", !.winner = o]
    <2>1. ring[k] \in Rings BY DEF RingInv, RingType
    <2>2. r \in Rings BY <2>1 DEF Rings, RingPcs
    <2>3. ring' = [ring EXCEPT ![k] = r] BY <1>2
    <2>4. ring' \in [Callers -> Rings] BY <2>2, <2>3 DEF RingInv, RingType
    <2>5. task' \in [Callers -> [Owners -> TaskStates]] BY <1>2 DEF RingInv, RingType, TaskStates
    <2> QED BY <1>1, <2>4, <2>5 DEF RingInv, RingType
  <1>4. ring'[k].pc = "cancel" /\ ring'[k].winner = o BY <1>2 DEF RingInv, RingType, Rings
  <1>5. \A c \in Callers \ {k} : ring'[c] = ring[c] /\ task'[c] = task[c] BY <1>2 DEF RingInv, RingType
  <1>6. \A u \in Owners : task'[k][u] = IF u = o THEN "no" ELSE task[k][u] BY <1>2 DEF RingInv, RingType
  <1>7. ASSUME NEW u \in Owners PROVE TasksAt(k, u)' /\ CalledAt(k, u)'
    <2>1. TasksAt(k, u) /\ CalledAt(k, u) BY DEF RingInv
    <2>2. TasksAt(k, u)' BY <1>4, <1>6 DEF TasksAt
    <2>3. CalledAt(k, u)' BY <1>1, <1>2, <1>4, <1>6, <2>1, Apart DEF CalledAt, TasksAt
    <2> QED BY <2>2, <2>3
  <1> QED BY <1>1, <1>3, <1>5, <1>7, RingOnly

LEMMA RingNobodyWins == ASSUME RingInv, NEW k \in Callers, NobodyWins(k) PROVE RingInv'
  <1>1. ring[k].pc = "ring" /\ UNCHANGED <<tg, engine, task, caller>> BY DEF NobodyWins
  <1>2. ring' = [ring EXCEPT ![k].pc = "cancel"] BY DEF NobodyWins
  <1>3. RingType' BY <1>1, <1>2 DEF RingInv, RingType, Rings, RingPcs
  <1>4. ring'[k].pc = "cancel" /\ ring'[k].winner = ring[k].winner BY <1>2 DEF RingInv, RingType, Rings
  <1>5. \A c \in Callers \ {k} : ring'[c] = ring[c] BY <1>2 DEF RingInv, RingType
  <1>6. ASSUME NEW u \in Owners PROVE TasksAt(k, u)' /\ CalledAt(k, u)'
    <2>1. TasksAt(k, u) /\ CalledAt(k, u) BY DEF RingInv
    <2> QED BY <1>1, <1>4, <2>1 DEF TasksAt, CalledAt
  <1> QED BY <1>1, <1>3, <1>5, <1>6, RingOnly

LEMMA RingCallerGone == ASSUME RingInv, NEW k \in Callers, CallerGone(k) PROVE RingInv'
  <1>1. UNCHANGED <<tg, engine, task, ring>> /\ caller' = [caller EXCEPT ![k] = "down"] BY DEF CallerGone
  <1>2. RingType' BY <1>1 DEF RingInv, RingType
  <1>3. \A c \in Callers : caller'[c] = "up" => caller[c] = "up" BY <1>1 DEF RingInv, RingType
  <1>4. ASSUME NEW u \in Owners PROVE TalksAt(u)' BY <1>1, TalksKept
  <1>5. ASSUME NEW c \in Callers, NEW u \in Owners PROVE TasksAt(c, u)' /\ CalledAt(c, u)'
    BY <1>1, TasksKept, CalledKept
  <1>6. ASSUME NEW c \in Callers PROVE UpAt(c)' BY <1>1, <1>3, UpKept
  <1> QED BY <1>2, <1>4, <1>5, <1>6 DEF RingInv

LEMMA RingPlace == ASSUME RingInv, NEW k \in Callers, Place(k) PROVE RingInv'
  <1> USE Apart
  <1> DEFINE called == {u \in Owners : task[k][u] = "wait" /\ engine[u] = NoCall}
  <1>1. ring[k].pc = "place" /\ UNCHANGED <<tg, caller>> BY DEF Place
  <1>2. engine' = [u \in Owners |-> IF u \in called THEN [of |-> k, up |-> FALSE] ELSE engine[u]] BY DEF Place
  <1>3. task' = [task EXCEPT ![k] = [u \in Owners |-> IF @[u] = "wait" /\ u \notin called THEN "failed" ELSE @[u]]]
    BY DEF Place
  <1>4. ring' = [ring EXCEPT ![k].pc = "ring"] BY DEF Place
  <1>5. \A u \in Owners : task'[k][u] = IF task[k][u] = "wait" /\ u \notin called THEN "failed" ELSE task[k][u]
    BY <1>3 DEF RingInv, RingType
  <1>6. ring'[k].pc = "ring" /\ ring'[k].winner = ring[k].winner BY <1>4 DEF RingInv, RingType, Rings
  <1>7. \A c \in Callers \ {k} : ring'[c] = ring[c] /\ task'[c] = task[c] BY <1>3, <1>4 DEF RingInv, RingType
  <1>8. RingType'
    <2>1. engine' \in [Owners -> EngineCalls] BY <1>2 DEF RingInv, RingType, EngineCalls, Whose
    <2>2. ring' \in [Callers -> Rings] BY <1>4 DEF RingInv, RingType, Rings, RingPcs
    <2>3. task' \in [Callers -> [Owners -> TaskStates]] BY <1>3 DEF RingInv, RingType, TaskStates
    <2> QED BY <1>1, <2>1, <2>2, <2>3 DEF RingInv, RingType
  <1>9. \A u \in Owners : u \in called => engine[u].of = "none" /\ engine'[u].of = k /\ engine'[u].up = FALSE
    BY <1>2
  <1>10. \A u \in Owners : u \notin called => engine'[u] = engine[u] BY <1>2
  <1>11. ASSUME NEW u \in Owners PROVE tg[u] # k /\ ring[k].winner # u /\ engine[u].of # k
    BY <1>1 DEF RingInv, TalksAt, TasksAt, CalledAt
  <1>12. ASSUME NEW u \in Owners PROVE TalksAt(u)'
    <2>1. CASE u \in called
      <3>1. tg[u] = "none" BY <1>9, <2>1 DEF RingInv, TalksAt
      <3> QED BY <1>1, <3>1 DEF TalksAt
    <2>2. CASE u \notin called BY <1>1, <1>7, <1>10, <1>11, <2>2, TalksKept
    <2> QED BY <2>1, <2>2
  <1>13. ASSUME NEW c \in Callers, NEW u \in Owners PROVE TasksAt(c, u)' /\ CalledAt(c, u)'
    <2>1. CASE c = k
      <3>1. TasksAt(k, u) BY DEF RingInv
      <3>2. TasksAt(k, u)' BY <1>1, <1>6, <1>11, <3>1 DEF TasksAt
      <3>3. CASE u \in called
        <4>1. task'[k][u] = "wait" BY <1>5, <3>3
        <4> QED BY <1>6, <1>9, <1>11, <2>1, <3>2, <3>3, <4>1 DEF CalledAt
      <3>4. CASE u \notin called BY <1>10, <1>11, <2>1, <3>2, <3>4, NotCalled
      <3> QED BY <3>3, <3>4
    <2>2. CASE c # k /\ u \in called BY <1>7, <1>9, <2>2, TasksKept, NotCalled
    <2>3. CASE c # k /\ u \notin called BY <1>1, <1>7, <1>10, <2>3, TasksKept, CalledKept
    <2> QED BY <2>1, <2>2, <2>3
  <1>14. ASSUME NEW c \in Callers PROVE UpAt(c)' BY <1>1, UpKept
  <1> QED BY <1>8, <1>12, <1>13, <1>14 DEF RingInv

LEMMA RingCancelLoser == ASSUME RingInv, NEW k \in Callers, CancelLoser(k) PROVE RingInv'
  <1> USE Apart
  <1>1. ring[k].pc = "cancel" /\ ring' = ring BY DEF CancelLoser
  <1>2. PICK o \in Owners :
          /\ task[k][o] # "no" /\ task' = [Failing(o) EXCEPT ![k][o] = "no"]
          /\ engine' = [engine EXCEPT ![o] = NoCall]
          /\ tg' = [tg EXCEPT ![o] = "none"] /\ caller' = LeftAlone(o)
    BY DEF CancelLoser
  <1>3. Failing(o) \in [Callers -> [Owners -> TaskStates]] BY FailingType
  <1>4. RingType'
    <2>1. task' \in [Callers -> [Owners -> TaskStates]] BY <1>2, <1>3 DEF TaskStates
    <2> QED BY <1>1, <1>2, <2>1, LeftType DEF RingInv, RingType, Whose, EngineCalls
  <1>5. engine'[o] = NoCall /\ tg'[o] = "none" BY <1>2 DEF RingInv, RingType
  <1>6. \A u \in Owners \ {o} : engine'[u] = engine[u] /\ tg'[u] = tg[u] BY <1>2 DEF RingInv, RingType
  <1>7. task'[k][o] = "no" BY <1>2, <1>3
  <1>8. \A c \in Callers, u \in Owners : c # k \/ u # o => task'[c][u] = Failing(o)[c][u] BY <1>2, <1>3
  <1>9. ASSUME NEW u \in Owners PROVE TalksAt(u)'
    BY <1>1, <1>5, <1>6, TalksKept DEF TalksAt
  <1>10. ASSUME NEW c \in Callers, NEW u \in Owners PROVE TasksAt(c, u)' /\ CalledAt(c, u)'
    <2>1. CASE u = o
      <3>1. CalledAt(c, o)' BY <1>5, NotCalled
      <3>2. TasksAt(c, o) BY DEF RingInv
      <3>3. CASE c = k BY <1>1, <1>7, <2>1, <3>1, <3>2, <3>3 DEF TasksAt
      <3>4. CASE c # k /\ task'[c][o] = task[c][o] BY <1>1, <2>1, <3>1, <3>4, TasksKept
      <3>5. CASE c # k /\ task'[c][o] # task[c][o]
        <4>1. ring[c].pc \in {"ring", "cancel"} /\ ring[c].winner # o BY <1>8, <3>5, FailingType
        <4> QED BY <1>1, <2>1, <3>1, <3>2, <4>1 DEF TasksAt
      <3> QED BY <3>3, <3>4, <3>5
    <2>2. CASE u # o
      <3>1. task'[c][u] = task[c][u] BY <1>8, <2>2, FailingType
      <3> QED BY <1>1, <1>6, <2>2, <3>1, TasksKept, CalledKept
    <2> QED BY <2>1, <2>2
  <1>11. ASSUME NEW c \in Callers PROVE UpAt(c)' BY <1>2, <1>6, LeftType, UpKept
  <1> QED BY <1>4, <1>9, <1>10, <1>11 DEF RingInv

LEMMA RingSettled == ASSUME RingInv, NEW k \in Callers, Settled(k) PROVE RingInv'
  <1> USE Apart
  <1> DEFINE w == ring[k].winner
  <1>1. ring[k].pc = "cancel" /\ task' = task /\ \A u \in Owners : task[k][u] = "no" BY DEF Settled
  <1>2. ring' = [ring EXCEPT ![k].pc = "done"] BY DEF Settled
  <1>3. ring'[k].pc = "done" /\ ring'[k].winner = w BY <1>2 DEF RingInv, RingType, Rings
  <1>4. \A c \in Callers \ {k} : ring'[c] = ring[c] BY <1>2 DEF RingInv, RingType
  <1>5. ring' \in [Callers -> Rings] BY <1>2 DEF RingInv, RingType, Rings, RingPcs
  <1>6. ASSUME NEW u \in Owners PROVE /\ tg[u] # k
                                      /\ engine[u].of = k => w = u /\ engine[u].up = TRUE
    BY <1>1 DEF RingInv, TalksAt, CalledAt
  <1>7. ASSUME NEW u \in Owners PROVE TasksAt(k, u)' BY <1>1, <1>3 DEF RingInv, TasksAt
  <1>8. ASSUME NEW c \in Callers \ {k}, NEW u \in Owners PROVE TasksAt(c, u)' BY <1>1, <1>4, TasksKept
  <1>9. CASE UNCHANGED <<tg, engine>> /\ caller' = [caller EXCEPT ![k] = "down"] /\ \A u \in Owners : engine[u].of # k
    <2>1. RingType' BY <1>1, <1>5, <1>9 DEF RingInv, RingType
    <2>2. ASSUME NEW u \in Owners PROVE TalksAt(u)' BY <1>4, <1>6, <1>9, TalksKept
    <2>3. ASSUME NEW c \in Callers, NEW u \in Owners PROVE CalledAt(c, u)'
      <3>1. CASE c = k BY <1>9, <3>1, NotCalled
      <3>2. CASE c # k BY <1>1, <1>4, <1>9, <3>2, CalledKept
      <3> QED BY <3>1, <3>2
    <2>4. \A c \in Callers : caller'[c] = "up" => caller[c] = "up" BY <1>9 DEF RingInv, RingType
    <2>5. ASSUME NEW c \in Callers PROVE UpAt(c)' BY <1>9, <2>4, UpKept
    <2> QED BY <1>7, <1>8, <2>1, <2>2, <2>3, <2>5 DEF RingInv
  <1>10. CASE UNCHANGED <<tg, caller>> /\ w \in Owners /\ engine[w].of = k /\ engine' = [engine EXCEPT ![w] = NoCall]
    <2>1. RingType' BY <1>1, <1>5, <1>10 DEF RingInv, RingType, EngineCalls, Whose
    <2>2. engine'[w] = NoCall /\ \A u \in Owners \ {w} : engine'[u] = engine[u]
      <3>1. engine \in [Owners -> EngineCalls] BY DEF RingInv, RingType
      <3>2. w \in Owners /\ engine' = [engine EXCEPT ![w] = NoCall] BY <1>10
      <3> HIDE DEF w
      <3> QED BY <3>1, <3>2
    <2>3. tg[w] = "none"
      <3>1. TalksAt(w) /\ tg[w] # k /\ engine[w].of = k BY <1>6, <1>10 DEF RingInv
      <3> HIDE DEF w
      <3> QED BY <3>1 DEF TalksAt
    <2>4. ASSUME NEW u \in Owners PROVE TalksAt(u)'
      <3>1. CASE u = w BY <1>10, <2>3, <3>1 DEF TalksAt
      <3>2. CASE u # w BY <1>4, <1>6, <1>10, <2>2, <3>2, TalksKept
      <3> QED BY <3>1, <3>2
    <2>5. ASSUME NEW c \in Callers, NEW u \in Owners PROVE CalledAt(c, u)'
      <3>1. CASE u = w BY <2>2, <3>1, NotCalled
      <3>2. CASE u # w /\ c = k BY <1>6, <2>2, <3>2, NotCalled
      <3>3. CASE u # w /\ c # k BY <1>1, <1>4, <1>10, <2>2, <3>3, CalledKept
      <3> QED BY <3>1, <3>2, <3>3
    <2>6. ASSUME NEW c \in Callers PROVE UpAt(c)' BY <1>10, UpKept
    <2> QED BY <1>7, <1>8, <2>1, <2>4, <2>5, <2>6 DEF RingInv
  <1>11. CASE /\ w \in Owners /\ engine[w].of = k /\ engine' = engine
              /\ tg' = [tg EXCEPT ![w] = k] /\ caller' = [caller EXCEPT ![k] = "up"]
    <2>1. RingType' BY <1>1, <1>5, <1>11 DEF RingInv, RingType, Whose
    <2>2. tg'[w] = k /\ \A u \in Owners \ {w} : tg'[u] = tg[u]
      <3>1. tg \in [Owners -> Whose] BY DEF RingInv, RingType
      <3>2. w \in Owners /\ tg' = [tg EXCEPT ![w] = k] BY <1>11
      <3> HIDE DEF w
      <3> QED BY <3>1, <3>2
    <2>3. tg[w] = "none"
      <3>1. TalksAt(w) /\ tg[w] # k /\ engine[w].of = k BY <1>6, <1>11 DEF RingInv
      <3> HIDE DEF w
      <3> QED BY <3>1 DEF TalksAt
    <2>4. ASSUME NEW u \in Owners PROVE TalksAt(u)'
      <3>1. CASE u = w BY <1>3, <1>6, <1>11, <2>2, <3>1 DEF TalksAt
      <3>2. CASE u # w BY <1>4, <1>6, <1>11, <2>2, <3>2, TalksKept
      <3> QED BY <3>1, <3>2
    <2>5. ASSUME NEW c \in Callers, NEW u \in Owners PROVE CalledAt(c, u)'
      <3>1. CASE u = w /\ c = k BY <1>3, <1>6, <1>11, <2>2, <3>1 DEF CalledAt
      <3>2. CASE u = w /\ c # k BY <1>11, <3>2, NotCalled
      <3>3. CASE u # w /\ c = k BY <1>6, <1>11, <3>3, NotCalled
      <3>4. CASE u # w /\ c # k BY <1>1, <1>4, <1>11, <2>2, <3>4, CalledKept
      <3> QED BY <3>1, <3>2, <3>3, <3>4
    <2>6. ASSUME NEW c \in Callers PROVE UpAt(c)'
      <3>1. CASE c = k BY <1>11, <2>2, <3>1 DEF UpAt
      <3>2. CASE c # k
        <4>1. caller'[c] = caller[c] BY <1>11, <3>2 DEF RingInv, RingType
        <4> QED BY <2>2, <2>3, <4>1, UpKept
      <3> QED BY <3>1, <3>2
    <2> QED BY <1>7, <1>8, <2>1, <2>4, <2>5, <2>6 DEF RingInv
  <1>12. CASE /\ UNCHANGED <<tg, engine, caller>> /\ \A u \in Owners : engine[u].of # k
    <2>1. RingType' BY <1>1, <1>5, <1>12 DEF RingInv, RingType
    <2>2. ASSUME NEW u \in Owners PROVE TalksAt(u)' BY <1>4, <1>6, <1>12, TalksKept
    <2>3. ASSUME NEW c \in Callers, NEW u \in Owners PROVE CalledAt(c, u)'
      <3>1. CASE c = k BY <1>12, <3>1, NotCalled
      <3>2. CASE c # k BY <1>1, <1>4, <1>12, <3>2, CalledKept
      <3> QED BY <3>1, <3>2
    <2>4. ASSUME NEW c \in Callers PROVE UpAt(c)' BY <1>12, UpKept
    <2> QED BY <1>7, <1>8, <2>1, <2>2, <2>3, <2>4 DEF RingInv
  <1>13. CASE w = "none"
    <2>1. \A u \in Owners : engine[u].of # k BY <1>6, <1>13
    <2> QED BY <1>9, <1>13, <2>1 DEF Settled
  <1>14. CASE w # "none"
    <2>1. w \in Owners BY <1>14 DEF RingInv, RingType, Rings
    <2>2. engine[w].of # k => \A u \in Owners : engine[u].of # k BY <1>6
    <2>3. CASE caller[k] = "down" BY <1>10, <1>12, <1>14, <2>1, <2>2, <2>3 DEF Settled
    <2>4. CASE caller[k] # "down" /\ engine[w].of # k BY <1>9, <1>14, <2>2, <2>4 DEF Settled
    <2>5. CASE caller[k] # "down" /\ engine[w].of = k BY <1>11, <1>14, <2>1, <2>5 DEF Settled
    <2> QED BY <2>3, <2>4, <2>5
  <1> QED BY <1>13, <1>14

LEMMA RingNextInv == RingInv /\ [RingNext]_ringVars => RingInv'
  <1> SUFFICES ASSUME RingInv, [RingNext]_ringVars PROVE RingInv' OBVIOUS
  <1>1. CASE UNCHANGED ringVars
    BY <1>1 DEF ringVars, RingInv, RingType, TalksAt, TasksAt, CalledAt, UpAt
  <1>2. ASSUME NEW u \in Owners,
               OwnBegins(u) \/ OwnUp(u) \/ OwnEnds(u) \/ Answers(u) \/ TgEnds(u) \/ TalkEnds(u)
        PROVE RingInv'
    BY <1>2, RingOwnBegins, RingOwnUp, RingOwnEnds, RingAnswers, RingTgEnds, RingTalkEnds
  <1>3. ASSUME NEW c \in Callers,
               \/ SipIncoming(c) \/ Tell(c) \/ Place(c) \/ Failed(c) \/ Wins(c) \/ NobodyWins(c)
               \/ CancelLoser(c) \/ Settled(c) \/ CallerGone(c)
        PROVE RingInv'
    BY <1>3, RingSipIncoming, RingTell, RingPlace, RingFailed, RingWins, RingNobodyWins, RingCancelLoser,
       RingSettled, RingCallerGone
  <1> QED BY <1>1, <1>2, <1>3 DEF RingNext

\* Who talks to a caller is the winner of that ring, so there is one of them at most.
LEMMA RingInvSays == RingInv => OneAnswers
  <1> SUFFICES ASSUME RingInv, NEW c \in Callers
      PROVE /\ Cardinality({u \in Owners : tg[u] = c}) <= 1
            /\ ring[c].pc = "done" => \A u \in Owners : engine[u].of = c => tg[u] = c
            /\ caller[c] = "up" => \E u \in Owners : tg[u] = c
    BY DEF OneAnswers
  <1> DEFINE talk == {u \in Owners : tg[u] = c}
  <1>1. ASSUME NEW u \in Owners, tg[u] = c PROVE u = ring[c].winner
    <2>1. TalksAt(u) /\ c # "none" BY Apart DEF RingInv
    <2> QED BY <1>1, <2>1 DEF TalksAt
  <1>2. talk = {} \/ talk = {ring[c].winner}
    <2>1. \A u \in talk : u = ring[c].winner BY <1>1
    <2> HIDE DEF talk
    <2> QED BY <2>1
  <1>3. Cardinality(talk) <= 1
    <2>1. Cardinality({}) = 0 /\ Cardinality({ring[c].winner}) = 1 BY FS_EmptySet, FS_Singleton
    <2> HIDE DEF talk
    <2> QED BY <1>2, <2>1
  <1>4. ring[c].pc = "done" => \A u \in Owners : engine[u].of = c => tg[u] = c BY DEF RingInv, CalledAt
  <1>5. caller[c] = "up" => \E u \in Owners : tg[u] = c BY DEF RingInv, UpAt
  <1> QED BY <1>3, <1>4, <1>5

\* However many callers ring however many users, one user talks to each caller at most, once a ring
\* is over nobody else is called for it, and a caller put through has somebody (manager.py, _ring_users).
THEOREM OneTakesIt == RingSpec => []OneAnswers
  <1> QED BY RingInitInv, RingNextInv, RingInvSays, PTL DEF RingSpec

-----------------------------------------------------------------------------
(***************************************************************************)
(* The audio bridge.                                                       *)
(*                                                                         *)
(* Units are numbered in the order they were sent, and what is heard       *)
(* rises. Inductive is that all that is held on the way rises too, after   *)
(* what was heard and up to the last unit sent.                            *)
(***************************************************************************)
Buffers == [held : Seq(Nat), pushed : Nat, dropped : Nat]

Rising(s) == \A i, j \in 1 .. Len(s) : i < j => s[i] < s[j]
Before(s, t) == \A i \in 1 .. Len(s), j \in 1 .. Len(t) : s[i] < t[j]
UpTo(s, n) == \A i \in 1 .. Len(s) : s[i] <= n

\* What the PBX got rises, what is held rises from there, to the last unit Telegram sent.
AudioInv ==
    /\ pcm \in Buffers /\ tgPcm \in [last : Nat, first : Nat] /\ toSip \in Seq(Nat)
    /\ Len(pcm.held) <= MaxBytes
    /\ Rising(toSip) /\ Rising(pcm.held) /\ Before(toSip, pcm.held)
    /\ UpTo(toSip, tgPcm.last) /\ UpTo(pcm.held, tgPcm.last)
    /\ pcm.held # <<>> => pcm.held[Len(pcm.held)] = tgPcm.last
    /\ tgPcm.last - tgPcm.first + 1 = Len(toSip) + Len(pcm.held) + pcm.dropped

\* PcmBuffer.push appends, and drops the oldest unit of a full buffer.
LEMMA PushAppends ==
    ASSUME NEW b \in Buffers, Len(b.held) <= MaxBytes, NEW unit \in Nat
    PROVE  LET n == Len(b.held)
               over == IF n = MaxBytes THEN 1 ELSE 0
               p == Push(b, unit)
           IN /\ p \in Buffers /\ p.dropped = b.dropped + over
              /\ Len(p.held) = n + 1 - over /\ Len(p.held) >= 1 /\ Len(p.held) <= MaxBytes
              /\ \A i \in 1 .. n - over : p.held[i] = b.held[i + over]
              /\ p.held[n + 1 - over] = unit
  <1> DEFINE n == Len(b.held)
             all == Append(b.held, unit)
             over == IF n = MaxBytes THEN 1 ELSE 0
             h == SubSeq(all, over + 1, n + 1)
  <1>1. b.held \in Seq(Nat) /\ n \in Nat /\ b.pushed \in Nat /\ b.dropped \in Nat BY DEF Buffers
  <1>2. MaxBytes \in Nat /\ MaxBytes >= 8 BY AudioAssumption DEF MaxBytes
  <1>3. /\ all \in Seq(Nat) /\ Len(all) = n + 1 /\ all[n + 1] = unit
        /\ \A i \in 1 .. n : all[i] = b.held[i]
    BY <1>1, AppendProperties
  <1>4. over \in 0 .. 1 /\ (over = 1 => n >= 8) /\ n - over <= MaxBytes - 1 BY <1>1, <1>2
  <1>5. (IF Len(all) > MaxBytes THEN Len(all) - MaxBytes ELSE 0) = over BY <1>1, <1>2, <1>3
  <1>6. Push(b, unit) = [held |-> h, pushed |-> b.pushed + 1, dropped |-> b.dropped + over] BY <1>3, <1>5 DEF Push
  <1>7. \A i \in over + 1 .. n + 1 : all[i] \in Nat BY <1>1, <1>3, <1>4, ElementOfSeq
  <1> HIDE DEF all, over
  <1>8. /\ h \in Seq(Nat) /\ Len(h) = n + 1 - over
        /\ \A i \in 1 .. n + 1 - over : h[i] = all[over + i]
    <2>1. over + 1 \in Int /\ n + 1 \in Int /\ over + 1 <= n + 1 BY <1>1, <1>4
    <2>2. /\ h \in Seq(Nat)
          /\ Len(h) = IF over + 1 <= n + 1 THEN (n + 1) - (over + 1) + 1 ELSE 0
          /\ \A i \in 1 .. (n + 1) - (over + 1) + 1 : h[i] = all[(over + 1) + i - 1]
      BY <1>7, <2>1, SubSeqProperties
    <2>3. \A i \in Nat : (over + 1) + i - 1 = over + i BY <1>4
    <2>4. n \in Nat /\ over \in Nat BY <1>1, <1>4
    <2>5. Len(h) = n + 1 - over /\ (n + 1) - (over + 1) + 1 = n + 1 - over BY <2>1, <2>2, <2>4
    <2>6. ASSUME NEW i \in 1 .. n + 1 - over PROVE h[i] = all[over + i]
      <3>1. i \in 1 .. (n + 1) - (over + 1) + 1 BY <2>5
      <3>2. h[i] = all[(over + 1) + i - 1] BY <2>2, <3>1
      <3>3. i \in Nat BY <2>4
      <3>4. (over + 1) + i - 1 = over + i BY <2>3, <3>3
      <3> QED BY <3>2, <3>4
    <2> QED BY <2>2, <2>5, <2>6
  <1> HIDE DEF h, n
  <1>9. \A i \in 1 .. n - over : h[i] = b.held[i + over] BY <1>1, <1>3, <1>4, <1>8
  <1>10. h[n + 1 - over] = unit BY <1>1, <1>3, <1>4, <1>8
  <1>11. Push(b, unit) \in Buffers
    <2>1. b.pushed + 1 \in Nat /\ b.dropped + over \in Nat BY <1>1, <1>4
    <2> QED BY <1>6, <1>8, <2>1 DEF Buffers
  <1>12. Push(b, unit).held = h /\ Push(b, unit).dropped = b.dropped + over BY <1>6
  <1>13. Len(h) >= 1 /\ Len(h) <= MaxBytes BY <1>1, <1>2, <1>4, <1>8
  <1> QED BY <1>8, <1>9, <1>10, <1>11, <1>12, <1>13 DEF over, n

\* A frame is the first two units, and pull takes just those.
LEMMA PullTakes ==
    ASSUME NEW b \in Buffers, b.held # <<>>
    PROVE  LET n == Len(b.held)
               k == Len(Frame(b))
           IN /\ k \in 1 .. n /\ Frame(b) \in Seq(Nat)
              /\ \A i \in 1 .. k : Frame(b)[i] = b.held[i]
              /\ Pull(b) \in Buffers /\ Pull(b).dropped = b.dropped /\ Len(Pull(b).held) = n - k
              /\ \A i \in 1 .. n - k : Pull(b).held[i] = b.held[k + i]
  <1> DEFINE n == Len(b.held)
             k == IF n < 2 THEN n ELSE 2
             f == SubSeq(b.held, 1, k)
             h == SubSeq(b.held, k + 1, n)
  <1>1. b.held \in Seq(Nat) /\ n \in Nat \ {0} BY EmptySeq DEF Buffers
  <1>2. k \in 1 .. n BY <1>1
  <1>3. \A i \in 1 .. n : b.held[i] \in Nat BY <1>1, ElementOfSeq
  <1> HIDE DEF k
  <1>4. f \in Seq(Nat) /\ Len(f) = k /\ \A i \in 1 .. k : f[i] = b.held[i]
    <2>1. \A i \in 1 .. k : b.held[i] \in Nat BY <1>1, <1>2, <1>3
    <2>2. /\ f \in Seq(Nat) /\ Len(f) = IF 1 <= k THEN k - 1 + 1 ELSE 0
          /\ \A i \in 1 .. k - 1 + 1 : f[i] = b.held[1 + i - 1]
      BY <1>2, <2>1, SubSeqProperties
    <2> HIDE DEF f
    <2> QED BY <1>2, <2>2
  <1>5. h \in Seq(Nat) /\ Len(h) = n - k /\ \A i \in 1 .. n - k : h[i] = b.held[k + i]
    <2>1. \A i \in k + 1 .. n : b.held[i] \in Nat BY <1>1, <1>2, <1>3
    <2>2. /\ h \in Seq(Nat) /\ Len(h) = IF k + 1 <= n THEN n - (k + 1) + 1 ELSE 0
          /\ \A i \in 1 .. n - (k + 1) + 1 : h[i] = b.held[(k + 1) + i - 1]
      <3>1. k + 1 \in Int /\ n \in Int BY <1>1, <1>2
      <3> HIDE DEF n
      <3> QED BY <2>1, <3>1, SubSeqProperties
    <2> HIDE DEF h
    <2> QED BY <1>1, <1>2, <2>2
  <1>6. Frame(b) = f BY DEF Frame, k
  <1>7. Pull(b) = [b EXCEPT !.held = h] BY <1>4, <1>6 DEF Pull
  <1> HIDE DEF f, h
  <1>8. Pull(b) \in Buffers /\ Pull(b).held = h /\ Pull(b).dropped = b.dropped BY <1>5, <1>7 DEF Buffers
  <1> QED BY <1>2, <1>4, <1>5, <1>6, <1>8

\* Two rising sequences, the one before the other, rise as one.
LEMMA RisingConcat ==
    ASSUME NEW s \in Seq(Nat), NEW t \in Seq(Nat), Rising(s), Rising(t), Before(s, t)
    PROVE  Rising(s \o t)
  <1> SUFFICES ASSUME NEW i \in 1 .. Len(s \o t), NEW j \in 1 .. Len(s \o t), i < j
               PROVE (s \o t)[i] < (s \o t)[j]
    BY DEF Rising
  <1>1. Len(s) \in Nat /\ Len(t) \in Nat BY LenProperties
  <1>2. /\ Len(s \o t) = Len(s) + Len(t)
        /\ \A m \in 1 .. Len(s) + Len(t) : (s \o t)[m] = IF m <= Len(s) THEN s[m] ELSE t[m - Len(s)]
    BY ConcatProperties
  <1>3. i \in 1 .. Len(s) + Len(t) /\ j \in 1 .. Len(s) + Len(t) BY <1>2
  <1>4. CASE j <= Len(s)
    <2>1. i \in 1 .. Len(s) /\ j \in 1 .. Len(s) BY <1>1, <1>3, <1>4
    <2> QED BY <1>2, <1>3, <1>4, <2>1 DEF Rising
  <1>5. CASE i <= Len(s) /\ j > Len(s)
    <2>1. i \in 1 .. Len(s) /\ j - Len(s) \in 1 .. Len(t) BY <1>1, <1>3, <1>5
    <2>2. (s \o t)[i] = s[i] /\ (s \o t)[j] = t[j - Len(s)] BY <1>1, <1>2, <1>3, <1>5
    <2> QED BY <2>1, <2>2 DEF Before
  <1>6. CASE i > Len(s)
    <2>1. i - Len(s) \in 1 .. Len(t) /\ j - Len(s) \in 1 .. Len(t) /\ i - Len(s) < j - Len(s) BY <1>1, <1>3, <1>6
    <2>2. (s \o t)[i] = t[i - Len(s)] /\ (s \o t)[j] = t[j - Len(s)] BY <1>1, <1>2, <1>3, <1>6
    <2> QED BY <2>1, <2>2 DEF Rising
  <1> QED BY <1>1, <1>3, <1>4, <1>5, <1>6

LEMMA AudioInitInv == AudioInit => AudioInv
  <1> SUFFICES ASSUME AudioInit PROVE AudioInv OBVIOUS
  <1>1. pcm.held = <<>> /\ pcm.dropped = 0 /\ pcm \in Buffers /\ toSip = <<>>
    BY EmptySeq DEF AudioInit, EmptyBuffer, Buffers
  <1>2. tgPcm = [last |-> 0, first |-> 1] BY DEF AudioInit
  <1>3. Len(<<>>) = 0 /\ <<>> \in Seq(Nat) BY EmptySeq
  <1>4. MaxBytes \in Nat BY AudioAssumption DEF MaxBytes
  <1> QED BY <1>1, <1>2, <1>3, <1>4 DEF AudioInv, Rising, Before, UpTo

LEMMA AudioTgAudio == ASSUME AudioInv, TgAudio PROVE AudioInv'
  <1> DEFINE h == pcm.held
             n == Len(h)
             over == IF n = MaxBytes THEN 1 ELSE 0
             last == tgPcm.last
  <1>1. pcm \in Buffers /\ n <= MaxBytes /\ last \in Nat /\ last + 1 \in Nat /\ h \in Seq(Nat) BY DEF AudioInv, Buffers
  <1>2. n \in Nat /\ over \in 0 .. 1 /\ MaxBytes \in Nat /\ MaxBytes >= 8
    BY <1>1, LenProperties, AudioAssumption DEF MaxBytes
  <1>3. pcm' = Push(pcm, last + 1) /\ tgPcm' = [tgPcm EXCEPT !.last = last + 1] /\ toSip' = toSip BY DEF TgAudio
  <1>4. /\ pcm' \in Buffers /\ pcm.dropped \in Nat /\ pcm'.dropped = pcm.dropped + over
        /\ Len(pcm'.held) = n + 1 - over /\ Len(pcm'.held) <= MaxBytes
        /\ \A i \in 1 .. n - over : pcm'.held[i] = h[i + over]
        /\ pcm'.held[n + 1 - over] = last + 1
    BY <1>1, <1>3, PushAppends DEF Buffers
  <1>5. tgPcm' \in [last : Nat, first : Nat] /\ tgPcm'.last = last + 1 /\ tgPcm'.first = tgPcm.first /\ tgPcm.first \in Nat
    BY <1>3 DEF AudioInv
  <1>6. Len(toSip) \in Nat /\ \A i \in 1 .. Len(toSip) : toSip[i] \in Nat BY LenProperties, ElementOfSeq DEF AudioInv
  <1>7. \A i \in 1 .. n : h[i] \in Nat /\ h[i] <= last BY <1>1, ElementOfSeq DEF AudioInv, UpTo
  <1> HIDE DEF h, n, over, last
  <1>8. ASSUME NEW i \in 1 .. n + 1 - over
        PROVE (i \in 1 .. n - over /\ i + over \in 1 .. n /\ pcm'.held[i] = h[i + over])
              \/ (i = n + 1 - over /\ pcm'.held[i] = last + 1)
    BY <1>2, <1>4
  <1>9. Rising(pcm'.held)
    <2> SUFFICES ASSUME NEW i \in 1 .. n + 1 - over, NEW j \in 1 .. n + 1 - over, i < j
                 PROVE pcm'.held[i] < pcm'.held[j]
      BY <1>4 DEF Rising
    <2>1. i \in 1 .. n - over /\ i + over \in 1 .. n /\ pcm'.held[i] = h[i + over] BY <1>2, <1>8
    <2>2. CASE j = n + 1 - over
      <3>1. pcm'.held[j] = last + 1 BY <1>4, <2>2
      <3> QED BY <1>1, <1>7, <2>1, <3>1
    <2>3. CASE j # n + 1 - over
      <3>1. j + over \in 1 .. n /\ pcm'.held[j] = h[j + over] BY <1>8, <2>3
      <3>2. i + over < j + over BY <1>2
      <3> QED BY <2>1, <3>1, <3>2 DEF AudioInv, Rising, n, h
    <2> QED BY <2>2, <2>3
  <1>10. Before(toSip, pcm'.held) /\ UpTo(pcm'.held, last + 1)
    <2>1. ASSUME NEW i \in 1 .. Len(toSip), NEW j \in 1 .. n + 1 - over PROVE toSip[i] < pcm'.held[j]
      <3>1. toSip[i] \in Nat /\ toSip[i] <= last BY <1>6 DEF AudioInv, UpTo, last
      <3>2. \A m \in 1 .. n : toSip[i] < h[m] BY DEF AudioInv, Before, h, n
      <3> QED BY <1>1, <1>8, <3>1, <3>2
    <2>2. ASSUME NEW j \in 1 .. n + 1 - over PROVE pcm'.held[j] <= last + 1 BY <1>1, <1>7, <1>8
    <2> QED BY <1>4, <2>1, <2>2 DEF Before, UpTo
  <1>11. UpTo(toSip, last + 1)
    <2>1. UpTo(toSip, last) BY DEF AudioInv, last
    <2> QED BY <1>1, <1>6, <2>1 DEF UpTo
  <1>12. (last + 1) - tgPcm.first + 1 = Len(toSip) + (n + 1 - over) + (pcm.dropped + over)
    <2>1. last - tgPcm.first + 1 = Len(toSip) + n + pcm.dropped BY DEF AudioInv, last, n, h
    <2>2. last \in Nat /\ tgPcm.first \in Nat /\ Len(toSip) \in Nat /\ n \in Nat /\ over \in 0 .. 1 /\ pcm.dropped \in Nat
      BY <1>1, <1>2, <1>4, <1>5, <1>6
    <2> DEFINE gone == Len(toSip)
               dropped == pcm.dropped
               first == tgPcm.first
    <2> HIDE DEF gone, dropped, first
    <2>3. last - first + 1 = gone + n + dropped BY <2>1 DEF gone, dropped, first
    <2>4. last \in Nat /\ first \in Nat /\ gone \in Nat /\ n \in Nat /\ over \in Int /\ dropped \in Nat
      BY <2>2 DEF gone, dropped, first
    <2>5. (last + 1) - first + 1 = gone + (n + 1 - over) + (dropped + over) BY ONLY <2>3, <2>4
    <2> QED BY <2>5 DEF gone, dropped, first
  <1> QED BY <1>3, <1>4, <1>5, <1>9, <1>10, <1>11, <1>12 DEF AudioInv

LEMMA AudioPump == ASSUME AudioInv, Pump PROVE AudioInv'
  <1>1. CASE pcm.held = <<>>
    <2>1. UNCHANGED <<pcm, tgPcm, toSip>> BY <1>1 DEF Pump
    <2> QED BY <2>1 DEF AudioInv
  <1>2. CASE pcm.held # <<>>
    <2> DEFINE h == pcm.held
               n == Len(h)
               f == Frame(pcm)
               k == Len(f)
               s == toSip \o f
               m == Len(toSip)
    <2>1. pcm \in Buffers /\ h \in Seq(Nat) /\ n \in Nat /\ toSip \in Seq(Nat) /\ m \in Nat
      BY LenProperties DEF AudioInv, Buffers
    <2>2. pcm' = Pull(pcm) /\ toSip' = s /\ tgPcm' = tgPcm BY <1>2 DEF Pump
    <2>3. /\ k \in 1 .. n /\ f \in Seq(Nat) /\ \A i \in 1 .. k : f[i] = h[i]
          /\ pcm' \in Buffers /\ pcm'.dropped = pcm.dropped /\ Len(pcm'.held) = n - k
          /\ \A i \in 1 .. n - k : pcm'.held[i] = h[k + i]
      BY <1>2, <2>1, <2>2, PullTakes
    <2>4. /\ s \in Seq(Nat) /\ Len(s) = m + k
          /\ \A i \in 1 .. m + k : s[i] = IF i <= m THEN toSip[i] ELSE f[i - m]
      BY <2>1, <2>3, ConcatProperties
    <2>5. /\ \A i, j \in 1 .. n : i < j => h[i] < h[j]
          /\ \A i \in 1 .. m, j \in 1 .. n : toSip[i] < h[j]
          /\ \A i \in 1 .. m : toSip[i] <= tgPcm.last
          /\ \A i \in 1 .. n : h[i] <= tgPcm.last
      BY DEF AudioInv, Rising, Before, UpTo
    <2>6. h[n] = tgPcm.last /\ n <= MaxBytes /\ tgPcm.last \in Nat /\ pcm.dropped \in Nat BY <1>2, <2>1 DEF AudioInv, Buffers
    <2>7. tgPcm.last - tgPcm.first + 1 = m + n + pcm.dropped /\ tgPcm.first \in Nat BY DEF AudioInv
    <2>8. Rising(toSip) /\ MaxBytes \in Nat BY AudioAssumption DEF AudioInv, MaxBytes
    <2>9. \A j \in 1 .. k : j \in 1 .. n /\ f[j] = h[j] BY <2>1, <2>3
    <2>10. Rising(f) BY <2>5, <2>9 DEF Rising
    <2>11. Before(toSip, f) BY <2>5, <2>9 DEF Before
    <2>12. Rising(s) BY <2>1, <2>3, <2>8, <2>10, <2>11, RisingConcat
    <2> HIDE DEF s, f, k, h, n, m
    <2>13. \A i \in 1 .. n - k : k + i \in 1 .. n BY <2>1, <2>3
    <2>14. Rising(pcm'.held)
      <3> SUFFICES ASSUME NEW i \in 1 .. n - k, NEW j \in 1 .. n - k, i < j PROVE pcm'.held[i] < pcm'.held[j]
        BY <2>3 DEF Rising
      <3>1. k + i < k + j BY <2>3
      <3> QED BY <2>3, <2>5, <2>13, <3>1
    <2>15. ASSUME NEW i \in 1 .. m + k
           PROVE (i \in 1 .. m /\ s[i] = toSip[i]) \/ (i - m \in 1 .. k /\ i - m \in 1 .. n /\ s[i] = h[i - m])
      <3>1. CASE i <= m BY <2>1, <2>3, <2>4, <3>1
      <3>2. CASE i > m
        <4>1. i - m \in 1 .. k /\ i - m \in 1 .. n BY <2>1, <2>3, <3>2
        <4>2. s[i] = f[i - m] BY <2>1, <2>4, <3>2
        <4> QED BY <2>3, <4>1, <4>2
      <3> QED BY <2>1, <2>3, <3>1, <3>2
    <2>16. Before(s, pcm'.held)
      <3> SUFFICES ASSUME NEW i \in 1 .. m + k, NEW j \in 1 .. n - k PROVE s[i] < pcm'.held[j]
        BY <2>3, <2>4 DEF Before
      <3>1. k + j \in 1 .. n /\ pcm'.held[j] = h[k + j] BY <2>3, <2>13
      <3>2. CASE i \in 1 .. m /\ s[i] = toSip[i] BY <2>5, <3>1, <3>2
      <3>3. CASE i - m \in 1 .. k /\ i - m \in 1 .. n /\ s[i] = h[i - m]
        <4>1. i - m < k + j BY <2>3, <3>3
        <4> QED BY <2>5, <3>1, <3>3, <4>1
      <3> QED BY <2>15, <3>2, <3>3
    <2>17. UpTo(s, tgPcm.last)
      <3> SUFFICES ASSUME NEW i \in 1 .. m + k PROVE s[i] <= tgPcm.last BY <2>4 DEF UpTo
      <3> QED BY <2>5, <2>15
    <2>18. UpTo(pcm'.held, tgPcm.last) BY <2>3, <2>5, <2>13 DEF UpTo
    <2>19. pcm'.held # <<>> => pcm'.held[n - k] = tgPcm.last
      <3> SUFFICES ASSUME pcm'.held # <<>> PROVE pcm'.held[n - k] = tgPcm.last OBVIOUS
      <3>1. pcm'.held \in Seq(Nat) BY <2>3 DEF Buffers
      <3>2. n - k \in Nat \ {0} BY <2>3, <3>1, EmptySeq
      <3>3. n - k \in 1 .. n - k /\ k + (n - k) = n BY <2>1, <2>3, <3>2
      <3> QED BY <2>3, <2>6, <3>3
    <2>20. tgPcm.last - tgPcm.first + 1 = (m + k) + (n - k) + pcm.dropped BY <2>1, <2>3, <2>6, <2>7
    <2>21. n - k <= MaxBytes BY <2>1, <2>3, <2>6, <2>8
    <2>22. tgPcm \in [last : Nat, first : Nat] BY DEF AudioInv
    <2> QED BY <2>2, <2>3, <2>4, <2>12, <2>14, <2>16, <2>17, <2>18, <2>19, <2>20, <2>21, <2>22 DEF AudioInv
  <1> QED BY <1>1, <1>2

LEMMA AudioNextInv == AudioInv /\ [AudioNext]_audioVars => AudioInv'
  <1> SUFFICES ASSUME AudioInv, [AudioNext]_audioVars PROVE AudioInv' OBVIOUS
  <1>1. CASE UNCHANGED <<pcm, tgPcm, toSip>> BY <1>1 DEF AudioInv
  <1>2. CASE UpdateRate
    <2>1. pcm'.held = <<>> /\ pcm'.dropped = 0 /\ pcm' \in Buffers /\ toSip' = <<>>
      BY <1>2, EmptySeq DEF UpdateRate, EmptyBuffer, Buffers
    <2>2. tgPcm' = [tgPcm EXCEPT !.first = tgPcm.last + 1] /\ tgPcm \in [last : Nat, first : Nat]
      BY <1>2 DEF UpdateRate, AudioInv
    <2>3. tgPcm'.last = tgPcm.last /\ tgPcm'.first = tgPcm.last + 1 /\ tgPcm.last \in Nat /\ tgPcm' \in [last : Nat, first : Nat]
      BY <2>2
    <2>4. Len(<<>>) = 0 /\ <<>> \in Seq(Nat) BY EmptySeq
    <2>5. MaxBytes \in Nat BY AudioAssumption DEF MaxBytes
    <2> QED BY <2>1, <2>3, <2>4, <2>5 DEF AudioInv, Rising, Before, UpTo
  <1>3. CASE TgAudio BY <1>3, AudioTgAudio
  <1>4. CASE Pump BY <1>4, AudioPump
  <1> QED BY <1>1, <1>2, <1>3, <1>4 DEF AudioNext, audioVars, BridgeStart, BridgeStop, MediaChanges, FromSip

\* The PBX hears what Telegram sent, in its order and nothing twice, and every unit is heard, held or
\* counted as dropped, for any length of the buffer and of the call (bridge.py, audio/buffer.py).
THEOREM HeardAsSent == AudioSpec => []HeardInOrder
  <1>1. AudioInv => HeardInOrder
    <2> SUFFICES ASSUME AudioInv PROVE HeardInOrder OBVIOUS
    <2>1. toSip \in Seq(Nat) /\ pcm.held \in Seq(Nat) BY DEF AudioInv, Buffers
    <2>2. Rising(toSip \o pcm.held) BY <2>1, RisingConcat DEF AudioInv
    <2>3. toSip \o pcm.held \in Seq(Nat) BY <2>1, ConcatProperties
    <2>4. \A i, j \in DOMAIN (toSip \o pcm.held) : i < j => (toSip \o pcm.held)[i] < (toSip \o pcm.held)[j]
      BY <2>2, <2>3, LenProperties DEF Rising
    <2>5. pcm.held # <<>> => Last(pcm.held) = tgPcm.last BY DEF AudioInv, Last
    <2> QED BY <2>4, <2>5 DEF AudioInv, HeardInOrder
  <1> QED BY <1>1, AudioInitInv, AudioNextInv, PTL DEF AudioSpec

-----------------------------------------------------------------------------
(***************************************************************************)
(* The statistics of a stream.                                             *)
(*                                                                         *)
(* The counters stand for the packets heard: the highest number is that of *)
(* the last of them, and the count is how many came.  A report is exact    *)
(* when the one before it was, so what it adds is what went missing since. *)
(***************************************************************************)
\* The numbers of a stream do not wrap around, and no packet is later than half the numbers.
NoWrap == Window <= SeqSpace \div 2 /\ \A n \in Starts : n + Packets <= SeqSpace

RxStats == [ssrc : {0, 1, 2}, base : Nat, max : Nat, cycles : Nat, received : Nat, expPrior : Nat, recPrior : Nat]

StatsType ==
    /\ rx \in RxStats
    /\ stream \in [ssrc : {1, 2}, next : Nat, count : Nat]
    /\ wire \subseteq {1, 2} \X Nat
    /\ heard \in [first : Nat, rest : SUBSET Nat, repeats : Nat]
    /\ sent \in [count : Nat, fraction : Int, interval : Int, missed : Int, fresh : Int, exact : BOOLEAN]

\* What the far end has under way: no number is used up, and two packets of a stream are near.
Sending ==
    /\ stream.count <= Packets /\ stream.next + (Packets - stream.count) <= SeqSpace
    /\ \A p \in wire : /\ p[1] <= stream.ssrc /\ p[2] < SeqSpace
                       /\ p[1] = stream.ssrc => p[2] < stream.next
    /\ \A p, q \in wire : p[1] = q[1] => p[2] - q[2] <= Window

\* The counters are about what has been heard of the stream they count.
Counting ==
    /\ rx.ssrc <= stream.ssrc
    /\ rx.ssrc # NoSsrc =>
        /\ rx.cycles = 0 /\ rx.base = heard.first /\ heard.first \in heard.rest
        /\ rx.max \in heard.rest /\ rx.max < SeqSpace /\ \A n \in heard.rest : n <= rx.max
        /\ IsFiniteSet(heard.rest) /\ rx.received = Cardinality(heard.rest) + heard.repeats
        /\ rx.ssrc = stream.ssrc => rx.max < stream.next
        /\ \A p \in wire : p[1] = rx.ssrc => rx.max - p[2] <= Window

\* An exact report covered just what was missing then, and what has come since is counted on top.
Reporting ==
    /\ rx.ssrc # NoSsrc => rx.recPrior <= rx.received
    /\ rx.ssrc # NoSsrc /\ Exact => rx.expPrior - rx.recPrior = sent.missed
    /\ sent.exact => (sent.fraction > 0 <=> sent.fresh > 0 /\ sent.interval <= 256 * sent.fresh)

StatsInv == StatsType /\ Sending /\ Counting /\ Reporting

LEMMA MissingIs ==
    ASSUME StatsType, Counting, rx.ssrc # NoSsrc
    PROVE  /\ Cardinality(Missing) \in Nat
           /\ Expected(rx) - rx.received <= Cardinality(Missing)
           /\ Exact => Expected(rx) - rx.received = Cardinality(Missing)
  <1> DEFINE S == heard.first .. rx.max
             R == heard.rest
  <1>1. /\ rx.max \in Nat /\ heard.first \in Nat /\ heard.repeats \in Nat /\ R \subseteq Nat /\ rx.base = heard.first
        /\ rx.cycles = 0 /\ rx.max \in R /\ heard.first \in R /\ (\A n \in R : n <= rx.max)
        /\ IsFiniteSet(R) /\ rx.received = Cardinality(R) + heard.repeats
    BY DEF StatsType, RxStats, Counting
  <1>2. MaxOf(R) = rx.max
    <2>1. \A n \in R : (\A m \in R : m <= n) => n = rx.max BY <1>1
    <2> QED BY <1>1, <2>1 DEF MaxOf
  <1>3. Missing = S \ R BY <1>2 DEF Missing
  <1>4. IsFiniteSet(S) /\ Cardinality(S) = (rx.max - heard.first) + 1
    <2>1. heard.first <= rx.max BY <1>1
    <2>2. rx.max \in Int /\ heard.first \in Int BY <1>1
    <2>3. /\ IsFiniteSet(heard.first .. rx.max)
          /\ Cardinality(heard.first .. rx.max) = IF heard.first > rx.max THEN 0 ELSE rx.max - heard.first + 1
      BY <2>2, FS_Interval
    <2> DEFINE c == Cardinality(heard.first .. rx.max)
    <2>4. c = IF heard.first > rx.max THEN 0 ELSE rx.max - heard.first + 1 BY <2>3
    <2> HIDE DEF c
    <2>5. c = (rx.max - heard.first) + 1 BY <2>1, <2>2, <2>4
    <2> QED BY <2>3, <2>5 DEF c
  <1>5. IsFiniteSet(S \ R) /\ Cardinality(S \ R) = Cardinality(S) - Cardinality(S \cap R) BY <1>4, FS_Difference
  <1>6. IsFiniteSet(S \cap R) /\ Cardinality(S \cap R) <= Cardinality(R) BY <1>1, FS_Intersection
  <1>7. Cardinality(S \ R) \in Nat /\ Cardinality(S \cap R) \in Nat /\ Cardinality(R) \in Nat
    BY <1>1, <1>5, <1>6, FS_CardinalityType
  <1>8. Expected(rx) = (rx.max - heard.first) + 1 BY <1>1 DEF Expected
  <1>9. ASSUME Exact PROVE S \cap R = R /\ heard.repeats = 0 BY <1>1, <1>9 DEF Exact
  <1> HIDE DEF S, R
  <1>10. Cardinality(Missing) = Cardinality(S) - Cardinality(S \cap R) BY <1>3, <1>5
  <1>11. Expected(rx) - rx.received <= Cardinality(Missing) BY <1>1, <1>4, <1>6, <1>7, <1>8, <1>10
  <1>12. ASSUME Exact PROVE Expected(rx) - rx.received = Cardinality(Missing)
    BY <1>1, <1>4, <1>7, <1>8, <1>9, <1>10, <1>12
  <1>13. Cardinality(Missing) \in Nat BY <1>3, <1>7
  <1> QED BY <1>11, <1>12, <1>13

LEMMA StatsInvTrue == StatsInv => LossTrue
  <1> SUFFICES ASSUME StatsInv PROVE LossTrue OBVIOUS
  <1>1. ASSUME rx.ssrc # NoSsrc
        PROVE  Lost(rx) <= Cardinality(Missing) /\ (Exact => Lost(rx) = Cardinality(Missing))
    <2>1. /\ Cardinality(Missing) \in Nat /\ Expected(rx) - rx.received <= Cardinality(Missing)
          /\ Exact => Expected(rx) - rx.received = Cardinality(Missing)
      BY <1>1, MissingIs DEF StatsInv
    <2>2. Expected(rx) \in Int /\ rx.received \in Int BY DEF StatsInv, StatsType, RxStats, Expected
    <2> QED BY <2>1, <2>2 DEF Lost, AtLeast0
  <1> QED BY <1>1 DEF LossTrue, StatsInv, Reporting

LEMMA StatsInit == ASSUME NoWrap, RtcpInit PROVE StatsInv
  <1>1. StatsType BY RtcpAssumption DEF RtcpInit, StatsType, RxStats, Fresh, NoSsrc
  <1>2. Sending
    <2>1. PICK n \in Starts : stream = [ssrc |-> 1, next |-> n, count |-> 0] BY DEF RtcpInit
    <2>2. n \in Nat /\ Packets \in Nat /\ SeqSpace \in Nat /\ n + Packets <= SeqSpace
      BY RtcpAssumption DEF NoWrap
    <2>3. wire = {} BY DEF RtcpInit
    <2> QED BY <2>1, <2>2, <2>3 DEF Sending
  <1>3. rx.ssrc = NoSsrc /\ rx.ssrc = 0 BY DEF RtcpInit, Fresh, NoSsrc
  <1>4. Counting BY <1>1, <1>3 DEF Counting, StatsType
  <1>5. Reporting BY <1>3 DEF Reporting, RtcpInit
  <1> QED BY <1>1, <1>2, <1>4, <1>5 DEF StatsInv

\* A packet of the stream counted moves the highest number and the count of packets.
LEMMA SameStream ==
    ASSUME NoWrap, StatsInv, NEW p \in wire, NEW again \in BOOLEAN, PacketArrives(p, again), p[1] = rx.ssrc
    PROVE  /\ rx' = [rx EXCEPT !.max = IF p[2] > rx.max THEN p[2] ELSE rx.max, !.received = @ + 1]
           /\ rx.ssrc # NoSsrc
  <1> DEFINE seq == p[2] % SeqSpace
  <1>1. p[1] \in {1, 2} /\ p[2] \in Nat /\ p[2] < SeqSpace /\ SeqSpace \in Nat \ {0}
    BY RtcpAssumption DEF StatsInv, StatsType, Sending
  <1>2. rx.ssrc # NoSsrc BY <1>1 DEF NoSsrc
  <1>3. seq = p[2] BY <1>1
  <1>4. rx.max \in Nat /\ rx.cycles = 0 /\ rx.max - p[2] <= Window /\ Window <= SeqSpace \div 2 /\ rx \in RxStats
    BY <1>2 DEF NoWrap, StatsInv, StatsType, Counting, RxStats
  <1>5. Window \in Nat /\ SeqSpace \div 2 \in Int BY <1>1, RtcpAssumption
  <1>6. ~(rx.max - p[2] > SeqSpace \div 2) BY <1>1, <1>4, <1>5
  <1>7. Follow(rx, p[2]) = [rx EXCEPT !.cycles = 0, !.max = IF p[2] > rx.max THEN p[2] ELSE rx.max]
    <2>1. Follow(rx, p[2]) = [rx EXCEPT !.cycles = 0, !.max = IF p[2] + 0 > rx.max + 0 THEN p[2] ELSE rx.max]
      BY <1>4, <1>6, Zenon DEF Follow
    <2>2. p[2] + 0 = p[2] /\ rx.max + 0 = rx.max BY <1>1, <1>4
    <2> QED BY <2>1, <2>2, Zenon
  <1>8. Follow(rx, p[2]) = [rx EXCEPT !.max = IF p[2] > rx.max THEN p[2] ELSE rx.max] BY <1>4, <1>7 DEF RxStats
  <1>9. rx' = OnPacket(rx, p[2], p[1]) BY <1>3 DEF PacketArrives
  <1>10. OnPacket(rx, p[2], p[1]) = [Follow(rx, p[2]) EXCEPT !.received = @ + 1] BY DEF OnPacket
  <1> QED BY <1>2, <1>4, <1>8, <1>9, <1>10 DEF RxStats

LEMMA ArrivesInv ==
    ASSUME NoWrap, StatsInv, NEW p \in wire, NEW again \in BOOLEAN, PacketArrives(p, again)
    PROVE  StatsInv'
  <1>1. /\ p[1] \in {1, 2} /\ p[2] \in Nat /\ p[2] < SeqSpace /\ p[1] <= stream.ssrc
        /\ p[1] = stream.ssrc => p[2] < stream.next
        /\ SeqSpace \in Nat \ {0}
    BY RtcpAssumption DEF StatsInv, StatsType, Sending
  <1>2. stream' = stream /\ rtcp' = rtcp /\ wire' \subseteq wire /\ stream \in [ssrc : {1, 2}, next : Nat, count : Nat]
    BY DEF PacketArrives, StatsInv, StatsType
  <1>3. Sending' BY <1>2 DEF StatsInv, Sending
  <1>4. \A q \in wire : p[1] = q[1] => p[2] - q[2] <= Window BY DEF StatsInv, Sending
  <1>5. StatsType /\ Counting /\ Reporting BY DEF StatsInv
  <1>6. CASE p[1] # rx.ssrc
    <2>1. /\ heard' = [first |-> p[2], rest |-> {p[2]}, repeats |-> 0]
          /\ sent' = [sent EXCEPT !.missed = 0]
          /\ rx' = OnPacket(rx, p[2], p[1])
      BY <1>1, <1>6 DEF PacketArrives
    <2>2. OnPacket(rx, p[2], p[1]) = [Fresh(p[1], p[2]) EXCEPT !.received = Fresh(p[1], p[2]).received + 1]
      BY <1>6, Zenon DEF OnPacket
    <2>3. rx' = [ssrc |-> p[1], base |-> p[2], max |-> p[2], cycles |-> 0, received |-> 1, expPrior |-> 0, recPrior |-> 0]
      <3>1. Fresh(p[1], p[2]).received + 1 = 1 BY DEF Fresh
      <3>2. rx' = [Fresh(p[1], p[2]) EXCEPT !.received = 1] BY <2>1, <2>2, <3>1
      <3> QED BY <3>2 DEF Fresh
    <2>4. StatsType' BY <1>1, <1>2, <1>5, <2>1, <2>3 DEF StatsType, RxStats
    <2>5. IsFiniteSet({p[2]}) /\ Cardinality({p[2]}) = 1 BY FS_Singleton
    <2>6. Counting'
      <3>1. rx'.ssrc = p[1] /\ rx'.cycles = 0 /\ rx'.base = p[2] /\ rx'.max = p[2] /\ rx'.received = 1 BY <2>3
      <3>2. heard'.first = p[2] /\ heard'.rest = {p[2]} /\ heard'.repeats = 0 BY <2>1
      <3>3. rx'.received = Cardinality(heard'.rest) + heard'.repeats BY <2>5, <3>1, <3>2
      <3>4. \A q \in wire' : q[1] = p[1] => p[2] - q[2] <= Window BY <1>2, <1>4
      <3>5. \A n \in {p[2]} : n <= p[2] BY <1>1
      <3> QED BY <1>1, <1>2, <2>5, <3>1, <3>2, <3>3, <3>4, <3>5 DEF Counting
    <2>7. Reporting'
      <3>1. rx'.recPrior = 0 /\ rx'.expPrior = 0 /\ rx'.received = 1 BY <2>3
      <3>2. sent'.missed = 0 /\ sent'.exact = sent.exact /\ sent'.fraction = sent.fraction
            /\ sent'.fresh = sent.fresh /\ sent'.interval = sent.interval
        BY <1>5, <2>1 DEF StatsType
      <3> QED BY <1>5, <3>1, <3>2 DEF Reporting
    <2> QED BY <1>3, <2>4, <2>6, <2>7 DEF StatsInv
  <1>7. CASE p[1] = rx.ssrc
    <2>1. /\ rx' = [rx EXCEPT !.max = IF p[2] > rx.max THEN p[2] ELSE rx.max, !.received = @ + 1]
          /\ rx.ssrc # NoSsrc
      BY <1>7, SameStream
    <2>2. /\ heard' = [heard EXCEPT !.rest = @ \cup {p[2]}, !.repeats = IF p[2] \in heard.rest THEN @ + 1 ELSE @]
          /\ sent' = sent
      BY <1>7 DEF PacketArrives
    <2>3. rx \in RxStats /\ heard \in [first : Nat, rest : SUBSET Nat, repeats : Nat] BY <1>5 DEF StatsType
    <2>4. StatsType'
      <3>1. rx' \in RxStats
        <4> DEFINE m == IF p[2] > rx.max THEN p[2] ELSE rx.max
        <4>1. m \in Nat /\ rx.received + 1 \in Nat BY <1>1, <2>3 DEF RxStats
        <4>2. rx' = [rx EXCEPT !.max = m, !.received = @ + 1] BY <2>1
        <4> HIDE DEF m
        <4> QED BY <2>3, <4>1, <4>2 DEF RxStats
      <3>2. heard' \in [first : Nat, rest : SUBSET Nat, repeats : Nat]
        <4> DEFINE k == IF p[2] \in heard.rest THEN heard.repeats + 1 ELSE heard.repeats
                   r == heard.rest \cup {p[2]}
        <4>1. k \in Nat /\ r \subseteq Nat BY <1>1, <2>3
        <4>2. heard' = [heard EXCEPT !.rest = r, !.repeats = k] BY <2>2
        <4> HIDE DEF k, r
        <4> QED BY <2>3, <4>1, <4>2
      <3>3. wire' \subseteq {1, 2} \X Nat BY <1>2, <1>5 DEF StatsType
      <3> QED BY <1>2, <1>5, <2>2, <3>1, <3>2, <3>3 DEF StatsType
    <2>5. /\ rx'.ssrc = rx.ssrc /\ rx'.base = rx.base /\ rx'.cycles = rx.cycles
          /\ rx'.max = (IF p[2] > rx.max THEN p[2] ELSE rx.max) /\ rx'.received = rx.received + 1
          /\ rx'.expPrior = rx.expPrior /\ rx'.recPrior = rx.recPrior
      BY <2>1, <2>3 DEF RxStats
    <2>6. /\ heard'.first = heard.first /\ heard'.rest = heard.rest \cup {p[2]}
          /\ heard'.repeats = (IF p[2] \in heard.rest THEN heard.repeats + 1 ELSE heard.repeats)
      BY <2>2, <2>3
    <2>7. Counting'
      <3>1. /\ rx.cycles = 0 /\ rx.base = heard.first /\ heard.first \in heard.rest
            /\ rx.max \in heard.rest /\ rx.max < SeqSpace /\ rx.ssrc <= stream.ssrc
            /\ IsFiniteSet(heard.rest) /\ rx.received = Cardinality(heard.rest) + heard.repeats
            /\ rx.ssrc = stream.ssrc => rx.max < stream.next
        BY <1>5, <2>1 DEF Counting
      <3>2. \A n \in heard.rest : n <= rx.max BY <1>5, <2>1 DEF Counting
      <3>3. \A q \in wire : q[1] = rx.ssrc => rx.max - q[2] <= Window BY <1>5, <2>1 DEF Counting
      <3>4. rx.max \in Nat /\ heard.repeats \in Nat /\ heard.rest \subseteq Nat BY <2>3 DEF RxStats
      <3>5. IsFiniteSet(heard'.rest) /\ rx'.received = Cardinality(heard'.rest) + heard'.repeats
        <4>1. /\ IsFiniteSet(heard.rest \cup {p[2]})
              /\ Cardinality(heard.rest \cup {p[2]})
                   = IF p[2] \in heard.rest THEN Cardinality(heard.rest) ELSE Cardinality(heard.rest) + 1
          BY <3>1, FS_AddElement
        <4>2. Cardinality(heard.rest) \in Nat BY <3>1, FS_CardinalityType
        <4> QED BY <2>5, <2>6, <3>1, <3>4, <4>1, <4>2
      <3>6. rx'.max \in heard'.rest /\ \A n \in heard'.rest : n <= rx'.max BY <1>1, <2>5, <2>6, <3>1, <3>2, <3>4
      <3>7. rx'.max < SeqSpace /\ (rx.ssrc = stream.ssrc => rx'.max < stream.next) BY <1>1, <1>7, <2>5, <3>1
      <3>8. \A q \in wire' : q[1] = rx.ssrc => rx'.max - q[2] <= Window BY <1>2, <1>4, <1>7, <2>5, <3>3
      <3> QED BY <1>2, <2>5, <2>6, <3>1, <3>5, <3>6, <3>7, <3>8 DEF Counting
    <2>8. Reporting'
      <3>1. rx.recPrior <= rx.received /\ rx.recPrior \in Nat /\ rx.received \in Nat
        BY <1>5, <2>1, <2>3 DEF Reporting, RxStats
      <3>2. ASSUME Exact' PROVE Exact
        <4>1. heard.repeats \in Nat BY <2>3
        <4>2. heard.repeats = 0 BY <2>6, <3>2, <4>1 DEF Exact
        <4> QED BY <2>6, <3>2, <4>2 DEF Exact
      <3>3. rx'.recPrior <= rx'.received BY <2>5, <3>1
      <3>4. Exact' => rx'.expPrior - rx'.recPrior = sent'.missed BY <1>5, <2>1, <2>2, <2>5, <3>2 DEF Reporting
      <3> QED BY <1>5, <2>2, <3>3, <3>4 DEF Reporting
    <2> QED BY <1>3, <2>4, <2>7, <2>8 DEF StatsInv
  <1> QED BY <1>6, <1>7

\* A report speaks of what is missing now and was not at the last one.
LEMMA ReportInv ==
    ASSUME StatsInv, MakeReport, UNCHANGED <<stream, wire, heard>>
    PROVE  StatsInv'
  <1>1. StatsType /\ Sending /\ Counting /\ Reporting BY DEF StatsInv
  <1>2. Sending' BY <1>1 DEF Sending
  <1>3. CASE rx.ssrc = NoSsrc
    <2>1. rx' = rx /\ sent' = [sent EXCEPT !.count = @ + 1] BY <1>3 DEF MakeReport
    <2>2. StatsType' BY <1>1, <2>1 DEF StatsType
    <2>3. Counting' BY <1>1, <2>1 DEF Counting
    <2>4. /\ sent'.missed = sent.missed /\ sent'.exact = sent.exact /\ sent'.fraction = sent.fraction
          /\ sent'.fresh = sent.fresh /\ sent'.interval = sent.interval
      BY <1>1, <2>1 DEF StatsType
    <2>5. Reporting' BY <1>1, <1>3, <2>1, <2>4 DEF Reporting
    <2> QED BY <1>2, <2>2, <2>3, <2>5 DEF StatsInv
  <1>4. CASE rx.ssrc # NoSsrc
    <2> DEFINE missing == Cardinality(Missing)
               interval == Expected(rx) - rx.expPrior
               lost == interval - (rx.received - rx.recPrior)
    <2>1. /\ rx' = [rx EXCEPT !.expPrior = Expected(rx), !.recPrior = rx.received]
          /\ sent' = [count |-> sent.count + 1, fraction |-> Fraction(rx), exact |-> Exact,
                      interval |-> interval, missed |-> missing, fresh |-> missing - sent.missed]
      BY <1>4 DEF MakeReport, Reported
    <2>2. rx \in RxStats /\ sent.count \in Nat /\ sent.missed \in Int BY <1>1 DEF StatsType
    <2>3. /\ rx'.ssrc = rx.ssrc /\ rx'.base = rx.base /\ rx'.cycles = rx.cycles /\ rx'.max = rx.max
          /\ rx'.received = rx.received /\ rx'.expPrior = Expected(rx) /\ rx'.recPrior = rx.received
      BY <2>1, <2>2 DEF RxStats
    <2>4. /\ missing \in Nat /\ Expected(rx) - rx.received <= missing
          /\ Exact => Expected(rx) - rx.received = missing
      BY <1>1, <1>4, MissingIs
    <2>5. Expected(rx) \in Nat
      <3>1. rx.base \in heard.rest /\ rx.base <= rx.max /\ rx.cycles = 0 BY <1>1, <1>4 DEF Counting
      <3> QED BY <2>2, <3>1 DEF Expected, RxStats
    <2>6. rx.received \in Nat /\ rx.recPrior \in Nat /\ rx.expPrior \in Nat /\ rx.recPrior <= rx.received
      BY <1>1, <1>4, <2>2 DEF RxStats, Reporting
    <2>7. Fraction(rx) = IF interval <= 0 \/ lost <= 0 THEN 0 ELSE IF lost >= interval THEN 255 ELSE (lost * 256) \div interval
      BY DEF Fraction
    <2> HIDE DEF missing
    <2>8. Fraction(rx) \in Int /\ (Fraction(rx) > 0 <=> lost > 0 /\ interval <= 256 * lost)
      <3>1. interval \in Int /\ lost \in Int /\ lost <= interval BY <2>5, <2>6
      <3> HIDE DEF interval, lost
      <3>2. CASE interval <= 0 \/ lost <= 0 BY <2>7, <3>1, <3>2
      <3>3. CASE interval > 0 /\ lost > 0 /\ lost >= interval BY <2>7, <3>1, <3>3
      <3>4. CASE interval > 0 /\ lost > 0 /\ lost < interval
        <4>1. Fraction(rx) = (lost * 256) \div interval BY <2>7, <3>1, <3>4
        <4> DEFINE k == lost * 256
        <4>2. k \in Nat /\ k = 256 * lost /\ interval \in Nat \ {0} BY <3>1, <3>4
        <4> HIDE DEF k
        <4>3. (k \div interval) \in Nat /\ (k \div interval > 0 <=> interval <= k) BY <4>2, Z3
        <4> QED BY <3>4, <4>1, <4>2, <4>3 DEF k
      <3> QED BY <3>1, <3>2, <3>3, <3>4
    <2>9. StatsType'
      <3>1. rx' \in RxStats BY <2>1, <2>2, <2>5, <2>6 DEF RxStats
      <3>2. Exact \in BOOLEAN BY DEF Exact
      <3>3. interval \in Int /\ missing - sent.missed \in Int BY <2>2, <2>4, <2>5, <2>6
      <3> HIDE DEF interval
      <3>4. sent' \in [count : Nat, fraction : Int, interval : Int, missed : Int, fresh : Int, exact : BOOLEAN]
        BY <2>1, <2>2, <2>4, <2>8, <3>2, <3>3
      <3> QED BY <1>1, <3>1, <3>4 DEF StatsType
    <2>10. Counting' BY <1>1, <2>3 DEF Counting
    <2>11. Reporting'
      <3>1. /\ sent'.missed = missing /\ sent'.exact = Exact /\ sent'.fraction = Fraction(rx)
            /\ sent'.fresh = missing - sent.missed /\ sent'.interval = interval
        BY <2>1
      <3>2. Exact' <=> Exact BY DEF Exact
      <3>3. ASSUME Exact PROVE lost = missing - sent.missed
        <4>1. rx.expPrior - rx.recPrior = sent.missed /\ Expected(rx) - rx.received = missing
          BY <1>1, <1>4, <2>4, <3>3 DEF Reporting
        <4> QED BY <2>2, <2>4, <2>5, <2>6, <4>1
      <3>4. sent'.exact => (sent'.fraction > 0 <=> sent'.fresh > 0 /\ sent'.interval <= 256 * sent'.fresh)
        BY <2>8, <3>1, <3>3
      <3>5. rx'.recPrior <= rx'.received BY <2>3, <2>6
      <3>6. Exact => rx'.expPrior - rx'.recPrior = sent'.missed BY <2>3, <2>4, <3>1
      <3> QED BY <3>2, <3>4, <3>5, <3>6 DEF Reporting
    <2> QED BY <1>2, <2>9, <2>10, <2>11 DEF StatsInv
  <1> QED BY <1>3, <1>4

LEMMA FarSendInv == ASSUME StatsInv, FarSend PROVE StatsInv'
  <1>1. StatsType /\ Sending /\ Counting /\ Reporting BY DEF StatsInv
  <1>2. /\ stream.count < Packets /\ wire' = wire \cup {<<stream.ssrc, stream.next>>}
        /\ stream' = [stream EXCEPT !.next = @ + 1, !.count = @ + 1]
        /\ rx' = rx /\ heard' = heard /\ sent' = sent
        /\ \A p \in wire : p[1] = stream.ssrc => p[2] > stream.next - Window
    BY DEF FarSend
  <1>3. /\ stream.ssrc \in {1, 2} /\ stream.next \in Nat /\ stream.count \in Nat
        /\ stream'.ssrc = stream.ssrc /\ stream'.next = stream.next + 1 /\ stream'.count = stream.count + 1
        /\ stream' \in [ssrc : {1, 2}, next : Nat, count : Nat]
    <2>1. stream \in [ssrc : {1, 2}, next : Nat, count : Nat] BY <1>1 DEF StatsType
    <2>2. stream' = [stream EXCEPT !.next = @ + 1, !.count = @ + 1] BY <1>2
    <2>3. stream.ssrc \in {1, 2} /\ stream.next \in Nat /\ stream.count \in Nat BY <2>1
    <2>4. stream' = [ssrc |-> stream.ssrc, next |-> stream.next + 1, count |-> stream.count + 1] BY <2>1, <2>2
    <2>5. stream.next + 1 \in Nat /\ stream.count + 1 \in Nat BY <2>3
    <2> QED BY <2>3, <2>4, <2>5
  <1>4. \A p \in wire : p[1] \in {1, 2} /\ p[2] \in Nat BY <1>1 DEF StatsType
  <1>5. Packets \in Nat /\ SeqSpace \in Nat /\ Window \in Nat BY RtcpAssumption
  <1> DEFINE x == <<stream.ssrc, stream.next>>
  <1>6. x[1] = stream.ssrc /\ x[2] = stream.next /\ x \in {1, 2} \X Nat BY <1>3
  <1> HIDE DEF x
  <1>7. wire' = wire \cup {x} BY <1>2 DEF x
  <1>8. StatsType' BY <1>1, <1>2, <1>3, <1>6, <1>7 DEF StatsType
  <1>9. stream.count <= Packets /\ stream.next + (Packets - stream.count) <= SeqSpace
        /\ \A p \in wire : /\ p[1] <= stream.ssrc /\ p[2] < SeqSpace
                           /\ p[1] = stream.ssrc => p[2] < stream.next
    BY <1>1 DEF Sending
  <1>10. Sending'
    <2>1. stream'.count <= Packets /\ stream'.next + (Packets - stream'.count) <= SeqSpace BY <1>2, <1>3, <1>5, <1>9
    <2>2. \A p \in wire' : p[1] <= stream'.ssrc /\ p[2] < SeqSpace /\ (p[1] = stream'.ssrc => p[2] < stream'.next)
      <3>1. stream.next < SeqSpace BY <1>2, <1>3, <1>5, <1>9
      <3> QED BY <1>3, <1>4, <1>6, <1>7, <1>9, <3>1
    <2>3. ASSUME NEW p \in wire', NEW q \in wire', p[1] = q[1] PROVE p[2] - q[2] <= Window
      <3>1. CASE p \in wire /\ q \in wire BY <1>1, <2>3, <3>1 DEF Sending
      <3>2. CASE p \in wire /\ q = x BY <1>3, <1>4, <1>5, <1>6, <1>9, <2>3, <3>2
      <3>3. CASE p = x /\ q \in wire BY <1>2, <1>3, <1>4, <1>5, <1>6, <2>3, <3>3
      <3>4. CASE p = x /\ q = x BY <1>3, <1>5, <1>6, <3>4
      <3> QED BY <1>7, <2>3, <3>1, <3>2, <3>3, <3>4
    <2> QED BY <2>1, <2>2, <2>3 DEF Sending
  <1>11. Counting'
    <2>1. ASSUME rx.ssrc # NoSsrc PROVE (\A p \in wire' : p[1] = rx.ssrc => rx.max - p[2] <= Window)
                                        /\ (rx.ssrc = stream.ssrc => rx.max < stream.next + 1)
      <3>1. rx.max \in Nat BY <1>1 DEF StatsType, RxStats
      <3>2. /\ rx.ssrc = stream.ssrc => rx.max < stream.next
            /\ \A p \in wire : p[1] = rx.ssrc => rx.max - p[2] <= Window
        BY <1>1, <2>1 DEF Counting
      <3>3. x[1] = rx.ssrc => rx.max - x[2] <= Window BY <1>3, <1>5, <1>6, <3>1, <3>2
      <3> QED BY <1>3, <1>7, <3>1, <3>2, <3>3
    <2> QED BY <1>1, <1>2, <1>3, <2>1 DEF Counting
  <1>12. Reporting' BY <1>1, <1>2 DEF Reporting, Exact
  <1> QED BY <1>8, <1>10, <1>11, <1>12 DEF StatsInv

LEMMA FarRestartInv == ASSUME NoWrap, StatsInv, NEW n \in Starts, FarRestart(n) PROVE StatsInv'
  <1>1. StatsType /\ Sending /\ Counting /\ Reporting BY DEF StatsInv
  <1>2. /\ stream.ssrc = 1 /\ stream.count > 0 /\ stream' = [stream EXCEPT !.ssrc = 2, !.next = n]
        /\ rx' = rx /\ heard' = heard /\ sent' = sent /\ wire' = wire
    BY DEF FarRestart
  <1>3. n \in Nat /\ n + Packets <= SeqSpace /\ Packets \in Nat /\ SeqSpace \in Nat BY RtcpAssumption DEF NoWrap
  <1>4. /\ stream'.ssrc = 2 /\ stream'.next = n /\ stream'.count = stream.count /\ stream.count \in Nat
        /\ stream' \in [ssrc : {1, 2}, next : Nat, count : Nat]
    BY <1>1, <1>2, <1>3 DEF StatsType
  <1>5. StatsType' BY <1>1, <1>2, <1>4 DEF StatsType
  <1>6. \A p \in wire : p[1] = 1 /\ p[2] < SeqSpace BY <1>1, <1>2 DEF StatsType, Sending
  <1>7. Sending'
    <2>1. stream'.count <= Packets /\ stream'.next + (Packets - stream'.count) <= SeqSpace
      BY <1>1, <1>3, <1>4 DEF Sending
    <2>2. \A p, q \in wire : p[1] = q[1] => p[2] - q[2] <= Window BY <1>1 DEF Sending
    <2> QED BY <1>2, <1>4, <1>6, <2>1, <2>2 DEF Sending
  <1>8. rx.ssrc \in {0, 1} BY <1>1, <1>2 DEF StatsType, RxStats, Counting
  <1>9. Counting' BY <1>1, <1>2, <1>4, <1>8 DEF Counting
  <1>10. Reporting' BY <1>1, <1>2 DEF Reporting, Exact
  <1> QED BY <1>5, <1>7, <1>9, <1>10 DEF StatsInv

LEMMA StatsNext == ASSUME NoWrap, StatsInv, [RtcpNext]_rtcpVars PROVE StatsInv'
  <1>1. ASSUME rx' = rx, stream' = stream, heard' = heard, sent' = sent, wire' \subseteq wire PROVE StatsInv'
    <2>1. StatsType' /\ Sending' /\ Counting' /\ Reporting'
      BY <1>1 DEF StatsInv, StatsType, Sending, Counting, Reporting, Exact
    <2> QED BY <2>1 DEF StatsInv
  <1>2. CASE FarSend BY <1>2, FarSendInv
  <1>3. ASSUME NEW n \in Starts, FarRestart(n) PROVE StatsInv' BY <1>3, FarRestartInv
  <1>4. ASSUME NEW p \in wire, PacketLost(p) PROVE StatsInv' BY <1>1, <1>4 DEF PacketLost
  <1>5. ASSUME NEW p \in wire, NEW again \in BOOLEAN, PacketArrives(p, again) PROVE StatsInv' BY <1>5, ArrivesInv
  <1>6. CASE RtcpStart BY <1>1, <1>6 DEF RtcpStart
  <1>7. CASE RtcpSetRemote BY <1>1, <1>7 DEF RtcpSetRemote
  <1>8. CASE RtcpReport BY <1>8, ReportInv DEF RtcpReport
  <1>9. CASE RtcpClose
    <2>1. CASE rtcp.remote BY <1>9, <2>1, ReportInv DEF RtcpClose
    <2>2. CASE ~rtcp.remote BY <1>1, <1>9, <2>2 DEF RtcpClose
    <2> QED BY <2>1, <2>2
  <1>10. ASSUME NEW fraction \in Fractions, FarReport(fraction) PROVE StatsInv' BY <1>1, <1>10 DEF FarReport
  <1>11. CASE UNCHANGED rtcpVars BY <1>1, <1>11 DEF rtcpVars
  <1> QED BY <1>2, <1>3, <1>4, <1>5, <1>6, <1>7, <1>8, <1>9, <1>10, <1>11 DEF RtcpNext

\* Without a wrap of the numbers the loss reported is the loss there was.
THEOREM LossIsTrue == ASSUME NoWrap PROVE RtcpSpec => []LossTrue
  <1>1. RtcpInit => StatsInv BY StatsInit
  <1>2. StatsInv /\ [RtcpNext]_rtcpVars => StatsInv' BY StatsNext
  <1>3. StatsInv => LossTrue BY StatsInvTrue
  <1> QED BY <1>1, <1>2, <1>3, PTL DEF RtcpSpec

-----------------------------------------------------------------------------
(***************************************************************************)
(* The digits of a keypad.                                                 *)
(*                                                                         *)
(* Pressed is the concatenation of all requests, and the place of a        *)
(* request in it is At: the recursion that FlattenSeq is defined by has a  *)
(* solution, and each request keeps its place in it.  The inductive        *)
(* invariant then names the timestamps s of the digits ended so far: the   *)
(* path carries what is left of three packets for each, and the receiver   *)
(* is at most one digit behind the packets taken off it.                   *)
(***************************************************************************)
Count == Len(Keys)
Flattened(f) == [i \in 1 .. Count |-> IF i = 1 THEN Keys[i] ELSE f[i - 1] \o Keys[i]]

LEMMA KeysAre ==
    /\ Count \in Nat /\ Jobs = 1 .. Count
    /\ \A j \in Jobs : Keys[j] \in Seq(Digits) /\ Keys[j] # <<>> /\ Len(Keys[j]) \in Nat \ {0}
  <1>1. Keys \in Seq(Seq(Digits) \ {<<>>}) BY RtpAssumption
  <1>2. Count \in Nat BY <1>1, LenProperties DEF Count
  <1>3. ASSUME NEW j \in Jobs PROVE Keys[j] \in Seq(Digits) /\ Keys[j] # <<>> /\ Len(Keys[j]) \in Nat \ {0}
    <2>1. Keys[j] \in Seq(Digits) \ {<<>>} BY <1>1, <1>3, ElementOfSeq DEF Jobs
    <2>2. Len(Keys[j]) \in Nat BY <2>1, LenProperties
    <2>3. Len(Keys[j]) # 0 BY <2>1, EmptySeq
    <2> QED BY <2>1, <2>2, <2>3
  <1> QED BY <1>2, <1>3 DEF Jobs, Count

\* The recursion of FlattenSeq has a solution, so what it chooses is one.
LEMMA FlattenExists == ASSUME Count > 0 PROVE \E f : f = Flattened(f)
  <1> DEFINE IsUpTo(f, m) == \A i \in 1 .. m : f[i] = IF i = 1 THEN Keys[i] ELSE f[i - 1] \o Keys[i]
             T == {m \in 1 .. Count : \E f : f = [i \in 1 .. m |-> f[i]] /\ IsUpTo(f, m)}
  <1>1. Count \in Nat BY KeysAre
  <1>2. 1 \in T
    <2> DEFINE f == [i \in 1 .. 1 |-> Keys[1]]
    <2>1. f = [i \in 1 .. 1 |-> f[i]] /\ IsUpTo(f, 1) OBVIOUS
    <2>2. 1 \in 1 .. Count BY <1>1
    <2> HIDE DEF f, IsUpTo
    <2> QED BY <2>1, <2>2
  <1>3. ASSUME NEW m \in 1 .. Count - 1, m \in T PROVE m + 1 \in T
    <2>1. PICK f : f = [i \in 1 .. m |-> f[i]] /\ IsUpTo(f, m) BY <1>3
    <2> DEFINE g == [i \in 1 .. m + 1 |-> IF i = m + 1 THEN f[m] \o Keys[m + 1] ELSE f[i]]
    <2>2. g = [i \in 1 .. m + 1 |-> g[i]] OBVIOUS
    <2>3. ASSUME NEW i \in 1 .. m + 1 PROVE g[i] = IF i = 1 THEN Keys[i] ELSE g[i - 1] \o Keys[i]
      <3>1. CASE i = m + 1
        <4>1. i # 1 /\ i - 1 = m /\ m \in 1 .. m + 1 /\ m # m + 1 BY <1>1, <3>1
        <4>2. g[m] = f[m] BY <4>1
        <4>3. g[i] = f[m] \o Keys[i] BY <3>1
        <4> QED BY <4>1, <4>2, <4>3
      <3>2. CASE i # m + 1
        <4>1. i \in 1 .. m /\ (i # 1 => i - 1 \in 1 .. m + 1 /\ i - 1 # m + 1) BY <1>1, <3>2
        <4>2. g[i] = f[i] /\ (i # 1 => g[i - 1] = f[i - 1]) BY <3>2, <4>1
        <4>3. f[i] = IF i = 1 THEN Keys[i] ELSE f[i - 1] \o Keys[i] BY <2>1, <4>1
        <4> HIDE DEF g
        <4> QED BY <4>2, <4>3
      <3> QED BY <3>1, <3>2
    <2>4. m + 1 \in 1 .. Count BY <1>1
    <2>5. IsUpTo(g, m + 1) BY <2>3
    <2> HIDE DEF g, IsUpTo
    <2> QED BY <2>2, <2>4, <2>5
  <1>4. Count \in T
    <2> HIDE DEF T
    <2>1. \A n \in 1 .. Count : n \in T BY <1>1, <1>2, <1>3, UpFrom
    <2> QED BY <1>1, <2>1
  <1>5. PICK f : f = [i \in 1 .. Count |-> f[i]] /\ IsUpTo(f, Count) BY <1>4
  <1>6. f = Flattened(f)
    <2>1. \A i \in 1 .. Count : f[i] = Flattened(f)[i] BY <1>5 DEF Flattened
    <2>2. Flattened(f) = [i \in 1 .. Count |-> Flattened(f)[i]] BY DEF Flattened
    <2> QED BY <1>5, <2>1, <2>2
  <1> QED BY <1>6

\* The digits of request j stand in Pressed from the place after at[j].
Laid(at) ==
    /\ at \in [1 .. Count + 1 -> Nat] /\ at[1] = 0 /\ at[Count + 1] = Len(Pressed)
    /\ \A j \in Jobs : /\ at[j + 1] = at[j] + Len(Keys[j]) /\ at[j + 1] <= Len(Pressed)
                       /\ \A d \in 1 .. Len(Keys[j]) : Pressed[at[j] + d] = Keys[j][d]

At == CHOOSE at : Laid(at)

LEMMA PressedIs == Pressed \in Seq(Digits) /\ Laid(At)
  <1>1. Count \in Nat /\ Jobs = 1 .. Count /\ \A j \in Jobs : Keys[j] \in Seq(Digits) /\ Len(Keys[j]) \in Nat \ {0}
    BY KeysAre
  <1>2. CASE Count = 0
    <2>1. Pressed = Keys BY <1>2 DEF Pressed, FlattenSeq, Count
    <2>2. Keys = <<>> BY <1>2, RtpAssumption, EmptySeq DEF Count
    <2>3. Len(Pressed) = 0 /\ Pressed \in Seq(Digits) BY <2>1, <2>2, EmptySeq
    <2>4. Laid([i \in 1 .. Count + 1 |-> 0]) BY <1>1, <1>2, <2>3 DEF Laid
    <2> QED BY <2>3, <2>4 DEF At
  <1>3. CASE Count > 0
    <2> DEFINE f == CHOOSE g : g = Flattened(g)
    <2>1. f = Flattened(f) BY <1>3, FlattenExists
    <2>2. Pressed = f[Count]
      <3>1. Len(Keys) # 0 BY <1>1, <1>3 DEF Count
      <3> QED BY <3>1, Zenon DEF Pressed, FlattenSeq, Flattened, Count
    <2> HIDE DEF f
    <2>3. \A i \in 1 .. Count : f[i] = IF i = 1 THEN Keys[i] ELSE f[i - 1] \o Keys[i] BY <2>1 DEF Flattened
    <2>4. \A i \in 1 .. Count : f[i] \in Seq(Digits)
      <3> DEFINE T == {i \in 1 .. Count : f[i] \in Seq(Digits)}
      <3>1. 1 \in T BY <1>1, <1>3, <2>3
      <3>2. ASSUME NEW n \in 1 .. Count - 1, n \in T PROVE n + 1 \in T
        <4>1. n + 1 \in 1 .. Count /\ n + 1 # 1 /\ (n + 1) - 1 = n BY <1>1
        <4>2. f[n + 1] = f[n] \o Keys[n + 1] BY <2>3, <4>1
        <4>3. f[n] \o Keys[n + 1] \in Seq(Digits) BY <1>1, <3>2, <4>1, ConcatProperties
        <4> QED BY <4>1, <4>2, <4>3
      <3> HIDE DEF T
      <3>3. \A n \in 1 .. Count : n \in T BY <1>1, <3>1, <3>2, UpFrom
      <3> QED BY <3>3 DEF T
    <2> DEFINE at == [i \in 1 .. Count + 1 |-> IF i = 1 THEN 0 ELSE Len(f[i - 1])]
    <2>5. \A i \in 1 .. Count : Len(f[i]) \in Nat BY <2>4, LenProperties
    <2>6. at \in [1 .. Count + 1 -> Nat] /\ at[1] = 0 /\ \A i \in 1 .. Count : at[i + 1] = Len(f[i])
      <3>1. ASSUME NEW i \in 1 .. Count + 1 PROVE (IF i = 1 THEN 0 ELSE Len(f[i - 1])) \in Nat
        <4>1. i # 1 => i - 1 \in 1 .. Count BY <1>1
        <4> QED BY <2>5, <4>1
      <3>2. ASSUME NEW i \in 1 .. Count PROVE at[i + 1] = Len(f[i])
        <4>1. i + 1 \in 1 .. Count + 1 /\ i + 1 # 1 /\ (i + 1) - 1 = i BY <1>1
        <4> QED BY <4>1
      <3> QED BY <1>1, <3>1, <3>2
    <2> HIDE DEF at
    <2>7. ASSUME NEW j \in Jobs
          PROVE  /\ Len(f[j]) = at[j] + Len(Keys[j])
                 /\ \A d \in 1 .. Len(Keys[j]) : f[j][at[j] + d] = Keys[j][d]
      <3>1. CASE j = 1
        <4>1. f[j] = Keys[1] /\ at[j] = 0 BY <1>1, <2>3, <2>6, <3>1
        <4>2. Keys[1] \in Seq(Digits) BY <1>1
        <4>3. Len(Keys[1]) \in Nat BY <4>2, LenProperties
        <4>4. \A d \in 1 .. Len(Keys[1]) : 0 + d = d BY <4>3
        <4> QED BY <3>1, <4>1, <4>3, <4>4
      <3>2. CASE j # 1
        <4>1. j - 1 \in 1 .. Count /\ (j - 1) + 1 = j BY <1>1, <3>2
        <4>2. at[j] = Len(f[j - 1]) BY <2>6, <4>1
        <4>3. f[j] = f[j - 1] \o Keys[j] BY <1>1, <2>3, <3>2
        <4>4. f[j - 1] \in Seq(Digits) /\ Keys[j] \in Seq(Digits) BY <1>1, <2>4, <4>1
        <4> DEFINE a == f[j - 1]
                   b == Keys[j]
        <4> HIDE DEF a, b
        <4>a. a \in Seq(Digits) /\ b \in Seq(Digits) BY <4>4 DEF a, b
        <4>b. /\ Len(a \o b) = Len(a) + Len(b)
              /\ \A d \in 1 .. Len(b) : (a \o b)[Len(a) + d] = b[d]
          BY <4>a, Joined
        <4>5. /\ Len(f[j - 1] \o Keys[j]) = Len(f[j - 1]) + Len(Keys[j])
              /\ \A d \in 1 .. Len(Keys[j]) : (f[j - 1] \o Keys[j])[Len(f[j - 1]) + d] = Keys[j][d]
          BY <4>b DEF a, b
        <4> QED BY <4>2, <4>3, <4>5
      <3> QED BY <3>1, <3>2
    <2>8. ASSUME NEW j \in Jobs
          PROVE  /\ Len(f[j]) <= Len(Pressed)
                 /\ \A d \in 1 .. Len(Keys[j]) : Pressed[at[j] + d] = Keys[j][d]
      <3> DEFINE T == {i \in j .. Count : /\ Len(f[j]) <= Len(f[i])
                                          /\ \A d \in 1 .. Len(Keys[j]) : f[i][at[j] + d] = Keys[j][d]}
      <3>1. j \in T BY <1>1, <2>5, <2>7
      <3>2. ASSUME NEW n \in j .. Count - 1, n \in T PROVE n + 1 \in T
        <4>1. n \in 1 .. Count /\ n + 1 \in 1 .. Count /\ n + 1 \in j .. Count /\ n + 1 # 1 /\ (n + 1) - 1 = n BY <1>1
        <4>2. f[n + 1] = f[n] \o Keys[n + 1] BY <2>3, <4>1
        <4>3. f[n] \in Seq(Digits) /\ Keys[n + 1] \in Seq(Digits) /\ Len(f[n]) \in Nat /\ Len(Keys[n + 1]) \in Nat
          BY <1>1, <2>4, <2>5, <4>1
        <4> DEFINE a == f[n]
                   b == Keys[n + 1]
        <4> HIDE DEF a, b
        <4>a. a \in Seq(Digits) /\ b \in Seq(Digits) BY <4>3 DEF a, b
        <4>b. Len(a \o b) = Len(a) + Len(b) /\ \A i \in 1 .. Len(a) : (a \o b)[i] = a[i] BY <4>a, Joined
        <4>4. /\ Len(f[n] \o Keys[n + 1]) = Len(f[n]) + Len(Keys[n + 1])
              /\ \A i \in 1 .. Len(f[n]) : (f[n] \o Keys[n + 1])[i] = f[n][i]
          BY <4>b DEF a, b
        <4>5. Len(f[j]) \in Nat /\ Len(f[j]) <= Len(f[n]) BY <1>1, <2>5, <3>2
        <4>6. ASSUME NEW d \in 1 .. Len(Keys[j]) PROVE f[n + 1][at[j] + d] = Keys[j][d]
          <5>1. at[j] \in Nat /\ Len(Keys[j]) \in Nat BY <1>1, <2>6
          <5>2. Len(f[j]) = at[j] + Len(Keys[j]) BY <2>7
          <5>3. at[j] + d \in 1 .. Len(f[n]) BY <4>3, <4>5, <5>1, <5>2
          <5>4. f[n + 1][at[j] + d] = f[n][at[j] + d] BY <4>2, <4>4, <5>3
          <5>5. f[n][at[j] + d] = Keys[j][d] BY <3>2
          <5> QED BY <5>4, <5>5
        <4>7. Len(f[j]) <= Len(f[n + 1])
          <5>1. Len(f[n + 1]) = Len(f[n]) + Len(Keys[n + 1]) BY <4>2, <4>4
          <5> DEFINE x == Len(f[j])
                     y == Len(f[n])
                     z == Len(Keys[n + 1])
          <5>2. x \in Nat /\ y \in Nat /\ z \in Nat /\ x <= y BY <4>3, <4>5
          <5> HIDE DEF x, y, z
          <5>3. x <= y + z BY <5>2
          <5> QED BY <5>1, <5>3 DEF x, y, z
        <4> QED BY <4>1, <4>6, <4>7
      <3>3. j \in Nat /\ Count \in j .. Count BY <1>1
      <3> HIDE DEF T
      <3>4. \A n \in j .. Count : n \in T BY <1>1, <3>1, <3>2, <3>3, UpFrom
      <3>5. Count \in T BY <3>3, <3>4
      <3> QED BY <2>2, <3>5 DEF T
    <2>9. Pressed \in Seq(Digits) BY <1>1, <1>3, <2>2, <2>4
    <2>10. at[Count + 1] = Len(Pressed) BY <1>1, <1>3, <2>2, <2>6
    <2>11. Laid(at)
      <3>1. \A j \in Jobs : at[j + 1] = Len(f[j]) BY <1>1, <2>6
      <3> QED BY <2>6, <2>7, <2>8, <2>10, <3>1 DEF Laid
    <2> QED BY <2>9, <2>11 DEF At
  <1> QED BY <1>1, <1>2, <1>3

\* Of each three packets at most two are lost, so that no digit is.
FewLost == MaxLost <= 2

Places == {"idle", "wait", "tone", "gap", "done"}
JobStates == [pc : Places, digit : Nat \ {0}, elapsed : Nat, start : Nat]
Packets3 == Nat \X Digits

DtmfType ==
    /\ rtp \in [open : BOOLEAN, ts : Nat, busy : BOOLEAN, frames : Nat]
    /\ job \in [Jobs -> JobStates]
    /\ link \in Seq(Packets3)
    /\ ear \in [last : {<<>>} \cup Packets3, heard : Seq(Digits), lost : Nat]

EarlierDone(j) == \A i \in 1 .. j - 1 : job[i].pc = "done"

\* One request sends at a time, in the order of the requests.
Turns ==
    /\ \A j \in Jobs : /\ job[j].digit <= Len(Keys[j])
                       /\ job[j].pc \in {"idle", "wait"} => job[j].digit = 1
                       /\ job[j].pc \in {"tone", "gap", "done"} => EarlierDone(j)
    /\ ~rtp.open => \A j \in Jobs : job[j].pc = "done"

\* Digits of request j that have been ended.
Ended(j) == IF job[j].pc = "gap" THEN job[j].digit ELSE job[j].digit - 1

\* The k-th end packet, s being the timestamps of the digits ended: three of each.
Packet(s, k) == <<s[(k + 2) \div 3], Pressed[(k + 2) \div 3]>>

\* The digits ended are the first of Pressed, at timestamps that grow.
Sounded(s) ==
    /\ s \in Seq(Nat) /\ Len(s) <= Len(Pressed)
    /\ \A i \in 1 .. Len(s) - 1 : s[i] < s[i + 1]
    /\ rtp.open =>
        /\ \A j \in Jobs : job[j].pc # "done" /\ EarlierDone(j) => Len(s) = At[j] + Ended(j)
        /\ (\A j \in Jobs : job[j].pc = "done") => Len(s) = Len(Pressed)
        /\ Len(s) > 0 => s[Len(s)] + Total <= rtp.ts
        /\ \A j \in Jobs : job[j].pc = "tone" /\ Len(s) > 0 => s[Len(s)] + Total <= job[j].start

\* The path holds the last of their end packets; of those before them the receiver has heard
\* each digit, but perhaps the last.
OnPath(s, path, e) ==
    LET taken == 3 * Len(s) - Len(path)
        h == Len(e.heard)
    IN /\ taken >= 0 /\ \A k \in 1 .. Len(path) : path[k] = Packet(s, taken + k)
       /\ h <= Len(s) /\ \A i \in 1 .. h : e.heard[i] = Pressed[i]
       /\ e.last = IF h = 0 THEN <<>> ELSE <<s[h], Pressed[h]>>
       /\ e.lost <= MaxLost /\ taken <= 3 * h + e.lost /\ 3 * h <= taken + 2

OnTheWay(s) == OnPath(s, link, ear)

DtmfInv == DtmfType /\ Turns /\ \E s : Sounded(s) /\ OnTheWay(s)

LEMMA DtmfInitInv == RtpInit => DtmfInv
  <1> SUFFICES ASSUME RtpInit PROVE DtmfInv OBVIOUS
  <1> USE DEF RtpInit
  <1>1. Count \in Nat /\ Jobs = 1 .. Count /\ \A j \in Jobs : Len(Keys[j]) \in Nat \ {0} BY KeysAre
  <1>2. Laid(At) /\ Pressed \in Seq(Digits) BY PressedIs
  <1>3. Len(Pressed) \in Nat BY <1>2, LenProperties
  <1>4. DtmfType
    <2>1. \A j \in Jobs : job[j] \in JobStates BY DEF JobStates, Places
    <2>2. <<>> \in Seq(Packets3) /\ <<>> \in Seq(Digits) BY EmptySeq
    <2> QED BY <2>1, <2>2 DEF DtmfType, JobStates, Places
  <1>5. Turns BY <1>1 DEF Turns
  <1>6. <<>> \in Seq(Nat) /\ Len(<<>>) = 0 BY EmptySeq
  <1>7. Sounded(<<>>)
    <2>1. ASSUME NEW j \in Jobs, EarlierDone(j) PROVE At[j] + Ended(j) = 0
      <3>1. j = 1
        <4>1. j # 1 => 1 \in 1 .. j - 1 /\ 1 \in Jobs BY <1>1
        <4> QED BY <2>1, <4>1 DEF EarlierDone
      <3>2. At[1] = 0 BY <1>2 DEF Laid
      <3> QED BY <3>1, <3>2 DEF Ended
    <2>2. ASSUME \A j \in Jobs : job[j].pc = "done" PROVE Len(Pressed) = 0
      <3>1. Jobs = {} BY <2>2
      <3>2. Count = 0 BY <1>1, <3>1
      <3> QED BY <1>2, <3>2 DEF Laid
    <2>3. \A i \in 1 .. 0 - 1 : FALSE OBVIOUS
    <2> QED BY <1>3, <1>6, <2>1, <2>2, <2>3 DEF Sounded
  <1>8. OnTheWay(<<>>)
    <2>1. link = <<>> /\ ear.heard = <<>> /\ ear.last = <<>> /\ ear.lost = 0 OBVIOUS
    <2>2. MaxLost \in Nat BY RtpAssumption
    <2> QED BY <1>6, <2>1, <2>2 DEF OnTheWay, OnPath
  <1> QED BY <1>4, <1>5, <1>7, <1>8 DEF DtmfInv

\* Where the k-th packet belongs.
LEMMA OfDigit ==
    ASSUME NEW k \in Nat \ {0}
    PROVE  LET d == (k + 2) \div 3 IN d \in Nat \ {0} /\ k <= 3 * d /\ 3 * d <= k + 2
  OBVIOUS

LEMMA DtmfInvHeard == FewLost /\ DtmfInv => DigitsHeard
  <1> SUFFICES ASSUME FewLost, DtmfInv PROVE DigitsHeard OBVIOUS
  <1>1. PICK s : Sounded(s) /\ OnTheWay(s) BY DEF DtmfInv
  <1>2. Pressed \in Seq(Digits) /\ ear.heard \in Seq(Digits) BY PressedIs DEF DtmfInv, DtmfType
  <1> DEFINE h == Len(ear.heard)
  <1>3. h \in Nat /\ Len(Pressed) \in Nat /\ Len(s) \in Nat BY <1>1, <1>2, LenProperties DEF Sounded
  <1>4. h <= Len(s) /\ Len(s) <= Len(Pressed) /\ \A i \in 1 .. h : ear.heard[i] = Pressed[i]
    BY <1>1 DEF Sounded, OnTheWay, OnPath
  <1>5. IsPrefix(ear.heard, Pressed)
    <2> DEFINE a == SubSeq(ear.heard, 1, h)
               b == SubSeq(Pressed, 1, h)
    <2>1. /\ \A i \in 1 .. h : ear.heard[i] \in Digits /\ Pressed[i] \in Digits
          /\ 1 \in Int /\ h \in Int /\ h <= Len(Pressed)
      <3>1. \A i \in 1 .. h : i \in 1 .. Len(Pressed) BY <1>3, <1>4
      <3>2. \A i \in 1 .. h : ear.heard[i] \in Digits /\ Pressed[i] \in Digits BY <1>2, <3>1, ElementOfSeq
      <3> QED BY <1>3, <1>4, <3>2
    <2>a. /\ a \in Seq(Digits) /\ Len(a) = (IF 1 <= h THEN h - 1 + 1 ELSE 0)
          /\ \A i \in 1 .. h - 1 + 1 : a[i] = ear.heard[1 + i - 1]
      BY <2>1, SubSeqProperties
    <2>b. /\ b \in Seq(Digits) /\ Len(b) = (IF 1 <= h THEN h - 1 + 1 ELSE 0)
          /\ \A i \in 1 .. h - 1 + 1 : b[i] = Pressed[1 + i - 1]
      BY <2>1, SubSeqProperties
    <2>2. a = b
      <3> HIDE DEF a, b, h
      <3>1. Len(a) = h /\ Len(b) = h BY <1>3, <2>a, <2>b
      <3>2. \A i \in 1 .. h : 1 + i - 1 = i /\ i \in 1 .. h - 1 + 1 BY <1>3
      <3>3. \A i \in 1 .. h : a[i] = ear.heard[i] /\ b[i] = Pressed[i] BY <2>a, <2>b, <3>2
      <3> QED BY <1>4, <2>a, <2>b, <3>1, <3>3, SeqEqual
    <2>3. h <= Len(Pressed) BY <1>3, <1>4
    <2> QED BY <2>2, <2>3 DEF IsPrefix
  <1>6. ASSUME link = <<>>, rtp.open, \A j \in Jobs : job[j].pc = "done" PROVE ear.heard = Pressed
    <2>1. Len(s) = Len(Pressed) BY <1>1, <1>6 DEF Sounded
    <2>2. Len(link) = 0 BY <1>6, EmptySeq
    <2>3. 3 * Len(s) - Len(link) <= 3 * h + ear.lost /\ ear.lost <= MaxLost BY <1>1 DEF OnTheWay, OnPath
    <2>4. ear.lost \in Nat /\ MaxLost \in Nat /\ MaxLost <= 2 BY RtpAssumption DEF DtmfInv, DtmfType, FewLost
    <2> HIDE DEF h
    <2>5. h = Len(s) BY <1>3, <1>4, <2>2, <2>3, <2>4
    <2>6. Len(ear.heard) = Len(Pressed) /\ \A i \in 1 .. Len(ear.heard) : ear.heard[i] = Pressed[i]
      BY <1>4, <2>1, <2>5 DEF h
    <2> QED BY <1>2, <2>6, SeqEqual
  <1> QED BY <1>5, <1>6 DEF DigitsHeard

\* A step that ends no digit leaves the path and the receiver as they are.
LEMMA SoundedKept ==
    ASSUME DtmfInv, DtmfType', Turns', link' = link, ear' = ear,
           NEW s, Sounded(s), OnTheWay(s), Sounded(s)'
    PROVE  DtmfInv'
  <1>1. OnTheWay(s)' BY DEF OnTheWay
  <1> QED BY <1>1 DEF DtmfInv

LEMMA SendDtmfInv == ASSUME DtmfInv, NEW j \in Jobs, SendDtmf(j) PROVE DtmfInv'
  <1>1. PICK s : Sounded(s) /\ OnTheWay(s) BY DEF DtmfInv
  <1>2. /\ rtp.open /\ job[j].pc = "idle" /\ rtp' = [rtp EXCEPT !.busy = TRUE]
        /\ job' = [job EXCEPT ![j].pc = "wait"] /\ link' = link /\ ear' = ear
    BY DEF SendDtmf
  <1>3. rtp'.open = rtp.open /\ rtp'.ts = rtp.ts /\ rtp' \in [open : BOOLEAN, ts : Nat, busy : BOOLEAN, frames : Nat]
    BY <1>2 DEF DtmfInv, DtmfType
  <1>4. job' \in [Jobs -> JobStates]
    <2>1. job \in [Jobs -> JobStates] BY DEF DtmfInv, DtmfType
    <2>2. [job[j] EXCEPT !.pc = "wait"] \in JobStates BY <2>1 DEF JobStates, Places
    <2>3. job' = [job EXCEPT ![j] = [job[j] EXCEPT !.pc = "wait"]] BY <1>2, <2>1
    <2> QED BY <2>1, <2>2, <2>3
  <1>5. /\ job'[j].pc = "wait" /\ job'[j].digit = job[j].digit /\ job'[j].start = job[j].start
        /\ \A i \in Jobs \ {j} : job'[i] = job[i]
    BY <1>2 DEF DtmfInv, DtmfType, JobStates
  <1>6. DtmfType' BY <1>2, <1>3, <1>4 DEF DtmfInv, DtmfType
  <1>7. Jobs = 1 .. Count /\ Count \in Nat BY KeysAre
  <1>8. \A i \in Jobs : EarlierDone(i)' <=> EarlierDone(i) BY <1>2, <1>5, <1>7 DEF EarlierDone
  <1>9. Turns' BY <1>2, <1>3, <1>5, <1>8 DEF DtmfInv, Turns
  <1>10. Sounded(s)'
    <2>1. \A i \in Jobs : job'[i].pc # "done" /\ EarlierDone(i)' => job[i].pc # "done" /\ EarlierDone(i)
      BY <1>2, <1>5, <1>8
    <2>2. \A i \in Jobs : Ended(i)' = Ended(i) BY <1>2, <1>5 DEF Ended
    <2>3. \A i \in Jobs : job'[i].pc = "tone" => job[i].pc = "tone" /\ job'[i].start = job[i].start BY <1>5
    <2>4. ~ \A i \in Jobs : job'[i].pc = "done" BY <1>5
    <2> QED BY <1>1, <1>2, <1>3, <2>1, <2>2, <2>3, <2>4 DEF Sounded
  <1> QED BY <1>1, <1>2, <1>6, <1>9, <1>10, SoundedKept

LEMMA DtmfBeginInv == ASSUME DtmfInv, NEW j \in Jobs, DtmfBegin(j) PROVE DtmfInv'
  <1>1. PICK s : Sounded(s) /\ OnTheWay(s) BY DEF DtmfInv
  <1>2. /\ job[j].pc = "wait" /\ (j > 1 => job[j - 1].pc = "done")
        /\ job' = [job EXCEPT ![j].pc = "tone", ![j].start = rtp.ts] /\ rtp' = rtp /\ link' = link /\ ear' = ear
    BY DEF DtmfBegin
  <1>3. rtp.ts \in Nat /\ job \in [Jobs -> JobStates] BY DEF DtmfInv, DtmfType
  <1>4. job' = [job EXCEPT ![j] = [job[j] EXCEPT !.pc = "tone", !.start = rtp.ts]] BY <1>2, <1>3
  <1>5. job' \in [Jobs -> JobStates] BY <1>3, <1>4 DEF JobStates, Places
  <1>6. /\ job'[j].pc = "tone" /\ job'[j].digit = job[j].digit /\ job'[j].start = rtp.ts
        /\ \A i \in Jobs \ {j} : job'[i] = job[i]
    BY <1>3, <1>4 DEF JobStates
  <1>7. DtmfType' BY <1>2, <1>5 DEF DtmfInv, DtmfType
  <1>8. Jobs = 1 .. Count /\ Count \in Nat BY KeysAre
  <1>9. \A i \in Jobs : EarlierDone(i)' <=> EarlierDone(i)
    <2>1. \A i \in Jobs : job'[i].pc = "done" <=> job[i].pc = "done" BY <1>2, <1>6
    <2>2. \A i \in Jobs : \A m \in 1 .. i - 1 : m \in Jobs BY <1>8
    <2> QED BY <2>1, <2>2 DEF EarlierDone
  <1>10. EarlierDone(j)
    <2>1. ASSUME NEW i \in 1 .. j - 1 PROVE job[i].pc = "done"
      <3>1. j > 1 /\ j - 1 \in Jobs /\ i \in Jobs BY <1>8
      <3>2. EarlierDone(j - 1) BY <1>2, <3>1 DEF DtmfInv, Turns
      <3>3. i = j - 1 \/ i \in 1 .. (j - 1) - 1 BY <1>8
      <3> QED BY <1>2, <3>1, <3>2, <3>3 DEF EarlierDone
    <2> QED BY <2>1 DEF EarlierDone
  <1>11. Turns'
    <2>1. Turns BY DEF DtmfInv
    <2>2. \A i \in Jobs : job'[i].digit <= Len(Keys[i]) BY <1>6, <2>1 DEF Turns
    <2>3. \A i \in Jobs : job'[i].pc \in {"idle", "wait"} => job'[i].digit = 1 BY <1>6, <2>1 DEF Turns
    <2>4. \A i \in Jobs : job'[i].pc \in {"tone", "gap", "done"} => EarlierDone(i)' BY <1>6, <1>9, <1>10, <2>1 DEF Turns
    <2>5. rtp'.open BY <1>2, <2>1 DEF Turns
    <2> QED BY <2>2, <2>3, <2>4, <2>5 DEF Turns
  <1>12. Sounded(s)'
    <2>1. \A i \in Jobs : job'[i].pc # "done" /\ EarlierDone(i)' => job[i].pc # "done" /\ EarlierDone(i)
      <3>1. \A i \in Jobs : job'[i].pc # "done" => job[i].pc # "done" BY <1>2, <1>6
      <3> QED BY <1>9, <3>1
    <2>2. ASSUME NEW i \in Jobs PROVE Ended(i)' = Ended(i)
      <3>1. CASE i = j BY <1>2, <1>6, <3>1 DEF Ended
      <3>2. CASE i # j BY <1>6, <3>2 DEF Ended
      <3> QED BY <3>1, <3>2
    <2>3. ASSUME NEW i \in Jobs, rtp.open, job'[i].pc = "tone", Len(s) > 0 PROVE s[Len(s)] + Total <= job'[i].start
      BY <1>1, <1>6, <2>3 DEF Sounded
    <2>4. ~ \A i \in Jobs : job'[i].pc = "done" BY <1>6
    <2> QED BY <1>1, <1>2, <2>1, <2>2, <2>3, <2>4 DEF Sounded
  <1> QED BY <1>1, <1>2, <1>7, <1>11, <1>12, SoundedKept

LEMMA DtmfEventInv == ASSUME DtmfInv, NEW j \in Jobs, DtmfEvent(j) PROVE DtmfInv'
  <1>1. PICK s : Sounded(s) /\ OnTheWay(s) BY DEF DtmfInv
  <1>2. job' = [job EXCEPT ![j].elapsed = @ + 1] /\ rtp' = rtp /\ link' = link /\ ear' = ear BY DEF DtmfEvent
  <1>3. job \in [Jobs -> JobStates] BY DEF DtmfInv, DtmfType
  <1>4. job' = [job EXCEPT ![j] = [job[j] EXCEPT !.elapsed = job[j].elapsed + 1]] BY <1>2, <1>3
  <1>5. job[j].elapsed + 1 \in Nat BY <1>3 DEF JobStates
  <1>6. job' \in [Jobs -> JobStates] BY <1>3, <1>4, <1>5 DEF JobStates
  <1>7. \A i \in Jobs : job'[i].pc = job[i].pc /\ job'[i].digit = job[i].digit /\ job'[i].start = job[i].start
    BY <1>3, <1>4 DEF JobStates
  <1>8. DtmfType' BY <1>2, <1>6 DEF DtmfInv, DtmfType
  <1>9. Jobs = 1 .. Count /\ Count \in Nat BY KeysAre
  <1>10. \A i \in Jobs : (EarlierDone(i)' <=> EarlierDone(i)) /\ Ended(i)' = Ended(i) BY <1>7, <1>9 DEF EarlierDone, Ended
  <1>11. Turns' BY <1>2, <1>7, <1>10 DEF DtmfInv, Turns
  <1>12. Sounded(s)' BY <1>1, <1>2, <1>7, <1>10 DEF Sounded
  <1> QED BY <1>1, <1>2, <1>8, <1>11, <1>12, SoundedKept

\* After the gap the next digit of the request comes, or the first of the next request.
LEMMA DtmfGapInv == ASSUME DtmfInv, NEW j \in Jobs, DtmfGap(j) PROVE DtmfInv'
  <1>1. PICK s : Sounded(s) /\ OnTheWay(s) BY DEF DtmfInv
  <1>2. job[j].pc = "gap" /\ link' = link /\ ear' = ear BY DEF DtmfGap
  <1>3. job \in [Jobs -> JobStates] /\ rtp \in [open : BOOLEAN, ts : Nat, busy : BOOLEAN, frames : Nat]
    BY DEF DtmfInv, DtmfType
  <1>4. Jobs = 1 .. Count /\ Count \in Nat /\ \A i \in Jobs : Len(Keys[i]) \in Nat \ {0} BY KeysAre
  <1>5. /\ job[j].digit <= Len(Keys[j]) /\ EarlierDone(j) /\ rtp.open /\ job[j].digit \in Nat \ {0}
    BY <1>2, <1>3 DEF DtmfInv, Turns, JobStates
  <1>6. Len(s) = At[j] + job[j].digit BY <1>1, <1>2, <1>5 DEF Sounded, Ended
  <1>7. CASE job[j].digit < Len(Keys[j])
    <2>1. /\ job' = [job EXCEPT ![j] = [pc |-> "tone", digit |-> job[j].digit + 1, elapsed |-> 0, start |-> rtp.ts]]
          /\ rtp' = rtp
      BY <1>3, <1>7 DEF DtmfGap
    <2>2. [pc |-> "tone", digit |-> job[j].digit + 1, elapsed |-> 0, start |-> rtp.ts] \in JobStates
      BY <1>3, <1>5 DEF JobStates, Places
    <2>3. job' \in [Jobs -> JobStates] BY <1>3, <2>1, <2>2
    <2>4. /\ job'[j].pc = "tone" /\ job'[j].digit = job[j].digit + 1 /\ job'[j].start = rtp.ts
          /\ \A i \in Jobs \ {j} : job'[i] = job[i]
      BY <1>3, <2>1
    <2>5. DtmfType' BY <1>2, <2>1, <2>3 DEF DtmfInv, DtmfType
    <2>6. \A i \in Jobs : EarlierDone(i)' <=> EarlierDone(i) BY <1>2, <1>4, <2>4 DEF EarlierDone
    <2>7. Turns'
      <3>1. job'[j].digit <= Len(Keys[j]) BY <1>4, <1>5, <1>7, <2>4
      <3> QED BY <1>5, <2>1, <2>4, <2>6, <3>1 DEF DtmfInv, Turns
    <2>8. Sounded(s)'
      <3>1. \A i \in Jobs : job'[i].pc # "done" /\ EarlierDone(i)' => job[i].pc # "done" /\ EarlierDone(i)
        BY <1>2, <2>4, <2>6
      <3>2. ASSUME NEW i \in Jobs PROVE Ended(i)' = Ended(i)
        <4>1. CASE i = j BY <1>2, <1>5, <2>4, <4>1 DEF Ended
        <4>2. CASE i # j BY <2>4, <4>2 DEF Ended
        <4> QED BY <4>1, <4>2
      <3>3. ASSUME NEW i \in Jobs, job'[i].pc = "tone", Len(s) > 0 PROVE s[Len(s)] + Total <= job'[i].start
        BY <1>1, <1>5, <2>4, <3>3 DEF Sounded
      <3>4. ~ \A i \in Jobs : job'[i].pc = "done" BY <2>4
      <3> QED BY <1>1, <2>1, <3>1, <3>2, <3>3, <3>4 DEF Sounded
    <2> QED BY <1>1, <1>2, <2>5, <2>7, <2>8, SoundedKept
  <1>8. CASE ~(job[j].digit < Len(Keys[j]))
    <2>1. job' = [job EXCEPT ![j].pc = "done"] /\ rtp' = [rtp EXCEPT !.busy = FALSE] BY <1>8 DEF DtmfGap
    <2>2. job' \in [Jobs -> JobStates] BY <1>3, <2>1 DEF JobStates, Places
    <2>3. /\ job'[j].pc = "done" /\ job'[j].digit = job[j].digit
          /\ \A i \in Jobs \ {j} : job'[i] = job[i]
      BY <1>3, <2>1 DEF JobStates
    <2>4. rtp'.open = rtp.open /\ rtp'.ts = rtp.ts /\ rtp' \in [open : BOOLEAN, ts : Nat, busy : BOOLEAN, frames : Nat]
      BY <1>3, <2>1
    <2>5. DtmfType' BY <1>2, <2>2, <2>4 DEF DtmfInv, DtmfType
    <2>6. \A i \in Jobs : job[i].pc = "done" => job'[i].pc = "done" BY <2>3
    <2>7. \A i \in Jobs : EarlierDone(i) => EarlierDone(i)' BY <1>4, <2>6 DEF EarlierDone
    <2>8. Turns'
      <3>1. \A i \in Jobs \ {j} : job'[i].digit <= Len(Keys[i]) /\ (job'[i].pc \in {"idle", "wait"} => job'[i].digit = 1)
                                  /\ (job'[i].pc \in {"tone", "gap", "done"} => EarlierDone(i)')
        BY <2>3, <2>7 DEF DtmfInv, Turns
      <3>2. EarlierDone(j)' BY <1>5, <2>7
      <3> QED BY <1>5, <2>3, <2>4, <3>1, <3>2 DEF Turns
    <2>9. job[j].digit = Len(Keys[j]) BY <1>4, <1>5, <1>8
    <2>10. Len(s) = At[j + 1] BY <1>6, <2>9, PressedIs DEF Laid
    <2>11. Sounded(s)'
      <3>1. ASSUME NEW i \in Jobs, job'[i].pc # "done", EarlierDone(i)' PROVE Len(s) = At[i] + Ended(i)'
        <4>1. i # j BY <2>3, <3>1
        <4>2. ~(i < j)
          <5>1. i < j => i \in 1 .. j - 1 BY <1>4
          <5> QED BY <1>5, <2>6, <3>1, <5>1 DEF EarlierDone
        <4>3. i > j BY <1>4, <4>1, <4>2
        <4>4. i = j + 1
          <5>1. i # j + 1 => j + 1 \in 1 .. i - 1 /\ j + 1 \in Jobs /\ j \in 1 .. (j + 1) - 1 /\ j + 1 # j
            BY <1>4, <4>3
          <5>2. ASSUME i # j + 1 PROVE FALSE
            <6>1. job'[j + 1].pc = "done" BY <3>1, <5>1, <5>2 DEF EarlierDone
            <6>2. job[j + 1].pc = "done" BY <2>3, <5>1, <5>2, <6>1
            <6>3. EarlierDone(j + 1) BY <5>1, <5>2, <6>2 DEF DtmfInv, Turns
            <6>4. job[j].pc = "done" BY <5>1, <5>2, <6>3 DEF EarlierDone
            <6> QED BY <1>2, <6>4
          <5> QED BY <5>2
        <4>5. Ended(i)' = 0
          <5>1. job'[i] = job[i] BY <2>3, <4>1
          <5>2. ~EarlierDone(i)
            <6>1. j \in 1 .. i - 1 BY <1>4, <4>3
            <6> QED BY <1>2, <6>1 DEF EarlierDone
          <5>3. job[i].pc \in {"idle", "wait"} BY <1>3, <5>2 DEF DtmfInv, Turns, JobStates, Places
          <5>4. job[i].digit = 1 BY <5>3 DEF DtmfInv, Turns
          <5> QED BY <5>1, <5>3, <5>4 DEF Ended
        <4>6. At[i] \in Nat BY <1>4, PressedIs DEF Laid
        <4> QED BY <2>10, <4>4, <4>5, <4>6
      <3>2. ASSUME \A i \in Jobs : job'[i].pc = "done" PROVE Len(s) = Len(Pressed)
        <4>1. j = Count
          <5>1. j # Count => j + 1 \in Jobs /\ j + 1 # j /\ j \in 1 .. (j + 1) - 1 BY <1>4
          <5>2. ASSUME j # Count PROVE FALSE
            <6>1. job[j + 1].pc = "done" BY <2>3, <3>2, <5>1, <5>2
            <6>2. EarlierDone(j + 1) BY <5>1, <5>2, <6>1 DEF DtmfInv, Turns
            <6> QED BY <1>2, <5>1, <5>2, <6>2 DEF EarlierDone
          <5> QED BY <5>2
        <4> QED BY <2>10, <4>1, PressedIs DEF Laid
      <3>3. ASSUME NEW i \in Jobs, job'[i].pc = "tone" PROVE job[i].pc = "tone" /\ job'[i].start = job[i].start
        BY <2>3, <3>3
      <3> QED BY <1>1, <2>4, <3>1, <3>2, <3>3 DEF Sounded
    <2> QED BY <1>1, <1>2, <2>5, <2>8, <2>11, SoundedKept
  <1> QED BY <1>7, <1>8

\* Three end packets go on the path, all of the digit that is ended.
LEMMA DtmfEndInv == ASSUME DtmfInv, NEW j \in Jobs, DtmfEnd(j) PROVE DtmfInv'
  <1> DEFINE x == <<job[j].start, Keys[j][job[j].digit]>>
             three == [n \in 1 .. 3 |-> x]
  <1>1. PICK s : Sounded(s) /\ OnTheWay(s) BY DEF DtmfInv
  <1>2. /\ job[j].pc = "tone" /\ link' = link \o three /\ ear' = ear
        /\ rtp' = [rtp EXCEPT !.ts = job[j].start + Total] /\ job' = [job EXCEPT ![j].pc = "gap"]
    BY DEF DtmfEnd
  <1>3. job \in [Jobs -> JobStates] /\ rtp \in [open : BOOLEAN, ts : Nat, busy : BOOLEAN, frames : Nat]
        /\ link \in Seq(Packets3) /\ ear.heard \in Seq(Digits)
    BY DEF DtmfInv, DtmfType
  <1>4. Jobs = 1 .. Count /\ Count \in Nat /\ Keys[j] \in Seq(Digits) /\ Len(Keys[j]) \in Nat \ {0} BY KeysAre
  <1>5. /\ job[j].digit <= Len(Keys[j]) /\ EarlierDone(j) /\ rtp.open /\ job[j].digit \in Nat \ {0} /\ job[j].start \in Nat
    BY <1>2, <1>3 DEF DtmfInv, Turns, JobStates
  <1>6. Total \in Nat \ {0} BY RtpAssumption
  <1>7. x \in Packets3
    <2>1. Keys[j][job[j].digit] \in Digits BY <1>4, <1>5, ElementOfSeq
    <2> QED BY <1>5, <2>1 DEF Packets3
  <1> HIDE DEF x
  <1>8. three \in Seq(Packets3) /\ Len(three) = 3 /\ \A n \in 1 .. 3 : three[n] = x BY <1>7
  <1> HIDE DEF three
  <1>9. /\ link' \in Seq(Packets3) /\ Len(link) \in Nat /\ Len(link') = Len(link) + 3
        /\ \A k \in 1 .. Len(link) : link'[k] = link[k]
        /\ \A n \in 1 .. 3 : link'[Len(link) + n] = x
    <2> DEFINE path == link \o three
    <2>1. /\ path \in Seq(Packets3) /\ Len(link) \in Nat /\ Len(path) = Len(link) + Len(three)
          /\ \A k \in 1 .. Len(link) : path[k] = link[k]
          /\ \A n \in 1 .. Len(three) : path[Len(link) + n] = three[n]
      <3>1. link \in Seq(Packets3) /\ three \in Seq(Packets3) BY <1>3, <1>8
      <3> QED BY <3>1, Joined
    <2>2. link' = path BY <1>2
    <2> HIDE DEF path
    <2> QED BY <1>8, <2>1, <2>2
  <1>10. /\ rtp'.open = rtp.open /\ rtp'.ts = job[j].start + Total
         /\ rtp' \in [open : BOOLEAN, ts : Nat, busy : BOOLEAN, frames : Nat]
    <2>1. job[j].start + Total \in Nat BY <1>5, <1>6
    <2> QED BY <1>2, <1>3, <2>1
  <1>11. job' \in [Jobs -> JobStates] BY <1>2, <1>3 DEF JobStates, Places
  <1>12. job'[j].pc = "gap" /\ job'[j].digit = job[j].digit /\ \A i \in Jobs \ {j} : job'[i] = job[i]
    BY <1>2, <1>3 DEF JobStates
  <1>13. DtmfType' BY <1>2, <1>9, <1>10, <1>11 DEF DtmfInv, DtmfType
  <1>14. \A i \in Jobs : job'[i].pc = "done" <=> job[i].pc = "done" BY <1>2, <1>12
  <1>15. \A i \in Jobs : EarlierDone(i)' <=> EarlierDone(i)
    <2>1. \A i \in Jobs : \A m \in 1 .. i - 1 : m \in Jobs BY <1>4
    <2> QED BY <1>14, <2>1 DEF EarlierDone
  <1>16. Turns' BY <1>5, <1>10, <1>12, <1>15 DEF DtmfInv, Turns
  <1> DEFINE c == Len(s)
  <1>26. PICK t : t = Append(s, job[j].start) OBVIOUS
  <1>17. s \in Seq(Nat) /\ c \in Nat BY <1>1, LenProperties DEF Sounded
  <1>18. /\ t \in Seq(Nat) /\ Len(t) = c + 1 /\ t[c + 1] = job[j].start
         /\ \A i \in 1 .. c : t[i] = s[i]
    BY <1>5, <1>17, <1>26, AppendProperties
  <1>19. c = At[j] + (job[j].digit - 1) BY <1>1, <1>2, <1>5 DEF Sounded, Ended
  <1> HIDE DEF c
  <1>20. /\ At[j] \in Nat /\ Len(Pressed) \in Nat /\ At[j] + Len(Keys[j]) <= Len(Pressed)
         /\ Pressed[At[j] + job[j].digit] = Keys[j][job[j].digit]
    <2>1. At[j] \in Nat BY <1>4, PressedIs DEF Laid
    <2>2. Len(Pressed) \in Nat BY PressedIs, LenProperties
    <2>3. At[j + 1] = At[j] + Len(Keys[j]) /\ At[j + 1] <= Len(Pressed) BY PressedIs DEF Laid
    <2>4. job[j].digit \in 1 .. Len(Keys[j]) BY <1>4, <1>5
    <2>5. Pressed[At[j] + job[j].digit] = Keys[j][job[j].digit] BY <2>4, PressedIs DEF Laid
    <2> QED BY <2>1, <2>2, <2>3, <2>5
  <1>25. c + 1 = At[j] + job[j].digit
    <2>1. c \in Nat /\ At[j] \in Nat /\ job[j].digit \in Nat BY <1>5, <1>17, <1>20
    <2> QED BY <1>19, <2>1
  <1>21. c + 1 <= Len(Pressed) /\ x = <<t[c + 1], Pressed[c + 1]>>
    <2>1. c + 1 <= Len(Pressed) BY <1>4, <1>5, <1>20, <1>25
    <2>2. x = <<job[j].start, Pressed[c + 1]>> BY <1>20, <1>25 DEF x
    <2> QED BY <1>18, <2>1, <2>2
  <1>22. Sounded(t)'
    <2>1. ASSUME NEW i \in 1 .. Len(t) - 1 PROVE t[i] < t[i + 1]
      <3>1. i \in 1 .. c BY <1>17, <1>18
      <3>2. CASE i = c
        <4>1. s[c] + Total <= job[j].start BY <1>1, <1>2, <1>5, <1>17, <3>1, <3>2 DEF Sounded, c
        <4>2. s[c] \in Nat BY <1>17, <3>1, <3>2, ElementOfSeq DEF c
        <4> QED BY <1>5, <1>6, <1>18, <3>1, <3>2, <4>1, <4>2
      <3>3. CASE i # c
        <4>1. i \in 1 .. c - 1 /\ i + 1 \in 1 .. c BY <1>17, <3>1, <3>3
        <4>2. s[i] < s[i + 1] BY <1>1, <4>1 DEF Sounded, c
        <4> QED BY <1>18, <3>1, <4>1, <4>2
      <3> QED BY <3>2, <3>3
    <2>2. ASSUME NEW i \in Jobs, job'[i].pc # "done", EarlierDone(i)' PROVE Len(t) = At[i] + Ended(i)'
      <3>1. i = j
        <4>1. ~(i < j)
          <5>1. i < j => i \in 1 .. j - 1 BY <1>4
          <5> QED BY <1>5, <1>14, <2>2, <5>1 DEF EarlierDone
        <4>2. ~(j < i)
          <5>1. j < i => j \in 1 .. i - 1 BY <1>4
          <5> QED BY <1>12, <2>2, <5>1 DEF EarlierDone
        <4> QED BY <1>4, <4>1, <4>2
      <3>2. Ended(j)' = job[j].digit BY <1>12 DEF Ended
      <3> QED BY <1>18, <1>25, <3>1, <3>2
    <2>3. ~ \A i \in Jobs : job'[i].pc = "done" BY <1>12
    <2>4. t[Len(t)] + Total <= rtp'.ts BY <1>5, <1>6, <1>10, <1>17, <1>18
    <2>5. ASSUME NEW i \in Jobs, job'[i].pc = "tone" PROVE FALSE
      <3>1. i # j /\ job[i].pc = "tone" BY <1>12, <2>5
      <3>2. EarlierDone(i) BY <3>1 DEF DtmfInv, Turns
      <3>3. i \in 1 .. j - 1 \/ j \in 1 .. i - 1 BY <1>4, <3>1
      <3> QED BY <1>2, <1>5, <3>1, <3>2, <3>3 DEF EarlierDone
    <2>6. Len(t) <= Len(Pressed) BY <1>18, <1>21
    <2>7. \A i \in Jobs : job'[i].pc # "done" /\ EarlierDone(i)' => Len(t) = At[i] + Ended(i)' BY <2>2
    <2>8. (\A i \in Jobs : job'[i].pc = "done") => Len(t) = Len(Pressed) BY <2>3
    <2>9. \A i \in Jobs : job'[i].pc = "tone" /\ Len(t) > 0 => t[Len(t)] + Total <= job'[i].start BY <2>5
    <2>10. \A i \in 1 .. Len(t) - 1 : t[i] < t[i + 1] BY <2>1
    <2>11. t \in Seq(Nat) BY <1>18
    <2> QED BY <2>4, <2>6, <2>7, <2>8, <2>9, <2>10, <2>11 DEF Sounded
  <1>23. OnTheWay(t)'
    <2> DEFINE taken == 3 * c - Len(link)
               h == Len(ear.heard)
    <2>1. /\ taken >= 0 /\ \A k \in 1 .. Len(link) : link[k] = Packet(s, taken + k)
          /\ h <= c /\ \A i \in 1 .. h : ear.heard[i] = Pressed[i]
          /\ ear.last = IF h = 0 THEN <<>> ELSE <<s[h], Pressed[h]>>
          /\ ear.lost <= MaxLost /\ taken <= 3 * h + ear.lost /\ 3 * h <= taken + 2
      BY <1>1 DEF OnTheWay, OnPath, c
    <2>2. h \in Nat BY <1>3, LenProperties
    <2>3. 3 * Len(t) - Len(link') = taken /\ taken \in Nat BY <1>9, <1>17, <1>18, <2>1
    <2>4. ASSUME NEW k \in 1 .. Len(link') PROVE link'[k] = Packet(t, taken + k)
      <3> DEFINE d == ((taken + k) + 2) \div 3
      <3>0. taken + k \in Nat \ {0} BY <1>9, <2>3
      <3>1. d \in Nat \ {0} /\ taken + k <= 3 * d /\ 3 * d <= (taken + k) + 2 BY <3>0, OfDigit
      <3>2. Packet(t, taken + k) = <<t[d], Pressed[d]>> BY DEF Packet
      <3> HIDE DEF d
      <3>3. CASE k \in 1 .. Len(link)
        <4>1. taken + k <= 3 * c BY <1>9, <1>17, <3>3
        <4>2. d \in 1 .. c BY <1>17, <2>3, <3>1, <3>3, <4>1
        <4>3. link[k] = <<s[d], Pressed[d]>> BY <2>1, <3>3 DEF Packet, d
        <4> QED BY <1>9, <1>18, <3>2, <3>3, <4>2, <4>3
      <3>4. CASE k \notin 1 .. Len(link)
        <4>1. k - Len(link) \in 1 .. 3 /\ Len(link) + (k - Len(link)) = k BY <1>9, <3>4
        <4>2. link'[k] = x BY <1>9, <4>1
        <4>3. taken + k = 3 * c + (k - Len(link)) BY <1>9, <1>17
        <4>4. d = c + 1 BY <1>17, <3>1, <4>1, <4>3
        <4> QED BY <1>21, <3>2, <4>2, <4>4
      <3> QED BY <3>3, <3>4
    <2>5. h > 0 => t[h] = s[h] BY <1>18, <2>1, <2>2
    <2>6. h <= Len(t) BY <1>17, <1>18, <2>1, <2>2
    <2>7. ear.last = IF h = 0 THEN <<>> ELSE <<t[h], Pressed[h]>> BY <2>1, <2>2, <2>5
    <2> DEFINE g == 3 * Len(t) - Len(link')
    <2>8. g = taken BY <2>3
    <2> HIDE DEF g, taken
    <2>9. g >= 0 /\ (\A k \in 1 .. Len(link') : link'[k] = Packet(t, g + k)) /\ g <= 3 * h + ear.lost /\ 3 * h <= g + 2
      BY <2>1, <2>4, <2>8
    <2>10. OnPath(t, link', ear) BY <2>1, <2>6, <2>7, <2>9, Zenon DEF OnPath, g
    <2>11. ear' = ear BY <1>2
    <2> QED BY <2>10, <2>11 DEF OnTheWay
  <1> QED BY <1>13, <1>16, <1>22, <1>23 DEF DtmfInv

LEMMA SendAudioInv == ASSUME DtmfInv, SendAudio PROVE DtmfInv'
  <1>1. PICK s : Sounded(s) /\ OnTheWay(s) BY DEF DtmfInv
  <1>2. rtp' = [rtp EXCEPT !.ts = @ + 1, !.frames = @ + 1] /\ job' = job /\ link' = link /\ ear' = ear BY DEF SendAudio
  <1>3. rtp \in [open : BOOLEAN, ts : Nat, busy : BOOLEAN, frames : Nat] BY DEF DtmfInv, DtmfType
  <1>4. /\ rtp'.open = rtp.open /\ rtp'.ts = rtp.ts + 1 /\ rtp.ts \in Nat
        /\ rtp' \in [open : BOOLEAN, ts : Nat, busy : BOOLEAN, frames : Nat]
    <2>1. rtp.ts + 1 \in Nat /\ rtp.frames + 1 \in Nat BY <1>3
    <2>2. rtp' = [open |-> rtp.open, ts |-> rtp.ts + 1, busy |-> rtp.busy, frames |-> rtp.frames + 1] BY <1>2, <1>3
    <2> QED BY <1>3, <2>1, <2>2
  <1>5. DtmfType' BY <1>2, <1>4 DEF DtmfInv, DtmfType
  <1>6. Turns' BY <1>2, <1>4 DEF DtmfInv, Turns, EarlierDone
  <1>7. Sounded(s)'
    <2>1. ASSUME rtp.open, Len(s) > 0 PROVE s[Len(s)] + Total <= rtp.ts + 1
      <3>1. s \in Seq(Nat) /\ s[Len(s)] + Total <= rtp.ts BY <1>1, <2>1 DEF Sounded
      <3>2. s[Len(s)] \in Nat
        <4>1. Len(s) \in Nat /\ Len(s) \in 1 .. Len(s) BY <2>1, <3>1, LenProperties
        <4> QED BY <3>1, <4>1, ElementOfSeq
      <3> QED BY <1>4, <3>1, <3>2, RtpAssumption
    <2> QED BY <1>1, <1>2, <1>4, <2>1 DEF Sounded, EarlierDone, Ended
  <1> QED BY <1>1, <1>2, <1>5, <1>6, <1>7, SoundedKept

LEMMA RtpCloseInv == ASSUME DtmfInv, RtpClose PROVE DtmfInv'
  <1>1. PICK s : Sounded(s) /\ OnTheWay(s) BY DEF DtmfInv
  <1>2. /\ rtp' = [rtp EXCEPT !.open = FALSE, !.busy = FALSE] /\ link' = link /\ ear' = ear
        /\ job' = [j \in Jobs |-> [job[j] EXCEPT !.pc = "done"]]
    BY DEF RtpClose
  <1>3. /\ rtp \in [open : BOOLEAN, ts : Nat, busy : BOOLEAN, frames : Nat] /\ job \in [Jobs -> JobStates]
    BY DEF DtmfInv, DtmfType
  <1>4. ~rtp'.open /\ rtp' \in [open : BOOLEAN, ts : Nat, busy : BOOLEAN, frames : Nat] BY <1>2, <1>3
  <1>5. job' \in [Jobs -> JobStates] BY <1>2, <1>3 DEF JobStates, Places
  <1>6. \A j \in Jobs : job'[j].pc = "done" /\ job'[j].digit = job[j].digit BY <1>2, <1>3 DEF JobStates
  <1>7. DtmfType' BY <1>2, <1>4, <1>5 DEF DtmfInv, DtmfType
  <1>8. Turns'
    <2>1. Jobs = 1 .. Count /\ Count \in Nat BY KeysAre
    <2>2. \A j \in Jobs : EarlierDone(j)' BY <1>6, <2>1 DEF EarlierDone
    <2> QED BY <1>6, <2>2 DEF DtmfInv, Turns
  <1>9. Sounded(s)' BY <1>1, <1>4 DEF Sounded
  <1> QED BY <1>1, <1>2, <1>7, <1>8, <1>9, SoundedKept

\* The path without its first packet, which is one of the last digit heard or of the next one.
LEMMA FirstTaken ==
    ASSUME FewLost, DtmfInv, NEW s, Sounded(s), OnTheWay(s), link # <<>>
    PROVE  LET taken == 3 * Len(s) - Len(link)
               h == Len(ear.heard)
               d == ((taken + 1) + 2) \div 3
           IN /\ Tail(link) \in Seq(Packets3) /\ Len(Tail(link)) = Len(link) - 1 /\ Len(link) > 0
              /\ \A k \in 1 .. Len(link) - 1 : Tail(link)[k] = Packet(s, (taken + 1) + k)
              /\ Head(link) = <<s[d], Pressed[d]>> /\ Head(link) \in Packets3
              /\ taken \in Nat /\ h \in Nat /\ Len(s) \in Nat /\ Len(link) \in Nat
              /\ d \in Nat \ {0} /\ d <= Len(s) /\ taken + 1 <= 3 * d /\ 3 * d <= taken + 3
              /\ d = h + 1 \/ (d = h /\ h > 0)
  <1> DEFINE taken == 3 * Len(s) - Len(link)
             h == Len(ear.heard)
             d == ((taken + 1) + 2) \div 3
  <1>1. link \in Seq(Packets3) /\ ear.heard \in Seq(Digits) /\ ear.lost \in Nat BY DEF DtmfInv, DtmfType
  <1>2. Len(s) \in Nat /\ h \in Nat /\ Len(link) \in Nat BY <1>1, LenProperties DEF Sounded
  <1>3. Len(link) > 0 BY <1>1, <1>2, EmptySeq
  <1>4. /\ taken >= 0 /\ \A k \in 1 .. Len(link) : link[k] = Packet(s, taken + k)
        /\ ear.lost <= MaxLost /\ taken <= 3 * h + ear.lost /\ 3 * h <= taken + 2
    BY DEF OnTheWay, OnPath
  <1>5. /\ Tail(link) \in Seq(Packets3) /\ Len(Tail(link)) = Len(link) - 1
        /\ \A k \in 1 .. Len(link) - 1 : Tail(link)[k] = link[k + 1]
        /\ Head(link) = link[1] /\ Head(link) \in Packets3
    BY <1>1, HeadTailProperties
  <1>6. ASSUME NEW k \in 1 .. Len(link) - 1 PROVE Tail(link)[k] = Packet(s, (taken + 1) + k)
    <2>1. k + 1 \in 1 .. Len(link) /\ taken + (k + 1) = (taken + 1) + k BY <1>2
    <2> QED BY <1>4, <1>5, <2>1
  <1>7. taken \in Nat BY <1>2, <1>4
  <1>8. d \in Nat \ {0} /\ taken + 1 <= 3 * d /\ 3 * d <= (taken + 1) + 2 BY <1>7, OfDigit
  <1>9. Head(link) = <<s[d], Pressed[d]>>
    <2>1. 1 \in 1 .. Len(link) BY <1>2, <1>3
    <2> QED BY <1>4, <1>5, <2>1 DEF Packet
  <1>10. taken + 1 <= 3 * Len(s) BY <1>2, <1>3
  <1> HIDE DEF d, taken, h
  <1>11. d <= Len(s) BY <1>2, <1>8, <1>10, <1>7
  <1>12. d = h + 1 \/ (d = h /\ h > 0)
    <2>1. taken <= 3 * h + 2 BY <1>1, <1>2, <1>4, <1>7, RtpAssumption DEF FewLost
    <2> QED BY <1>2, <1>4, <1>7, <1>8, <2>1
  <1>13. 3 * d <= taken + 3 BY <1>7, <1>8
  <1> QED BY <1>2, <1>3, <1>5, <1>6, <1>7, <1>8, <1>9, <1>11, <1>12, <1>13 DEF d, taken, h

LEMMA EndArrivesInv == ASSUME FewLost, DtmfInv, EndArrives PROVE DtmfInv'
  <1>1. PICK s : Sounded(s) /\ OnTheWay(s) BY DEF DtmfInv
  <1>2. /\ link # <<>> /\ link' = Tail(link) /\ rtp' = rtp /\ job' = job
        /\ ear' = IF Head(link) = ear.last THEN ear
                  ELSE [ear EXCEPT !.last = Head(link), !.heard = Append(@, Head(link)[2])]
    BY DEF EndArrives
  <1> DEFINE taken == 3 * Len(s) - Len(link)
             h == Len(ear.heard)
             d == ((taken + 1) + 2) \div 3
  <1>3. /\ Tail(link) \in Seq(Packets3) /\ Len(Tail(link)) = Len(link) - 1 /\ Len(link) > 0
        /\ \A k \in 1 .. Len(link) - 1 : Tail(link)[k] = Packet(s, (taken + 1) + k)
        /\ Head(link) = <<s[d], Pressed[d]>> /\ Head(link) \in Packets3
        /\ taken \in Nat /\ h \in Nat /\ Len(s) \in Nat /\ Len(link) \in Nat
        /\ d \in Nat \ {0} /\ d <= Len(s) /\ taken + 1 <= 3 * d /\ 3 * d <= taken + 3
        /\ d = h + 1 \/ (d = h /\ h > 0)
    BY <1>1, <1>2, FirstTaken
  <1>4. 3 * Len(s) - Len(link') = taken + 1 /\ Len(link') = Len(link) - 1 BY <1>2, <1>3
  <1>5. /\ h <= Len(s) /\ \A i \in 1 .. h : ear.heard[i] = Pressed[i]
        /\ ear.last = IF h = 0 THEN <<>> ELSE <<s[h], Pressed[h]>>
        /\ ear.lost <= MaxLost /\ taken <= 3 * h + ear.lost /\ 3 * h <= taken + 2
    BY <1>1 DEF OnTheWay, OnPath
  <1>6. ear \in [last : {<<>>} \cup Packets3, heard : Seq(Digits), lost : Nat] BY DEF DtmfInv, DtmfType
  <1>7. Turns' /\ Sounded(s)' BY <1>1, <1>2 DEF DtmfInv, Turns, EarlierDone, Sounded, Ended
  <1>8. \A k \in 1 .. Len(link') : link'[k] = Packet(s, (taken + 1) + k) BY <1>2, <1>3, <1>4
  <1>9. s \in Seq(Nat) /\ Len(s) <= Len(Pressed) /\ \A i \in 1 .. Len(s) - 1 : s[i] < s[i + 1] BY <1>1 DEF Sounded
  <1> HIDE DEF taken, d
  <1>10. CASE d = h
    <2>1. ear' = ear BY <1>2, <1>3, <1>5, <1>10
    <2>2. DtmfType' BY <1>2, <1>3, <2>1 DEF DtmfInv, DtmfType
    <2>3. OnTheWay(s)'
      <3>1. taken + 1 >= 0 /\ taken + 1 <= 3 * h + ear.lost /\ 3 * h <= (taken + 1) + 2
        BY <1>3, <1>5, <1>6, <1>10
      <3> QED BY <1>4, <1>5, <1>8, <2>1, <3>1 DEF OnTheWay, OnPath
    <2> QED BY <1>7, <2>2, <2>3 DEF DtmfInv
  <1>11. CASE d = h + 1
    <2>1. s[d] \in Nat /\ Pressed[d] \in Digits /\ Head(link)[2] = Pressed[d]
      <3>1. d \in 1 .. Len(s) BY <1>3
      <3>2. Len(Pressed) \in Nat /\ Pressed \in Seq(Digits) BY PressedIs, LenProperties
      <3>3. d \in 1 .. Len(Pressed) BY <1>3, <1>9, <3>2
      <3> QED BY <1>3, <1>9, <3>1, <3>2, <3>3, ElementOfSeq
    <2>2. Head(link) # ear.last
      <3>1. CASE h = 0
        <4>1. ear.last = <<>> BY <1>5, <3>1
        <4>0. Head(link) = <<s[d], Pressed[d]>> BY <1>3
        <4>2. Len(Head(link)) = 2 BY <4>0
        <4> QED BY <4>1, <4>2, EmptySeq
      <3>2. CASE h # 0
        <4>1. h \in 1 .. Len(s) - 1 /\ h \in 1 .. Len(s) BY <1>3, <1>11, <3>2
        <4>2. s[h] < s[d] /\ s[h] \in Nat BY <1>9, <1>11, <4>1, ElementOfSeq
        <4>3. s[h] # s[d] BY <2>1, <4>2
        <4> QED BY <1>3, <1>5, <3>2, <4>3
      <3> QED BY <3>1, <3>2
    <2>3. ear' = [ear EXCEPT !.last = Head(link), !.heard = Append(ear.heard, Pressed[d])] BY <1>2, <2>1, <2>2
    <2> DEFINE q == Append(ear.heard, Pressed[d])
    <2>4. /\ q \in Seq(Digits) /\ Len(q) = h + 1 /\ q[h + 1] = Pressed[d] /\ \A i \in 1 .. h : q[i] = ear.heard[i]
      BY <1>6, <2>1, AppendProperties
    <2> HIDE DEF q
    <2>5. ear'.last = Head(link) /\ ear'.heard = q /\ ear'.lost = ear.lost
          /\ ear' \in [last : {<<>>} \cup Packets3, heard : Seq(Digits), lost : Nat]
      BY <1>3, <1>6, <2>3, <2>4 DEF q
    <2>6. DtmfType' BY <1>2, <1>3, <2>5 DEF DtmfInv, DtmfType
    <2>7. OnTheWay(s)'
      <3>1. Len(ear'.heard) = h + 1 BY <2>4, <2>5
      <3>2. ASSUME NEW i \in 1 .. h + 1 PROVE ear'.heard[i] = Pressed[i]
        <4> HIDE DEF h
        <4>1. CASE i = h + 1 BY <1>11, <2>4, <2>5, <4>1
        <4>2. CASE i # h + 1
          <5>1. i \in 1 .. h BY <1>3, <4>2
          <5> QED BY <1>5, <2>4, <2>5, <5>1
        <4> QED BY <4>1, <4>2
      <3>3. ear'.last = <<s[h + 1], Pressed[h + 1]>> /\ h + 1 # 0 BY <1>3, <1>11, <2>5
      <3>4. /\ taken + 1 >= 0 /\ taken + 1 <= 3 * (h + 1) + ear.lost /\ 3 * (h + 1) <= (taken + 1) + 2
            /\ h + 1 <= Len(s)
        BY <1>3, <1>5, <1>6, <1>11
      <3> HIDE DEF h
      <3> QED BY <1>4, <1>5, <1>8, <2>5, <3>1, <3>2, <3>3, <3>4 DEF OnTheWay, OnPath
    <2> QED BY <1>7, <2>6, <2>7 DEF DtmfInv
  <1> QED BY <1>3, <1>10, <1>11

LEMMA EndLostInv == ASSUME FewLost, DtmfInv, EndLost PROVE DtmfInv'
  <1>1. PICK s : Sounded(s) /\ OnTheWay(s) BY DEF DtmfInv
  <1>2. /\ link # <<>> /\ link' = Tail(link) /\ rtp' = rtp /\ job' = job
        /\ ear.lost < MaxLost /\ ear' = [ear EXCEPT !.lost = @ + 1]
    BY DEF EndLost
  <1> DEFINE taken == 3 * Len(s) - Len(link)
             h == Len(ear.heard)
  <1>3. /\ Tail(link) \in Seq(Packets3) /\ Len(Tail(link)) = Len(link) - 1 /\ Len(link) > 0
        /\ \A k \in 1 .. Len(link) - 1 : Tail(link)[k] = Packet(s, (taken + 1) + k)
        /\ taken \in Nat /\ h \in Nat /\ Len(s) \in Nat /\ Len(link) \in Nat
    BY <1>1, <1>2, FirstTaken
  <1>4. 3 * Len(s) - Len(link') = taken + 1 /\ Len(link') = Len(link) - 1 BY <1>2, <1>3
  <1>5. /\ h <= Len(s) /\ \A i \in 1 .. h : ear.heard[i] = Pressed[i]
        /\ ear.last = IF h = 0 THEN <<>> ELSE <<s[h], Pressed[h]>>
        /\ ear.lost <= MaxLost /\ taken <= 3 * h + ear.lost /\ 3 * h <= taken + 2
    BY <1>1 DEF OnTheWay, OnPath
  <1>6. ear \in [last : {<<>>} \cup Packets3, heard : Seq(Digits), lost : Nat] BY DEF DtmfInv, DtmfType
  <1>7. Turns' /\ Sounded(s)' BY <1>1, <1>2 DEF DtmfInv, Turns, EarlierDone, Sounded, Ended
  <1>8. \A k \in 1 .. Len(link') : link'[k] = Packet(s, (taken + 1) + k) BY <1>2, <1>3, <1>4
  <1>9. /\ ear'.last = ear.last /\ ear'.heard = ear.heard /\ ear'.lost = ear.lost + 1 /\ ear.lost \in Nat
        /\ ear' \in [last : {<<>>} \cup Packets3, heard : Seq(Digits), lost : Nat]
    <2>1. ear.lost + 1 \in Nat BY <1>6
    <2>2. ear' = [last |-> ear.last, heard |-> ear.heard, lost |-> ear.lost + 1] BY <1>2, <1>6
    <2> QED BY <1>6, <2>1, <2>2
  <1>10. DtmfType' BY <1>2, <1>3, <1>9 DEF DtmfInv, DtmfType
  <1>11. MaxLost \in Nat BY RtpAssumption
  <1>12. OnTheWay(s)'
    <2> HIDE DEF taken, h
    <2>1. taken + 1 >= 0 /\ taken + 1 <= 3 * h + (ear.lost + 1) /\ 3 * h <= (taken + 1) + 2 /\ ear.lost + 1 <= MaxLost
      <3>1. taken \in Nat /\ h \in Nat /\ ear.lost \in Nat BY <1>3, <1>9
      <3>2. taken <= 3 * h + ear.lost /\ 3 * h <= taken + 2 /\ ear.lost < MaxLost BY <1>2, <1>5
      <3> QED BY <1>11, <3>1, <3>2
    <2>2. Len(ear'.heard) = h BY <1>9 DEF h
    <2> QED BY <1>4, <1>5, <1>8, <1>9, <2>1, <2>2 DEF OnTheWay, OnPath
  <1> QED BY <1>7, <1>10, <1>12 DEF DtmfInv

LEMMA DtmfNextInv == ASSUME FewLost, DtmfInv, [RtpNext]_rtpVars PROVE DtmfInv'
  <1>1. ASSUME NEW j \in Jobs, SendDtmf(j) PROVE DtmfInv' BY <1>1, SendDtmfInv
  <1>2. ASSUME NEW j \in Jobs, DtmfBegin(j) PROVE DtmfInv' BY <1>2, DtmfBeginInv
  <1>3. ASSUME NEW j \in Jobs, DtmfEvent(j) PROVE DtmfInv' BY <1>3, DtmfEventInv
  <1>4. ASSUME NEW j \in Jobs, DtmfEnd(j) PROVE DtmfInv' BY <1>4, DtmfEndInv
  <1>5. ASSUME NEW j \in Jobs, DtmfGap(j) PROVE DtmfInv' BY <1>5, DtmfGapInv
  <1>6. CASE SendAudio BY <1>6, SendAudioInv
  <1>7. CASE RtpClose BY <1>7, RtpCloseInv
  <1>8. CASE EndArrives BY <1>8, EndArrivesInv
  <1>9. CASE EndLost BY <1>9, EndLostInv
  <1>10. CASE UNCHANGED rtpVars
    <2>1. PICK s : Sounded(s) /\ OnTheWay(s) BY DEF DtmfInv
    <2>2. rtp' = rtp /\ job' = job /\ link' = link /\ ear' = ear BY <1>10 DEF rtpVars
    <2>3. DtmfType' /\ Turns' /\ Sounded(s)'
      BY <2>1, <2>2 DEF DtmfInv, DtmfType, Turns, EarlierDone, Sounded, Ended
    <2> QED BY <2>1, <2>2, <2>3, SoundedKept
  <1> QED BY <1>1, <1>2, <1>3, <1>4, <1>5, <1>6, <1>7, <1>8, <1>9, <1>10 DEF RtpNext

\* Whatever is pressed is heard, in its order and once, if of three end packets one comes through.
THEOREM PressedIsHeard == ASSUME FewLost PROVE RtpSpec => []DigitsHeard
  <1>1. RtpInit => DtmfInv BY DtmfInitInv
  <1>2. DtmfInv /\ [RtpNext]_rtpVars => DtmfInv' BY DtmfNextInv
  <1>3. DtmfInv => DigitsHeard BY DtmfInvHeard
  <1> QED BY <1>1, <1>2, <1>3, PTL DEF RtpSpec

-----------------------------------------------------------------------------
(***************************************************************************)
(* The screening of a call.                                                *)
(*                                                                         *)
(* A window of days and hours, walked day by day as the code walks it,     *)
(* covers the same instants as the week it describes; the rest is the      *)
(* order of the rules.                                                     *)
(***************************************************************************)
LEMMA ModSmall == ASSUME NEW a \in Nat, NEW m \in Nat, a < m PROVE a % m = a
  OBVIOUS

LEMMA ModOnce == ASSUME NEW a \in Nat, NEW m \in Nat, m <= a, a < 2 * m PROVE a % m = a - m
  OBVIOUS

\* The walk from the first day to the last one ends after (last - first) % 7 days.
LEMMA WalkEnds == ASSUME NEW first \in Week, NEW last \in Week
                  PROVE  (CHOOSE k \in Week : (first + k) % 7 = last) = (last - first) % 7
  <1> DEFINE s == (last - first) % 7
  <1>1. s \in Week /\ (first + s) % 7 = last BY DEF Week
  <1>2. \A k \in Week : (first + k) % 7 = last => k = s BY DEF Week
  <1> DEFINE c == CHOOSE k \in Week : (first + k) % 7 = last
  <1>3. c \in Week /\ (first + c) % 7 = last
    <2> HIDE DEF s
    <2> QED BY <1>1, Zenon
  <1> HIDE DEF s, c
  <1>4. c = s BY <1>2, <1>3
  <1> QED BY <1>4 DEF c, s

LEMMA DaysAsWalked == ASSUME NEW first \in Week, NEW last \in Week
                      PROVE  ParseDays(first, last) = DaysWalked(first, last) /\ ParseDays(first, last) \subseteq Week
  <1> DEFINE s == (last - first) % 7
  <1>1. s \in Week BY DEF Week
  <1>2. \A i \in 0 .. s : (first + i) % 7 \in Week BY <1>1 DEF Week
  <1>3. ParseDays(first, last) = {(first + i) % 7 : i \in 0 .. s} BY DEF ParseDays
  <1> DEFINE c == CHOOSE k \in Week : (first + k) % 7 = last
  <1>4. DaysWalked(first, last) = {d \in Week : \E i \in 0 .. c : d = (first + i) % 7} BY DEF DaysWalked
  <1>5. c = s BY WalkEnds
  <1> HIDE DEF s, c
  <1> QED BY <1>2, <1>3, <1>4, <1>5

\* Days and instants of the week, and back.
LEMMA DayTimes == ASSUME NEW d \in Week
                  PROVE  /\ d * DayLen \in Nat /\ d * DayLen <= 6 * DayLen
                         /\ (d + 1) * DayLen = d * DayLen + DayLen
  <1>1. d = 0 \/ d = 1 \/ d = 2 \/ d = 3 \/ d = 4 \/ d = 5 \/ d = 6 BY DEF Week
  <1> QED BY <1>1, ScreenAssumption

LEMMA DaysApart == ASSUME NEW d \in Week, NEW e \in Week, d < e PROVE d * DayLen + DayLen <= e * DayLen
  <1>1. d = 0 \/ d = 1 \/ d = 2 \/ d = 3 \/ d = 4 \/ d = 5 BY DEF Week
  <1>2. e = 1 \/ e = 2 \/ e = 3 \/ e = 4 \/ e = 5 \/ e = 6 BY DEF Week
  <1> QED BY <1>1, <1>2, ScreenAssumption

LEMMA OneInstant == ASSUME NEW d \in Week, NEW e \in Week, NEW x \in Instants, NEW y \in Instants
                    PROVE  d * DayLen + x = e * DayLen + y <=> d = e /\ x = y
  <1>1. DayLen \in Nat /\ x \in 0 .. DayLen - 1 /\ y \in 0 .. DayLen - 1 BY ScreenAssumption DEF Instants
  <1>2. d * DayLen \in Nat /\ e * DayLen \in Nat BY DayTimes
  <1>3. CASE d = e BY <1>1, <1>2, <1>3
  <1>4. CASE d < e
    <2>1. d * DayLen + DayLen <= e * DayLen BY <1>4, DaysApart
    <2> HIDE DEF Week
    <2> QED BY <1>1, <1>2, <1>4, <2>1
  <1>5. CASE e < d
    <2>1. e * DayLen + DayLen <= d * DayLen BY <1>5, DaysApart
    <2> QED BY <1>1, <1>2, <1>5, <2>1
  <1>6. d \in Int /\ e \in Int BY DEF Week
  <1> QED BY <1>3, <1>4, <1>5, <1>6

LEMMA InTheDay == ASSUME NEW d \in Week, NEW x \in Nat, x < DayLen
                  PROVE  (d * DayLen + x) % (7 * DayLen) = d * DayLen + x
  <1>1. DayLen \in Nat /\ 7 * DayLen \in Nat BY ScreenAssumption
  <1>2. d * DayLen + x \in Nat /\ d * DayLen + x < 7 * DayLen BY <1>1, DayTimes
  <1> QED BY <1>1, <1>2, ModSmall

LEMMA TheDayAfter == ASSUME NEW d \in Week, NEW x \in Nat, DayLen <= x, x < 2 * DayLen
                     PROVE  (d * DayLen + x) % (7 * DayLen) = ((d + 1) % 7) * DayLen + (x - DayLen)
  <1>1. DayLen \in Nat /\ 7 * DayLen \in Nat BY ScreenAssumption
  <1>2. CASE d < 6
    <2>1. (d + 1) % 7 = d + 1 /\ d + 1 \in Week BY <1>2 DEF Week
    <2>2. x - DayLen \in Nat /\ x - DayLen < DayLen BY <1>1
    <2>3. d * DayLen + x = (d + 1) * DayLen + (x - DayLen) BY <1>1, DayTimes
    <2> QED BY <2>1, <2>2, <2>3, InTheDay
  <1>3. CASE d = 6
    <2>1. (d + 1) % 7 = 0 BY <1>3
    <2>2. d * DayLen + x \in Nat /\ 7 * DayLen <= d * DayLen + x /\ d * DayLen + x < 2 * (7 * DayLen) BY <1>1, <1>3
    <2>3. (d * DayLen + x) % (7 * DayLen) = (d * DayLen + x) - 7 * DayLen
      <3> DEFINE a == d * DayLen + x
                 m == 7 * DayLen
      <3>1. a \in Nat /\ m \in Nat /\ m <= a /\ a < 2 * m BY <1>1, <2>2
      <3> HIDE DEF a, m
      <3>2. a % m = a - m BY <3>1, ModOnce
      <3> QED BY <3>2, Zenon DEF a, m
    <2>4. 0 * DayLen + (x - DayLen) = (d * DayLen + x) - 7 * DayLen BY <1>1, <1>3
    <2> QED BY <2>1, <2>3, <2>4
  <1>4. d < 6 \/ d = 6 BY DEF Week
  <1> QED BY <1>2, <1>3, <1>4

\* The hours of a window within a day.
LEMMA WithinADay ==
    ASSUME NEW w \in AnyWindow, w.start <= w.end, NEW day \in Week, NEW moment \in Instants
    PROVE  WindowContains(w, day, moment) <=> day * DayLen + moment \in Covered(w)
  <1> DEFINE days == ParseDays(w.first, w.last)
             instant == day * DayLen + moment
             length == w.end - w.start
  <1>1. w.first \in Week /\ w.last \in Week /\ w.start \in 0 .. DayLen - 1 /\ w.end \in 0 .. DayLen - 1 /\ DayLen \in Nat
    BY ScreenAssumption DEF AnyWindow, Instants
  <1>2. days \subseteq Week /\ days = DaysWalked(w.first, w.last) BY <1>1, DaysAsWalked
  <1>3. Covered(w) = {(d * DayLen + w.start + k) % (7 * DayLen) : d \in days, k \in 0 .. length} BY <1>2 DEF Covered
  <1>4. WindowContains(w, day, moment) <=> day \in days /\ w.start <= moment /\ moment <= w.end BY DEF WindowContains
  <1> HIDE DEF days, length
  <1>5. ASSUME NEW d \in days, NEW k \in 0 .. length
        PROVE  (d * DayLen + w.start + k) % (7 * DayLen) = instant <=> d = day /\ w.start + k = moment
    <2> DEFINE x == w.start + k
    <2>1. d \in Week /\ x \in Nat /\ x < DayLen /\ x \in Instants BY <1>1, <1>2 DEF length, Instants
    <2>2. d * DayLen + w.start + k = d * DayLen + x BY <1>1, <2>1, DayTimes DEF length
    <2> HIDE DEF x
    <2>3. (d * DayLen + x) % (7 * DayLen) = d * DayLen + x BY <2>1, InTheDay
    <2>4. d * DayLen + x = day * DayLen + moment <=> d = day /\ x = moment BY <2>1, OneInstant
    <2> QED BY <2>2, <2>3, <2>4 DEF x
  <1>6. instant \in Covered(w) <=> \E d \in days, k \in 0 .. length : d = day /\ w.start + k = moment
    BY <1>3, <1>5
  <1>7. (\E k \in 0 .. length : w.start + k = moment) <=> w.start <= moment /\ moment <= w.end
    <2>1. moment \in Int /\ w.start \in Int /\ w.end \in Int BY <1>1 DEF Instants
    <2>2. ASSUME w.start <= moment, moment <= w.end PROVE \E k \in 0 .. length : w.start + k = moment
      <3>1. moment - w.start \in 0 .. length /\ w.start + (moment - w.start) = moment BY <2>1, <2>2 DEF length
      <3> QED BY <3>1
    <2>3. ASSUME NEW k \in 0 .. length, w.start + k = moment PROVE w.start <= moment /\ moment <= w.end
      BY <2>1, <2>3 DEF length
    <2> QED BY <2>2, <2>3
  <1> QED BY <1>4, <1>6, <1>7

\* The hours of a window that runs over midnight: the evening of a day, and the morning after it.
LEMMA OverMidnight ==
    ASSUME NEW w \in AnyWindow, w.end < w.start, NEW day \in Week, NEW moment \in Instants
    PROVE  WindowContains(w, day, moment) <=> day * DayLen + moment \in Covered(w)
  <1> DEFINE days == ParseDays(w.first, w.last)
             instant == day * DayLen + moment
             length == DayLen - w.start + w.end
  <1>1. w.first \in Week /\ w.last \in Week /\ w.start \in 0 .. DayLen - 1 /\ w.end \in 0 .. DayLen - 1 /\ DayLen \in Nat
    BY ScreenAssumption DEF AnyWindow, Instants
  <1>2. days \subseteq Week /\ days = DaysWalked(w.first, w.last) BY <1>1, DaysAsWalked
  <1>3. ~(w.start <= w.end) BY <1>1
  <1>4. Covered(w) = {(d * DayLen + w.start + k) % (7 * DayLen) : d \in days, k \in 0 .. length} BY <1>2, <1>3 DEF Covered
  <1>5. WindowContains(w, day, moment) <=>
          \/ day \in days /\ moment >= w.start
          \/ (day - 1) % 7 \in days /\ moment <= w.end
    BY <1>3, Zenon DEF WindowContains
  <1> HIDE DEF days, length
  <1>6. ASSUME NEW d \in days, NEW k \in 0 .. length
        PROVE  (d * DayLen + w.start + k) % (7 * DayLen) = instant
               <=> \/ d = day /\ w.start + k = moment
                   \/ d = (day - 1) % 7 /\ (w.start + k) - DayLen = moment
    <2> DEFINE x == w.start + k
    <2>1. d \in Week /\ x \in Nat /\ x < 2 * DayLen BY <1>1, <1>2 DEF length
    <2>2. d * DayLen + w.start + k = d * DayLen + x BY <1>1, <2>1, DayTimes DEF length
    <2>3. moment \in Int /\ moment >= 0 /\ moment < DayLen BY <1>1 DEF Instants
    <2> HIDE DEF x
    <2>4. CASE x < DayLen
      <3>1. (d * DayLen + x) % (7 * DayLen) = d * DayLen + x BY <2>1, <2>4, InTheDay
      <3>2. x \in Instants BY <1>1, <2>1, <2>4 DEF Instants
      <3>3. d * DayLen + x = day * DayLen + moment <=> d = day /\ x = moment BY <2>1, <3>2, OneInstant
      <3>4. x - DayLen # moment BY <1>1, <2>1, <2>3, <2>4
      <3>5. (d * DayLen + w.start + k) % (7 * DayLen) = instant <=> d = day /\ x = moment BY <2>2, <3>1, <3>3, Zenon
      <3> QED BY <3>4, <3>5, Zenon DEF x
    <2>5. CASE x >= DayLen
      <3>1. (d * DayLen + x) % (7 * DayLen) = ((d + 1) % 7) * DayLen + (x - DayLen) BY <1>1, <2>1, <2>5, TheDayAfter
      <3>2. (d + 1) % 7 \in Week /\ ((d + 1) % 7 = day <=> d = (day - 1) % 7) BY <2>1 DEF Week
      <3>3. x - DayLen \in Instants BY <1>1, <2>1, <2>5 DEF Instants
      <3>4. ((d + 1) % 7) * DayLen + (x - DayLen) = day * DayLen + moment <=> (d + 1) % 7 = day /\ x - DayLen = moment
        BY <3>2, <3>3, OneInstant
      <3>5. x # moment BY <1>1, <2>1, <2>3, <2>5
      <3>6. (d * DayLen + w.start + k) % (7 * DayLen) = instant <=> (d + 1) % 7 = day /\ x - DayLen = moment
        BY <2>2, <3>1, <3>4, Zenon
      <3> QED BY <3>2, <3>5, <3>6, Zenon DEF x
    <2>6. x \in Int /\ DayLen \in Int BY <1>1, <2>1
    <2> QED BY <2>4, <2>5, <2>6
  <1>7. instant \in Covered(w) <=>
          \E d \in days, k \in 0 .. length :
            \/ d = day /\ w.start + k = moment
            \/ d = (day - 1) % 7 /\ (w.start + k) - DayLen = moment
    <2>1. instant \in Covered(w) <=>
            \E d \in days, k \in 0 .. length : (d * DayLen + w.start + k) % (7 * DayLen) = instant
      <3> HIDE DEF instant
      <3> QED BY <1>4
    <2> QED BY <1>6, <2>1, Zenon
  <1>8. moment \in Int /\ moment >= 0 /\ moment < DayLen /\ w.start \in Int /\ w.end \in Int BY <1>1 DEF Instants
  <1>9. (\E k \in 0 .. length : w.start + k = moment) <=> moment >= w.start
    <2>1. ASSUME moment >= w.start PROVE \E k \in 0 .. length : w.start + k = moment
      <3>1. moment - w.start \in 0 .. length /\ w.start + (moment - w.start) = moment BY <1>1, <1>8, <2>1 DEF length
      <3> QED BY <3>1
    <2>2. ASSUME NEW k \in 0 .. length, w.start + k = moment PROVE moment >= w.start BY <1>1, <1>8, <2>2 DEF length
    <2> QED BY <2>1, <2>2
  <1>10. (\E k \in 0 .. length : (w.start + k) - DayLen = moment) <=> moment <= w.end
    <2>1. ASSUME moment <= w.end PROVE \E k \in 0 .. length : (w.start + k) - DayLen = moment
      <3>1. moment + DayLen - w.start \in 0 .. length /\ (w.start + (moment + DayLen - w.start)) - DayLen = moment
        BY <1>1, <1>8, <2>1 DEF length
      <3> QED BY <3>1
    <2>2. ASSUME NEW k \in 0 .. length, (w.start + k) - DayLen = moment PROVE moment <= w.end BY <1>1, <1>8, <2>2 DEF length
    <2> QED BY <2>1, <2>2
  <1>11. instant \in Covered(w) <=>
          \/ day \in days /\ moment >= w.start
          \/ (day - 1) % 7 \in days /\ moment <= w.end
    BY <1>7, <1>9, <1>10, Zenon
  <1> QED BY <1>5, <1>11, Zenon

LEMMA WindowsCover ==
    ASSUME NEW windows \in SUBSET AnyWindow, NEW day \in Week, NEW moment \in Instants
    PROVE  Matches(windows, day, moment) <=> InSome(windows, day * DayLen + moment)
  <1>1. ASSUME NEW w \in AnyWindow PROVE WindowContains(w, day, moment) <=> day * DayLen + moment \in Covered(w)
    <2>1. w.start \in Int /\ w.end \in Int BY ScreenAssumption DEF AnyWindow, Instants
    <2> QED BY <2>1, WithinADay, OverMidnight
  <1> QED BY <1>1 DEF Matches, InSome

\* The lists and the clock, one after the other, are the lists and the hours of ScreenTrue.
LEMMA ScreenOpen ==
    ASSUME NEW r \in AnyRules, NEW day \in Week, NEW moment \in Instants
    PROVE  Screen(r, day, moment) = "open" <=>
              /\ ~r.black
              /\ \/ r.white = "listed"
                 \/ /\ r.white = "none"
                    /\ r.work = {} \/ InSome(r.work, day * DayLen + moment)
                    /\ ~InSome(r.quiet, day * DayLen + moment)
  <1>1. r.white \in {"none", "listed", "unlisted"} /\ r.work \in SUBSET AnyWindow /\ r.quiet \in SUBSET AnyWindow
    BY DEF AnyRules
  <1>2. /\ Matches(r.work, day, moment) <=> InSome(r.work, day * DayLen + moment)
        /\ Matches(r.quiet, day, moment) <=> InSome(r.quiet, day * DayLen + moment)
    BY <1>1, WindowsCover
  <1>3. TimeClosed(r, day, moment) = "open" <=>
          /\ r.work = {} \/ Matches(r.work, day, moment)
          /\ ~Matches(r.quiet, day, moment)
    BY DEF TimeClosed
  <1> QED BY <1>1, <1>2, <1>3 DEF Screen

LEMMA ScreenedRight ==
    ASSUME NEW rules \in RuleSets, NEW day \in Week, NEW moment \in Instants, ScreenCall(rules, day, moment)
    PROVE  ScreenTrue'
  <1> DEFINE open == {u \in DOMAIN rules : Screen(rules[u], day, moment) = "open"}
             verdict == IF open # {} THEN "none" ELSE IF rules[1].forward THEN "redirect" ELSE "reject"
  <1>1. screened' = [state |-> "done", rules |-> rules, day |-> day, now |-> moment, rung |-> open, answer |-> verdict]
    BY DEF ScreenCall
  <1>2. \A u \in DOMAIN rules : rules[u] \in AnyRules BY ScreenAssumption
  <1>3. open = {} <=> verdict # "none" OBVIOUS
  <1>4. ASSUME NEW u \in DOMAIN rules
        PROVE  u \in open <=>
                 /\ ~rules[u].black
                 /\ \/ rules[u].white = "listed"
                    \/ /\ rules[u].white = "none"
                       /\ rules[u].work = {} \/ InSome(rules[u].work, day * DayLen + moment)
                       /\ ~InSome(rules[u].quiet, day * DayLen + moment)
    <2>1. rules[u] \in AnyRules BY <1>2
    <2> QED BY <2>1, ScreenOpen
  <1> HIDE DEF open, verdict
  <1>5. /\ screened'.rules = rules /\ screened'.day = day /\ screened'.now = moment
        /\ screened'.rung = open /\ screened'.answer = verdict
    BY <1>1
  <1> QED BY <1>3, <1>4, <1>5 DEF ScreenTrue

\* A call rings a user exactly when the lists and the hours of that user, read as intervals of the
\* week, allow it, for days of any length and any rules (schedule.py, screen; manager.py, _screen).
THEOREM RungByOwnRules == ScreenSpec => []ScreenTrue
  <1>1. ScreenInit => ScreenTrue BY DEF ScreenInit, ScreenTrue
  <1>2. ScreenTrue /\ [ScreenNext]_screenVars => ScreenTrue'
    <2>1. CASE UNCHANGED screenVars BY <2>1 DEF screenVars, ScreenTrue
    <2>2. CASE NextCall BY <2>2 DEF NextCall, ScreenTrue
    <2>3. ASSUME NEW rules \in RuleSets, NEW day \in Week, NEW moment \in Instants, ScreenCall(rules, day, moment)
          PROVE  ScreenTrue'
      BY <2>3, ScreenedRight
    <2> QED BY <2>1, <2>2, <2>3 DEF ScreenNext
  <1> QED BY <1>1, <1>2, PTL DEF ScreenSpec

-----------------------------------------------------------------------------
(***************************************************************************)
(* The guard of the API.                                                   *)
(*                                                                         *)
(* The hits are the last of the requests accepted, and a request accepted  *)
(* comes more than a minute after the one RateLimit before it.  So a       *)
(* minute that holds a request can hold only the RateLimit - 1 after it.   *)
(***************************************************************************)
Times == Seq(Nat)

\* The hits of a peer are the last requests accepted, and those before them are over a minute old.
LastOf(h, q, t) ==
    LET gone == Len(q) - Len(h)
    IN /\ gone >= 0
       /\ \A i \in 1 .. Len(h) : h[i] = q[gone + i]
       /\ \A i \in 1 .. gone : t - q[i] > Minute

Counted(p) == LastOf(hits[p], accepted[p], now)

\* The clock does not go back, and a request comes over a minute after the one RateLimit before it.
Spaced(p) ==
    LET q == accepted[p] IN
    /\ \A i, j \in 1 .. Len(q) : i <= j => q[i] <= q[j]
    /\ \A i \in 1 .. Len(q) : q[i] <= now
    /\ \A i, j \in 1 .. Len(q) : i + RateLimit <= j => q[j] - q[i] > Minute

Outcomes == [peer : Peers \cup {"none"}, status : {0, 200, 401, 403, 429}]

ApiInv ==
    /\ answer \in Outcomes
    /\ now \in Nat /\ hits \in [Peers -> Times] /\ accepted \in [Peers -> Times]
    /\ \A p \in Peers : Counted(p) /\ Spaced(p) /\ Len(hits[p]) <= RateLimit
    /\ answer.status = 429 => /\ answer.peer \in Peers /\ Len(hits[answer.peer]) = RateLimit
                              /\ \A i \in 1 .. RateLimit : now - hits[answer.peer][i] <= Minute

LEMMA OutdatedIs ==
    ASSUME NEW q \in Times, now \in Nat, NEW age \in Nat
    PROVE  LET n == Outdated(q, age) IN
           /\ n \in 0 .. Len(q) /\ \A i \in 1 .. n : now - q[i] > age
           /\ n < Len(q) => now - q[n + 1] <= age
  <1> DEFINE P(n) == (\A i \in 1 .. n : now - q[i] > age) /\ (n < Len(q) => now - q[n + 1] <= age)
             fresh == {i \in 1 .. Len(q) : now - q[i] <= age}
  <1>1. Len(q) \in Nat /\ \A i \in 1 .. Len(q) : q[i] \in Nat BY LenProperties, ElementOfSeq DEF Times
  <1>2. \E n \in 0 .. Len(q) : P(n)
    <2>1. CASE fresh = {}
      <3>1. \A i \in 1 .. Len(q) : now - q[i] > age BY <1>1, <2>1
      <3>2. P(Len(q)) BY <1>1, <3>1
      <3> QED BY <1>1, <3>2
    <2>2. CASE fresh # {}
      <3>1. fresh \in SUBSET Nat OBVIOUS
      <3>2. PICK m \in fresh : \A i \in fresh : m <= i
        <4> HIDE DEF fresh
        <4> QED BY <2>2, <3>1, LeastNatural
      <3>3. m \in 1 .. Len(q) /\ now - q[m] <= age OBVIOUS
      <3>4. ASSUME NEW i \in 1 .. m - 1 PROVE now - q[i] > age
        <4>1. i \in 1 .. Len(q) /\ i < m BY <1>1, <3>3
        <4>2. i \notin fresh BY <3>2, <4>1
        <4> QED BY <1>1, <4>1, <4>2
      <3>5. P(m - 1) /\ m - 1 \in 0 .. Len(q) BY <1>1, <3>3, <3>4
      <3> QED BY <3>5
    <2> QED BY <2>1, <2>2
  <1>3. Outdated(q, age) = CHOOSE n \in 0 .. Len(q) : P(n) BY DEF Outdated
  <1> HIDE DEF P
  <1>4. Outdated(q, age) \in 0 .. Len(q) /\ P(Outdated(q, age)) BY <1>2, <1>3
  <1> QED BY <1>4 DEF P

\* What Recent leaves are the last hits, those of the last minute.
LEMMA RecentIs ==
    ASSUME NEW q \in Times, now \in Nat
    PROVE  LET r == Recent(q)
               n == Len(q) - Len(r)
           IN /\ r \in Times /\ n \in 0 .. Len(q)
              /\ \A i \in 1 .. Len(r) : r[i] = q[n + i]
              /\ \A i \in 1 .. n : now - q[i] > Minute
              /\ Len(r) > 0 => now - r[1] <= Minute
  <1> DEFINE n == Outdated(q, Minute)
             r == SubSeq(q, n + 1, Len(q))
  <1>1. Len(q) \in Nat /\ \A i \in 1 .. Len(q) : q[i] \in Nat BY LenProperties, ElementOfSeq DEF Times
  <1>2. Minute \in Nat BY ApiAssumption
  <1>3. /\ n \in 0 .. Len(q) /\ \A i \in 1 .. n : now - q[i] > Minute
        /\ n < Len(q) => now - q[n + 1] <= Minute
    BY <1>2, OutdatedIs
  <1>4. r = Recent(q) BY DEF Recent
  <1> HIDE DEF n
  <1>5. r \in Seq(Nat) /\ Len(r) = Len(q) - n /\ \A i \in 1 .. Len(q) - n : r[i] = q[n + i]
    <2>1. n + 1 \in Int /\ Len(q) \in Int /\ \A i \in n + 1 .. Len(q) : q[i] \in Nat BY <1>1, <1>3
    <2>2. /\ r \in Seq(Nat) /\ Len(r) = IF n + 1 <= Len(q) THEN Len(q) - (n + 1) + 1 ELSE 0
          /\ \A i \in 1 .. Len(q) - (n + 1) + 1 : r[i] = q[(n + 1) + i - 1]
      BY <2>1, SubSeqProperties
    <2> HIDE DEF r
    <2> QED BY <1>1, <1>3, <2>2
  <1> HIDE DEF r
  <1>6. Len(q) - Len(r) = n BY <1>1, <1>3, <1>5
  <1>7. ASSUME Len(r) > 0 PROVE now - r[1] <= Minute
    <2>1. n < Len(q) /\ 1 \in 1 .. Len(q) - n BY <1>1, <1>3, <1>5, <1>7
    <2>2. r[1] = q[n + 1] BY <1>5, <2>1
    <2> QED BY <1>3, <2>1, <2>2
  <1> QED BY <1>3, <1>4, <1>5, <1>6, <1>7 DEF Times

LEMMA ApiInitInv == ApiInit /\ RateLimit > 0 => ApiInv
  <1> SUFFICES ASSUME ApiInit, RateLimit > 0 PROVE ApiInv OBVIOUS
  <1>1. Len(<<>>) = 0 /\ <<>> \in Times BY EmptySeq DEF Times
  <1>2. \A p \in Peers : hits[p] = <<>> /\ accepted[p] = <<>> BY DEF ApiInit
  <1>3. answer.status = 0 /\ answer \in Outcomes BY DEF ApiInit, Outcomes
  <1>4. now \in Nat /\ hits \in [Peers -> Times] /\ accepted \in [Peers -> Times] BY <1>1 DEF ApiInit
  <1> QED BY <1>1, <1>2, <1>3, <1>4, ApiAssumption DEF ApiInv, Counted, LastOf, Spaced

\* Forgetting old hits keeps the rest.
LEMMA RecentCounted ==
    ASSUME ApiInv, NEW p \in Peers
    PROVE  LET r == Recent(hits[p])
               q == accepted[p]
               gone == Len(q) - Len(r)
           IN /\ r \in Times /\ Len(r) <= Len(hits[p]) /\ Len(r) <= Len(q) /\ Len(r) \in Nat
              /\ \A i \in 1 .. Len(r) : r[i] = q[gone + i] /\ now - r[i] <= Minute
              /\ \A i \in 1 .. gone : now - q[i] > Minute
  <1> DEFINE r == Recent(hits[p])
             h == hits[p]
             q == accepted[p]
             n == Len(h) - Len(r)
             gone == Len(q) - Len(h)
  <1>1. h \in Times /\ q \in Times /\ now \in Nat BY DEF ApiInv
  <1>2. Len(h) \in Nat /\ Len(q) \in Nat /\ \A i \in 1 .. Len(q) : q[i] \in Nat
    BY <1>1, LenProperties, ElementOfSeq DEF Times
  <1>3. /\ r \in Times /\ n \in 0 .. Len(h)
        /\ \A i \in 1 .. Len(r) : r[i] = h[n + i]
        /\ \A i \in 1 .. n : now - h[i] > Minute
        /\ Len(r) > 0 => now - r[1] <= Minute
    BY <1>1, RecentIs
  <1>4. Len(r) \in Nat BY <1>3, LenProperties DEF Times
  <1>5. /\ gone >= 0 /\ \A i \in 1 .. Len(h) : h[i] = q[gone + i]
        /\ \A i \in 1 .. gone : now - q[i] > Minute
    BY DEF ApiInv, Counted, LastOf
  <1>6. \A i, j \in 1 .. Len(q) : i <= j => q[i] <= q[j] BY DEF ApiInv, Spaced
  <1>7. Minute \in Nat BY ApiAssumption
  <1> HIDE DEF r, h, q
  <1>8. Len(q) - Len(r) = gone + n BY <1>2, <1>3, <1>4
  <1>9. ASSUME NEW i \in 1 .. Len(r) PROVE r[i] = q[(gone + n) + i] /\ now - r[i] <= Minute
    <2>1. r[i] = h[n + i] /\ n + i \in 1 .. Len(h) BY <1>2, <1>3, <1>4
    <2>2. h[n + i] = q[gone + (n + i)] BY <1>5, <2>1
    <2>3. gone + (n + i) = (gone + n) + i /\ (gone + n) + i \in 1 .. Len(q) BY <1>2, <1>3, <1>4, <1>5
    <2>4. 1 \in 1 .. Len(r) /\ r[1] = h[n + 1] /\ n + 1 \in 1 .. Len(h) BY <1>2, <1>3, <1>4
    <2>5. h[n + 1] = q[gone + (n + 1)] /\ gone + (n + 1) \in 1 .. Len(q) BY <1>2, <1>3, <1>4, <1>5, <2>4
    <2>6. gone + (n + 1) <= (gone + n) + i BY <1>2, <1>3, <1>4
    <2>7. r[1] <= r[i] BY <1>6, <2>1, <2>2, <2>3, <2>4, <2>5, <2>6
    <2>8. r[1] \in Nat /\ r[i] \in Nat BY <1>2, <2>1, <2>2, <2>3, <2>4, <2>5
    <2>9. now - r[1] <= Minute BY <1>3, <1>4, <2>4
    <2> QED BY <1>1, <1>7, <2>1, <2>2, <2>3, <2>7, <2>8, <2>9
  <1>10. ASSUME NEW i \in 1 .. gone + n PROVE now - q[i] > Minute
    <2>1. CASE i <= gone BY <1>2, <1>5, <2>1
    <2>2. CASE i > gone
      <3>1. i - gone \in 1 .. n /\ i - gone \in 1 .. Len(h) /\ gone + (i - gone) = i BY <1>2, <1>3, <1>5, <2>2
      <3> QED BY <1>3, <1>5, <3>1
    <2> QED BY <1>2, <1>3, <2>1, <2>2
  <1>11. Len(r) <= Len(h) /\ Len(r) <= Len(q) BY <1>2, <1>3, <1>4, <1>5
  <1> QED BY <1>3, <1>4, <1>8, <1>9, <1>10, <1>11 DEF r, h, q

\* The first of a sequence are places of it.
LEMMA Fewer ==
    ASSUME NEW a \in Nat, NEW h \in Nat, NEW i \in 1 .. a - h
    PROVE  i \in 1 .. a
  OBVIOUS

\* A time more than m ago stays so as the clock goes on.
LEMMA LaterStill ==
    ASSUME NEW a \in Nat, NEW b \in Nat, NEW c \in Nat, NEW m \in Nat, b - a > m, c >= b
    PROVE  c - a > m
  OBVIOUS

\* What an unchanged queue keeps when the clock does not go back.
LEMMA QueuesKept ==
    ASSUME ApiInv, hits' = hits, accepted' = accepted, now' \in Nat, now' >= now, answer' \in Outcomes, answer'.status # 429
    PROVE  ApiInv'
  <1>1. now \in Nat /\ Minute \in Nat BY ApiAssumption DEF ApiInv
  <1>2. ASSUME NEW p \in Peers PROVE Counted(p)' /\ Spaced(p)' /\ Len(hits[p])' <= RateLimit
    <2>1. Counted(p) /\ Spaced(p) /\ Len(hits[p]) <= RateLimit BY DEF ApiInv
    <2>2. hits[p] \in Times /\ accepted[p] \in Times BY DEF ApiInv
    <2>3. /\ Len(hits[p]) \in Nat /\ Len(accepted[p]) \in Nat
          /\ \A i \in 1 .. Len(accepted[p]) : accepted[p][i] \in Nat
      BY <2>2, LenProperties, ElementOfSeq DEF Times
    <2>4. Counted(p)'
      <3>1. ASSUME NEW i \in 1 .. Len(accepted[p]) - Len(hits[p]) PROVE now' - accepted[p][i] > Minute
        <4>1. now - accepted[p][i] > Minute BY <2>1 DEF Counted, LastOf
        <4>2. Len(hits[p]) \in Nat /\ Len(accepted[p]) \in Nat BY <2>3
        <4>3. i \in 1 .. Len(accepted[p]) BY <4>2, Fewer
        <4>4. accepted[p][i] \in Nat BY <2>3, <4>3
        <4> QED BY <1>1, <4>1, <4>4, LaterStill
      <3> QED BY <2>1, <3>1 DEF Counted, LastOf
    <2>5. Spaced(p)'
      <3>1. \A i \in 1 .. Len(accepted[p]) : accepted[p][i] <= now' BY <1>1, <2>1, <2>3 DEF Spaced
      <3> QED BY <2>1, <3>1 DEF Spaced
    <2> QED BY <2>1, <2>4, <2>5
  <1> QED BY <1>2 DEF ApiInv

\* A request that is accepted is counted last, and its minute was not full.
LEMMA AcceptedInv ==
    ASSUME ApiInv, RateLimit > 0, NEW p \in Peers, NEW token \in BOOLEAN, Request(p, token),
           Status(p, token) = 200
    PROVE  ApiInv'
  <1> DEFINE r == Recent(hits[p])
             q == accepted[p]
             gone == Len(q) - Len(r)
  <1>1. /\ answer' = [peer |-> p, status |-> 200] /\ now' = now
        /\ accepted' = [accepted EXCEPT ![p] = Append(@, now)]
        /\ hits' = [hits EXCEPT ![p] = Append(Recent(@), now)]
    BY DEF Request
  <1>2. Len(r) < RateLimit
    <2>1. ~(Len(r) >= RateLimit) BY DEF Status
    <2>2. Len(r) \in Nat BY RecentCounted
    <2> HIDE DEF r
    <2> QED BY <2>1, <2>2, ApiAssumption
  <1>3. /\ r \in Times /\ Len(r) <= Len(q) /\ Len(r) \in Nat
        /\ \A i \in 1 .. Len(r) : r[i] = q[gone + i] /\ now - r[i] <= Minute
        /\ \A i \in 1 .. gone : now - q[i] > Minute
    BY RecentCounted
  <1>4. now \in Nat /\ q \in Times /\ Minute \in Nat /\ RateLimit \in Nat BY ApiAssumption DEF ApiInv
  <1>5. Len(q) \in Nat /\ \A i \in 1 .. Len(q) : q[i] \in Nat BY <1>4, LenProperties, ElementOfSeq DEF Times
  <1>6. Spaced(p) BY DEF ApiInv
  <1>7. accepted'[p] = Append(q, now) /\ hits'[p] = Append(r, now) BY <1>1 DEF ApiInv
  <1>8. Append(q, now) \in Times /\ Append(r, now) \in Times BY <1>3, <1>4, AppendProperties DEF Times
  <1>9. hits' \in [Peers -> Times] /\ accepted' \in [Peers -> Times] BY <1>1, <1>8 DEF ApiInv
  <1>10. /\ Len(Append(q, now)) = Len(q) + 1 /\ \A i \in 1 .. Len(q) : Append(q, now)[i] = q[i]
         /\ Append(q, now)[Len(q) + 1] = now
         /\ Len(Append(r, now)) = Len(r) + 1 /\ \A i \in 1 .. Len(r) : Append(r, now)[i] = r[i]
         /\ Append(r, now)[Len(r) + 1] = now
    BY <1>3, <1>4, AppendProperties DEF Times
  <1> DEFINE qq == accepted'[p]
             rr == hits'[p]
  <1>11. /\ Len(qq) = Len(q) + 1 /\ \A i \in 1 .. Len(q) : qq[i] = q[i]
         /\ qq[Len(q) + 1] = now
         /\ Len(rr) = Len(r) + 1 /\ \A i \in 1 .. Len(r) : rr[i] = r[i]
         /\ rr[Len(r) + 1] = now
    BY <1>7, <1>10
  <1>12. Counted(p)'
    <2>1. Len(qq) - Len(rr) = gone /\ gone >= 0
      <3> HIDE DEF r, q, qq, rr
      <3> QED BY <1>3, <1>5, <1>11
    <2>2. ASSUME NEW i \in 1 .. Len(rr) PROVE rr[i] = qq[gone + i]
      <3> HIDE DEF r, q, qq, rr
      <3>1. CASE i = Len(r) + 1
        <4>1. gone + i = Len(q) + 1 BY <1>3, <1>5, <3>1
        <4> QED BY <1>11, <3>1, <4>1
      <3>2. CASE i # Len(r) + 1
        <4>1. i \in 1 .. Len(r) BY <1>3, <1>11, <3>2
        <4>2. gone + i \in 1 .. Len(q) BY <1>3, <1>5, <4>1
        <4>3. rr[i] = r[i] /\ qq[gone + i] = q[gone + i] BY <1>11, <4>1, <4>2
        <4> QED BY <1>3, <4>1, <4>3
      <3> QED BY <3>1, <3>2
    <2>3. ASSUME NEW i \in 1 .. gone PROVE now' - qq[i] > Minute
      <3> HIDE DEF r, q, qq, rr
      <3>1. i \in 1 .. Len(q) BY <1>3, <1>5
      <3>2. qq[i] = q[i] BY <1>11, <3>1
      <3> QED BY <1>1, <1>3, <3>2
    <2>4. LastOf(rr, qq, now')
      <3> DEFINE g == Len(qq) - Len(rr)
      <3>1. g = gone BY <2>1
      <3> HIDE DEF r, q, qq, rr, g
      <3>2. g >= 0 /\ (\A i \in 1 .. Len(rr) : rr[i] = qq[g + i]) /\ \A i \in 1 .. g : now' - qq[i] > Minute
        BY <2>1, <2>2, <2>3, <3>1, Zenon
      <3> QED BY <3>2, Zenon DEF LastOf, g
    <2> QED BY <2>4 DEF Counted
  <1>13. Spaced(p)'
    <2> HIDE DEF r, q
    <2>1. \A i \in 1 .. Len(qq) : qq[i] \in Nat /\ qq[i] <= now
      <3> HIDE DEF qq
      <3>1. \A i \in 1 .. Len(q) : q[i] <= now BY <1>6 DEF Spaced, q
      <3> QED BY <1>4, <1>5, <1>11, <3>1
    <2>2. ASSUME NEW i \in 1 .. Len(qq), NEW j \in 1 .. Len(qq), i <= j PROVE qq[i] <= qq[j]
      <3> HIDE DEF qq
      <3>1. CASE j = Len(q) + 1 BY <1>11, <2>1, <3>1
      <3>2. CASE j # Len(q) + 1
        <4>1. i \in 1 .. Len(q) /\ j \in 1 .. Len(q) BY <1>5, <1>11, <2>2, <3>2
        <4>2. q[i] <= q[j] BY <1>6, <2>2, <4>1 DEF Spaced, q
        <4> QED BY <1>11, <4>1, <4>2
      <3> QED BY <3>1, <3>2
    <2>3. ASSUME NEW i \in 1 .. Len(qq), NEW j \in 1 .. Len(qq), i + RateLimit <= j PROVE qq[j] - qq[i] > Minute
      <3> HIDE DEF qq
      <3>1. CASE j = Len(q) + 1
        <4>1. i \in 1 .. gone /\ i \in 1 .. Len(q) BY <1>2, <1>3, <1>4, <1>5, <1>11, <2>3, <3>1
        <4>2. qq[i] = q[i] /\ qq[j] = now BY <1>11, <3>1, <4>1
        <4> QED BY <1>3, <4>1, <4>2
      <3>2. CASE j # Len(q) + 1
        <4>1. i \in 1 .. Len(q) /\ j \in 1 .. Len(q) BY <1>4, <1>5, <1>11, <2>3, <3>2
        <4>2. q[j] - q[i] > Minute BY <1>6, <2>3, <4>1 DEF Spaced, q
        <4> QED BY <1>11, <4>1, <4>2
      <3> QED BY <3>1, <3>2
    <2> QED BY <1>1, <2>1, <2>2, <2>3 DEF Spaced
  <1>14. ASSUME NEW x \in Peers PROVE (Counted(x) /\ Spaced(x) /\ Len(hits[x]) <= RateLimit)'
    <2>1. CASE x = p
      <3>1. Len(rr) <= RateLimit
        <4> HIDE DEF r, rr
        <4> QED BY <1>2, <1>3, <1>4, <1>11
      <3> QED BY <1>12, <1>13, <2>1, <3>1
    <2>2. CASE x # p
      <3>1. accepted'[x] = accepted[x] /\ hits'[x] = hits[x] /\ now' = now BY <1>1, <2>2 DEF ApiInv
      <3>2. Counted(x) /\ Spaced(x) /\ Len(hits[x]) <= RateLimit BY DEF ApiInv
      <3>3. Counted(x)' BY <3>1, <3>2, Zenon DEF Counted
      <3>4. Spaced(x)' BY <3>1, <3>2 DEF Spaced
      <3> QED BY <3>1, <3>2, <3>3, <3>4
    <2> QED BY <2>1, <2>2
  <1>15. answer'.status # 429 /\ answer' \in Outcomes BY <1>1 DEF Outcomes
  <1> QED BY <1>1, <1>4, <1>9, <1>14, <1>15 DEF ApiInv

\* A request refused for its rate finds the minute full.
LEMMA RefusedInv ==
    ASSUME ApiInv, RateLimit > 0, NEW p \in Peers, NEW token \in BOOLEAN, Request(p, token),
           Status(p, token) = 429
    PROVE  ApiInv'
  <1> DEFINE r == Recent(hits[p])
             q == accepted[p]
             gone == Len(q) - Len(r)
  <1>1. /\ answer' = [peer |-> p, status |-> 429] /\ now' = now /\ accepted' = accepted
        /\ hits' = [hits EXCEPT ![p] = Recent(@)]
    BY DEF Request
  <1>2. Len(r) >= RateLimit BY DEF Status
  <1>3. /\ r \in Times /\ Len(r) <= Len(hits[p]) /\ Len(r) <= Len(q) /\ Len(r) \in Nat
        /\ \A i \in 1 .. Len(r) : r[i] = q[gone + i] /\ now - r[i] <= Minute
        /\ \A i \in 1 .. gone : now - q[i] > Minute
    BY RecentCounted
  <1>4. /\ Len(hits[p]) <= RateLimit /\ Spaced(p) /\ q \in Times /\ hits[p] \in Times /\ RateLimit \in Nat
    BY ApiAssumption DEF ApiInv
  <1>5. Len(q) \in Nat /\ Len(hits[p]) \in Nat BY <1>4, LenProperties DEF Times
  <1>6. hits'[p] = r /\ accepted'[p] = q BY <1>1 DEF ApiInv
  <1>7. Len(r) = RateLimit
    <2> HIDE DEF r
    <2> QED BY <1>2, <1>3, <1>4, <1>5
  <1>8. hits' \in [Peers -> Times] BY <1>1, <1>3 DEF ApiInv
  <1>9. ASSUME NEW x \in Peers PROVE (Counted(x) /\ Spaced(x) /\ Len(hits[x]) <= RateLimit)'
    <2>1. CASE x = p
      <3>1. gone >= 0
        <4> HIDE DEF r, q
        <4> QED BY <1>3, <1>5
      <3>2. Counted(p)'
        <4>1. gone >= 0 /\ (\A i \in 1 .. Len(r) : r[i] = q[gone + i]) /\ \A i \in 1 .. gone : now' - q[i] > Minute
          BY <1>1, <1>3, <3>1
        <4> HIDE DEF r, q
        <4> QED BY <1>6, <4>1 DEF Counted, LastOf
      <3>3. Spaced(p)' BY <1>1, <1>4 DEF Spaced
      <3>4. Len(hits'[p]) <= RateLimit
        <4> HIDE DEF r
        <4> QED BY <1>4, <1>6, <1>7
      <3> QED BY <2>1, <3>2, <3>3, <3>4
    <2>2. CASE x # p
      <3>1. hits'[x] = hits[x] /\ accepted'[x] = accepted[x] /\ now' = now BY <1>1, <2>2 DEF ApiInv
      <3>2. Counted(x) /\ Spaced(x) /\ Len(hits[x]) <= RateLimit BY DEF ApiInv
      <3>3. Counted(x)' BY <3>1, <3>2, Zenon DEF Counted
      <3>4. Spaced(x)' BY <3>1, <3>2 DEF Spaced
      <3> QED BY <3>1, <3>2, <3>3, <3>4
    <2> QED BY <2>1, <2>2
  <1>10. Len(hits'[p]) = RateLimit /\ \A i \in 1 .. RateLimit : now' - hits'[p][i] <= Minute
    <2>1. \A i \in 1 .. Len(r) : now - r[i] <= Minute BY <1>3
    <2> HIDE DEF r
    <2> QED BY <1>1, <1>6, <1>7, <2>1
  <1>11. answer'.peer = p /\ answer' \in Outcomes BY <1>1 DEF Outcomes
  <1> QED BY <1>1, <1>8, <1>9, <1>10, <1>11 DEF ApiInv

LEMMA ApiNextInv == ASSUME ApiInv, RateLimit > 0, [ApiNext]_apiVars PROVE ApiInv'
  <1>1. now \in Nat BY DEF ApiInv
  <1>2. ASSUME NEW p \in Peers, Health(p) PROVE ApiInv'
    <2>1. hits' = hits /\ accepted' = accepted /\ now' = now BY <1>2 DEF Health
    <2>2. answer'.status = 0 /\ answer' \in Outcomes BY <1>2 DEF Health, Outcomes
    <2> QED BY <1>1, <2>2, <2>1, QueuesKept
  <1>3. ASSUME NEW p \in Peers, NEW token \in BOOLEAN, Request(p, token) PROVE ApiInv'
    <2>1. CASE Status(p, token) = 200 BY <1>3, <2>1, AcceptedInv
    <2>2. CASE Status(p, token) = 429 BY <1>3, <2>2, RefusedInv
    <2>3. CASE Status(p, token) # 200 /\ Status(p, token) # 429
      <3>1. answer' = [peer |-> p, status |-> Status(p, token)] /\ hits' = hits /\ accepted' = accepted /\ now' = now
        BY <1>3, <2>3 DEF Request
      <3>2. answer'.status # 429 /\ answer' \in Outcomes
        <4>1. Status(p, token) \in {0, 200, 401, 403, 429}
          <5> DEFINE full == RateLimit > 0 /\ Len(Recent(hits[p])) >= RateLimit
          <5>1. Status(p, token) = IF p \notin Allowed THEN 403 ELSE IF ~token THEN 401 ELSE IF full THEN 429 ELSE 200
            BY DEF Status
          <5> HIDE DEF full
          <5> QED BY <5>1
        <4> QED BY <2>3, <3>1, <4>1 DEF Outcomes
      <3> QED BY <1>1, <3>1, <3>2, QueuesKept
    <2> QED BY <2>1, <2>2, <2>3
  <1>4. CASE ApiTick
    <2>1. hits' = hits /\ accepted' = accepted /\ now' = now + 1 BY <1>4 DEF ApiTick
    <2>2. answer'.status # 429 /\ answer' \in Outcomes
      <3>1. answer' = [answer EXCEPT !.status = 0] BY <1>4 DEF ApiTick
      <3> QED BY <3>1 DEF ApiInv, Outcomes
    <2> QED BY <1>1, <2>1, <2>2, QueuesKept
  <1>5. CASE UNCHANGED apiVars
    <2>1. hits' = hits /\ accepted' = accepted /\ now' = now /\ answer' = answer BY <1>5 DEF apiVars
    <2> QED BY <2>1 DEF ApiInv, Counted, LastOf, Spaced
  <1> QED BY <1>2, <1>3, <1>4, <1>5 DEF ApiNext

\* The invariant says what a refusal means, and how many acceptances a minute can hold.
LEMMA ApiInvRate == ApiInv /\ RateLimit > 0 => RateTrue
  <1> SUFFICES ASSUME ApiInv, RateLimit > 0 PROVE RateTrue OBVIOUS
  <1>1. now \in Nat /\ Minute \in Nat /\ RateLimit \in Nat BY ApiAssumption DEF ApiInv
  <1>2. ASSUME NEW p \in Peers, NEW t \in 0 .. now PROVE Cardinality(Within(p, t - Minute, t)) <= RateLimit
    <2> DEFINE S == Within(p, t - Minute, t)
               q == accepted[p]
    <2>1. q \in Times /\ Spaced(p) BY DEF ApiInv
    <2>2. Len(q) \in Nat /\ DOMAIN q = 1 .. Len(q) /\ \A i \in 1 .. Len(q) : q[i] \in Nat
      BY <2>1, LenProperties, ElementOfSeq DEF Times
    <2>3. S = {i \in 1 .. Len(q) : t - Minute <= q[i] /\ q[i] <= t} BY <2>2 DEF Within
    <2>4. \A i, j \in 1 .. Len(q) : i + RateLimit <= j => q[j] - q[i] > Minute BY <2>1 DEF Spaced
    <2> HIDE DEF S, q
    <2>5. ASSUME S = {} PROVE Cardinality(S) <= RateLimit
      <3>1. Cardinality({}) = 0 BY FS_EmptySet
      <3> QED BY <1>1, <2>5, <3>1
    <2>6. ASSUME S # {} PROVE Cardinality(S) <= RateLimit
      <3>1. S \in SUBSET Nat BY <2>2, <2>3
      <3>2. PICK m \in S : \A i \in S : m <= i BY <2>6, <3>1, LeastNatural
      <3>3. ASSUME NEW i \in S PROVE i \in m .. (m + RateLimit) - 1
        <4>1. /\ i \in 1 .. Len(q) /\ m \in 1 .. Len(q) /\ q[i] <= t /\ t - Minute <= q[m]
              /\ q[i] \in Nat /\ q[m] \in Nat /\ m <= i /\ t \in Int
          BY <2>2, <2>3, <3>2
        <4>2. ~(q[i] - q[m] > Minute) BY <1>1, <4>1
        <4>3. ~(m + RateLimit <= i) BY <2>4, <4>1, <4>2
        <4> QED BY <1>1, <2>2, <4>1, <4>3
      <3>4. S \subseteq m .. (m + RateLimit) - 1 BY <3>3
      <3>5. m \in Int /\ (m + RateLimit) - 1 \in Int BY <1>1, <3>1, <3>2
      <3>6. IsFiniteSet(m .. (m + RateLimit) - 1) /\ Cardinality(m .. (m + RateLimit) - 1) = RateLimit
        <4>1. Cardinality(m .. (m + RateLimit) - 1)
                  = IF m > (m + RateLimit) - 1 THEN 0 ELSE ((m + RateLimit) - 1) - m + 1
          BY <3>5, FS_Interval
        <4>2. IsFiniteSet(m .. (m + RateLimit) - 1) BY <3>5, FS_Interval
        <4> QED BY <1>1, <3>5, <4>1, <4>2
      <3>7. Cardinality(S) <= Cardinality(m .. (m + RateLimit) - 1) BY <3>4, <3>6, FS_Subset
      <3> QED BY <3>6, <3>7
    <2>7. Cardinality(S) <= RateLimit BY <2>5, <2>6
    <2> QED BY <2>7 DEF S
  <1>3. ASSUME answer.status = 429 PROVE Cardinality(Within(answer.peer, now - Minute, now)) = RateLimit
    <2> DEFINE p == answer.peer
               q == accepted[p]
               h == hits[p]
               gone == Len(q) - Len(h)
    <2>1. /\ p \in Peers /\ Len(h) = RateLimit /\ \A i \in 1 .. RateLimit : now - h[i] <= Minute
      BY <1>3 DEF ApiInv
    <2>2. q \in Times /\ Spaced(p) /\ Counted(p) BY <2>1 DEF ApiInv
    <2>3. Len(q) \in Nat /\ DOMAIN q = 1 .. Len(q) /\ \A i \in 1 .. Len(q) : q[i] \in Nat
      BY <2>2, LenProperties, ElementOfSeq DEF Times
    <2>4. gone >= 0 /\ (\A i \in 1 .. Len(h) : h[i] = q[gone + i]) /\ \A i \in 1 .. gone : now - q[i] > Minute
      BY <2>2 DEF Counted, LastOf
    <2>5. \A i \in 1 .. Len(q) : q[i] <= now BY <2>2 DEF Spaced
    <2>6. Within(p, now - Minute, now) = {i \in 1 .. Len(q) : now - Minute <= q[i] /\ q[i] <= now}
      BY <2>3 DEF Within
    <2> HIDE DEF p, q, h
    <2>7. ASSUME NEW i \in 1 .. Len(q) PROVE now - Minute <= q[i] <=> i \in gone + 1 .. Len(q)
      <3>1. CASE i <= gone
        <4>1. now - q[i] > Minute BY <2>3, <2>4, <3>1
        <4> QED BY <1>1, <2>1, <2>3, <3>1, <4>1
      <3>2. CASE i > gone
        <4>1. i - gone \in 1 .. RateLimit /\ gone + (i - gone) = i BY <1>1, <2>1, <2>3, <3>2
        <4>2. now - q[i] <= Minute BY <2>1, <2>4, <4>1
        <4> QED BY <1>1, <2>1, <2>3, <3>2, <4>2
      <3> QED BY <1>1, <2>1, <2>3, <3>1, <3>2
    <2>8. Within(p, now - Minute, now) = gone + 1 .. Len(q)
      <3>1. gone + 1 .. Len(q) \subseteq 1 .. Len(q) BY <1>1, <2>1, <2>3, <2>4
      <3> QED BY <2>5, <2>6, <2>7, <3>1
    <2>9. gone + 1 \in Int /\ Len(q) \in Int /\ Len(q) - (gone + 1) + 1 = RateLimit /\ gone + 1 <= Len(q)
      BY <1>1, <2>1, <2>3
    <2>10. Cardinality(gone + 1 .. Len(q)) = IF gone + 1 > Len(q) THEN 0 ELSE Len(q) - (gone + 1) + 1
      BY <2>9, FS_Interval
    <2>11. Cardinality(gone + 1 .. Len(q)) = RateLimit BY <1>1, <2>9, <2>10
    <2> QED BY <2>8, <2>11 DEF p
  <1> QED BY <1>2, <1>3 DEF RateTrue

\* The rate limit holds over any minute, and nobody is refused below it.
THEOREM RateIsTrue == ApiSpec => []RateTrue
  <1>1. CASE RateLimit > 0
    <2>1. ApiInit => ApiInv BY <1>1, ApiInitInv
    <2>2. ApiInv /\ [ApiNext]_apiVars => ApiInv' BY <1>1, ApiNextInv
    <2>3. ApiInv => RateTrue BY <1>1, ApiInvRate
    <2> QED BY <2>1, <2>2, <2>3, PTL DEF ApiSpec
  <1>2. CASE ~(RateLimit > 0)
    <2>1. RateTrue BY <1>2 DEF RateTrue
    <2> QED BY <2>1, PTL
  <1> QED BY <1>1, <1>2

=============================================================================
