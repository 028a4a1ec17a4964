--------------------------- MODULE TgEngineProofs ---------------------------
(***************************************************************************)
(* TgEngine implements TgLeg, for any number of calls and of coroutines    *)
(* that end them: every step of the engine changes what the manager sees   *)
(* of at most one call, and in a way TgLeg allows.  The second half is     *)
(* about the ends of calls: what a call that is over, or that raises or    *)
(* returns to the manager, is at Telegram and in NTgCalls.                 *)
(***************************************************************************)
EXTENDS TgEngine, TLAPS

-----------------------------------------------------------------------------
(* Types.                                                                  *)

LEMMA NativeT ==
  ASSUME TypeOK, NEW from \in Stage, NEW to \in Stage, NEW c \in Calls, Native(from, to, c)
  PROVE  ntg' \in [owner : Calls \cup {None}, at : Stage]
  BY DEF TypeOK, Native, Stage

LEMMA CreateT ==
  ASSUME TypeOK, NEW c \in Calls, Create(c)
  PROVE  /\ ntg' \in [owner : Calls \cup {None}, at : Stage]
         /\ pc' \in [Calls -> PcState]
  BY DEF TypeOK, Create, Goes, Stage, PcState, SetupAt

LEMMA StateT ==
  ASSUME TypeOK, NEW c \in Calls, NEW s \in TgCallState, State(c, s)
  PROVE  st' \in [Calls -> TgCallState]
  BY DEF TypeOK, State

LEMMA GoesT ==
  ASSUME TypeOK, NEW c \in Calls, NEW s \in PcState, Goes(c, s)
  PROVE  pc' \in [Calls -> PcState]
  BY DEF TypeOK, Goes

LEMMA BeginEndT ==
  ASSUME TypeOK, NEW c \in Calls, NEW local \in BOOLEAN, NEW own \in BOOLEAN,
         BeginEnd(c, local, own)
  PROVE  /\ ender' \in [Enders -> [call : Calls \cup {None}, at : EndAt, own : BOOLEAN]]
         /\ ntg' \in [owner : Calls \cup {None}, at : Stage]
  <1>1. PICK e \in Enders :
          LET at == IF local /\ known[c] THEN "discard" ELSE "stop"
          IN  /\ ender' = [ender EXCEPT ![e] = [call |-> c, at |-> at, own |-> own]]
              /\ ntg' = IF at = "stop" THEN NoSession ELSE ntg
    BY DEF BeginEnd
  <1>2. NoSession \in [owner : Calls \cup {None}, at : Stage]
    BY DEF NoSession, Stage
  <1> QED
    BY <1>1, <1>2 DEF TypeOK, EndAt

LEMMA FailT ==
  ASSUME TypeOK, NEW c \in Calls, Fail(c)
  PROVE  /\ ender' \in [Enders -> [call : Calls \cup {None}, at : EndAt, own : BOOLEAN]]
         /\ ntg' \in [owner : Calls \cup {None}, at : Stage]
         /\ pc' \in [Calls -> PcState]
  <1>1. CASE st[c] = "ended" /\ Goes(c, "raised") /\ UNCHANGED <<ender, ntg>>
    BY <1>1, GoesT DEF TypeOK, PcState
  <1>2. CASE BeginEnd(c, TRUE, TRUE) /\ Goes(c, "failing")
    BY <1>2, GoesT, BeginEndT DEF PcState, SetupAt
  <1> QED
    BY <1>1, <1>2 DEF Fail

LEMMA SetupType ==
  ASSUME TypeOK, NEW c \in Calls, SetupStep(c)
  PROVE  TypeOK'
  <1> USE DEF TypeOK
  <1>1. CASE Configure(c)
    BY <1>1, GoesT DEF Configure, PcState, SetupAt
  <1>2. CASE InitExchange(c)
    BY <1>2, GoesT, NativeT DEF InitExchange, PcState, SetupAt, Stage
  <1>3. CASE Request(c)
    <2>1. pc' \in [Calls -> PcState]
      BY <1>3, GoesT DEF Request, PcState, SetupAt
    <2>2. st' \in [Calls -> TgCallState]
      BY <1>3, StateT DEF Request, TgCallState
    <2> QED
      BY <1>3, <2>1, <2>2 DEF Request, SrvState
  <1>4. CASE Requested(c)
    <2>1. pc' \in [Calls -> PcState]
      BY <1>4, GoesT DEF Requested, PcState, SetupAt
    <2> QED
      BY <1>4, <2>1 DEF Requested, SrvState
  <1>5. CASE Answered(c)
    <2>1. st' \in [Calls -> TgCallState]
      BY <1>5, StateT DEF Answered, TgCallState
    <2>2. CASE Native("exchanged", "keyed", c) /\ Goes(c, "keys") /\ UNCHANGED ender
      BY <1>5, <2>1, <2>2, GoesT, NativeT DEF Answered, PcState, SetupAt, Stage
    <2>3. CASE Fail(c)
      BY <1>5, <2>1, <2>3, FailT DEF Answered
    <2> QED
      BY <1>5, <2>2, <2>3 DEF Answered
  <1>6. CASE Confirm(c)
    BY <1>6, GoesT DEF Confirm, PcState, SetupAt
  <1>7. CASE Connect(c)
    <2>1. st' \in [Calls -> TgCallState]
      BY <1>7, StateT DEF Connect, TgCallState
    <2>2. srv' \in [Calls -> SrvState]
      BY <1>7 DEF Connect, SrvState
    <2>3. CASE Native("keyed", "connecting", c) /\ Goes(c, "media") /\ UNCHANGED ender
      BY <1>7, <2>1, <2>2, <2>3, GoesT, NativeT DEF Connect, PcState, SetupAt, Stage
    <2>4. CASE Fail(c)
      BY <1>7, <2>1, <2>2, <2>4, FailT DEF Connect
    <2> QED
      BY <1>7, <2>3, <2>4 DEF Connect
  <1>8. CASE Return(c)
    BY <1>8, GoesT DEF Return, PcState
  <1>9. CASE NativeError(c)
    BY <1>9, FailT DEF NativeError
  <1>10. CASE RpcError(c)
    <2>1. srv' \in [Calls -> SrvState]
      BY <1>10 DEF RpcError, SrvState
    <2> QED
      BY <1>10, <2>1, FailT DEF RpcError
  <1>11. CASE WaitFails(c)
    BY <1>11, FailT DEF WaitFails
  <1>12. CASE Offer(c)
    BY <1>12, GoesT DEF Offer, PcState
  <1> QED
    BY <1>1, <1>2, <1>3, <1>4, <1>5, <1>6, <1>7, <1>8, <1>9, <1>10, <1>11, <1>12 DEF SetupStep

LEMMA ManagerType ==
  ASSUME TypeOK, NEW c \in Calls, ManagerStep(c)
  PROVE  TypeOK'
  <1> USE DEF TypeOK
  <1>1. CASE Call(c)
    BY <1>1, CreateT DEF Call, TgCallState
  <1>2. CASE Accept(c)
    <2>1. CASE State(c, "accepting") /\ Create(c)
      BY <1>2, <2>1, CreateT, StateT DEF Accept, TgCallState
    <2>2. CASE Goes(c, "raised") /\ UNCHANGED <<st, ntg>>
      BY <1>2, <2>2, GoesT DEF Accept, PcState
    <2> QED
      BY <1>2, <2>1, <2>2 DEF Accept
  <1>3. CASE Hangup(c)
    BY <1>3, BeginEndT DEF Hangup
  <1>4. CASE TaskCancel(c)
    <2>1. pc' \in [Calls -> PcState]
      BY <1>4, GoesT DEF TaskCancel, PcState
    <2>2. Free \in [call : Calls \cup {None}, at : EndAt, own : BOOLEAN]
      BY DEF Free, EndAt
    <2> QED
      BY <1>4, <2>1, <2>2 DEF TaskCancel
  <1> QED
    BY <1>1, <1>2, <1>3, <1>4 DEF ManagerStep

LEMMA UpdateType ==
  ASSUME TypeOK, NEW c \in Calls, UpdateStep(c)
  PROVE  TypeOK'
  <1> USE DEF TypeOK
  <1>1. CASE UpdateWaiting(c)
    <2>1. st' \in [Calls -> TgCallState]
      BY <1>1, StateT DEF UpdateWaiting, TgCallState
    <2> QED
      BY <1>1, <2>1 DEF UpdateWaiting, Arrives
  <1>2. CASE UpdateAnswer(c)
    BY <1>2 DEF UpdateAnswer, Arrives, Future
  <1>3. CASE UpdateDiscarded(c)
    BY <1>3, BeginEndT DEF UpdateDiscarded, Arrives
  <1>4. CASE UpdateRequested(c)
    <2>1. CASE Engaged
      BY <1>4, <2>1 DEF UpdateRequested, Arrives, SrvState
    <2>2. CASE ~Engaged
      BY <1>4, <2>2, GoesT DEF UpdateRequested, Arrives, TgCallState, PcState
    <2> QED
      BY <2>1, <2>2
  <1> QED
    BY <1>1, <1>2, <1>3, <1>4 DEF UpdateStep

LEMMA PeerType ==
  ASSUME TypeOK, NEW c \in Calls, Peer(c)
  PROVE  TypeOK'
  <1>1. PICK from \in SUBSET SrvState, to \in SrvState,
             news \in SUBSET {"waiting", "accepted", "requested", "confirmed", "discarded"} :
          Server(c, from, to, news)
    BY DEF Peer, SrvState
  <1>2. {<<k, c>> : k \in news} \subseteq Updates
    BY DEF Updates
  <1> QED
    BY <1>1, <1>2 DEF TypeOK, Server

LEMMA EndType ==
  ASSUME TypeOK, NEW e \in Enders, EndStep(e), ender[e].at # "idle" => ender[e].call \in Calls
  PROVE  TypeOK'
  <1> USE DEF TypeOK
  <1>1. CASE Discarded(e)
    <2>1. NoSession \in [owner : Calls \cup {None}, at : Stage]
      BY DEF NoSession, Stage
    <2> QED
      BY <1>1, <2>1 DEF Discarded, EndAt, SrvState
  <1>2. CASE Stopped(e)
    <2> DEFINE c == ender[e].call
    <2>1. c \in Calls
      BY <1>2 DEF Stopped
    <2>2. Free \in [call : Calls \cup {None}, at : EndAt, own : BOOLEAN]
      BY DEF Free, EndAt
    <2>3. st' \in [Calls -> TgCallState]
      BY <1>2, <2>1, StateT DEF Stopped, TgCallState
    <2>4. pc' \in [Calls -> PcState]
      BY <1>2, <2>1, GoesT DEF Stopped, PcState
    <2>5. answer' \in [Calls -> Future] /\ media' \in [Calls -> Future]
      BY <1>2, <2>1 DEF Stopped, FailOpen, Future
    <2> QED
      BY <1>2, <2>2, <2>3, <2>4, <2>5 DEF Stopped
  <1> QED
    BY <1>1, <1>2 DEF EndStep

LEMMA MediaType ==
  ASSUME TypeOK, MediaUp \/ MediaFails
  PROVE  TypeOK'
  <1> USE DEF TypeOK
  <1>1. CASE MediaUp
    <2>1. ntg' \in [owner : Calls \cup {None}, at : Stage]
      BY <1>1 DEF MediaUp, Stage
    <2>2. CASE calls = None
      BY <1>1, <2>1, <2>2 DEF MediaUp
    <2>3. CASE calls # None
      BY <1>1, <2>1, <2>3, StateT DEF MediaUp, Future, TgCallState
    <2> QED
      BY <2>2, <2>3
  <1>2. CASE MediaFails
    BY <1>2, BeginEndT DEF MediaFails, Engaged
  <1> QED
    BY <1>1, <1>2

-----------------------------------------------------------------------------
(* The invariant.                                                          *)

\* The call that is active is the one in TgCallEngine.calls.
OneActive ==
    /\ \A c \in Calls : Active(c) => calls = c
    /\ calls # None => Active(calls)

\* A call that has not been made has nothing of a call, and whoever ends a call has one.
Unmade ==
    /\ \A c \in In : srv[c] = "none" \/ <<"requested", c>> \in upd => st[c] = "absent"
    /\ \A c \in Calls : <<"requested", c>> \in upd => c \in In /\ srv[c] # "none"
    /\ \A c \in Calls : (st[c] = "absent") = (pc[c] = "idle")
    /\ \A e \in Enders : IF ender[e].call = None THEN ender[e] = Free
                         ELSE st[ender[e].call] # "absent" /\ ender[e].at # "idle"

Inv == TypeOK /\ OneActive /\ Unmade

-----------------------------------------------------------------------------
(* What a step does to the call as the manager sees it.                    *)

LEMMA LegSame ==
  ASSUME NEW d \in Calls, st'[d] = st[d], Ending(d)' = Ending(d),
         (pc'[d] = "returned") = (pc[d] = "returned")
  PROVE  LegOf(d)' = LegOf(d)
  BY DEF LegOf, Active

\* One call changes as TgLeg allows, the others stay.
LEMMA Simulates ==
  ASSUME NEW c \in Calls,
         \A d \in Calls : d # c => LegOf(d)' = LegOf(d),
         \/ LegOf(c)' = LegOf(c)
         \/ LegOf(c) = "none" /\ LegOf(c)' = "setup" /\ \A d \in Calls : LegOf(d) \in {"none", "ended"}
         \/ LegOf(c) = "setup" /\ LegOf(c)' = "up"
         \/ LegOf(c) \in {"setup", "up"} /\ LegOf(c)' = "closing"
         \/ LegOf(c) = "closing" /\ LegOf(c)' = "ended"
  PROVE  [L!LegNext]_Leg
  <1>1. /\ Leg \in [Calls -> {LegOf(d) : d \in Calls}]
        /\ Leg' = [Leg EXCEPT ![c] = LegOf(c)']
    BY DEF Leg
  <1>2. \A d \in Calls : Leg[d] = LegOf(d)
    BY DEF Leg
  <1>3. CASE LegOf(c)' = LegOf(c)
    BY <1>1, <1>2, <1>3
  <1>4. CASE LegOf(c) = "none" /\ LegOf(c)' = "setup" /\ \A d \in Calls : LegOf(d) \in {"none", "ended"}
    BY <1>1, <1>2, <1>4 DEF L!LegNext, L!Start, L!Become
  <1>5. CASE LegOf(c) = "setup" /\ LegOf(c)' = "up"
    BY <1>1, <1>2, <1>5 DEF L!LegNext, L!ComesUp, L!Become
  <1>6. CASE LegOf(c) \in {"setup", "up"} /\ LegOf(c)' = "closing"
    BY <1>1, <1>2, <1>6 DEF L!LegNext, L!IsTakenDown, L!Become
  <1>7. CASE LegOf(c) = "closing" /\ LegOf(c)' = "ended"
    BY <1>1, <1>2, <1>7 DEF L!LegNext, L!Ends, L!Become
  <1> QED
    BY <1>3, <1>4, <1>5, <1>6, <1>7

\* _end_call begins for a call that is there.
Began(c) == \E e \in Enders, at \in {"discard", "stop"}, own \in BOOLEAN :
    /\ ender[e] = Free
    /\ ender' = [ender EXCEPT ![e] = [call |-> c, at |-> at, own |-> own]]

LEMMA BeginEndBegan ==
  ASSUME NEW c \in Calls, NEW local \in BOOLEAN, NEW own \in BOOLEAN, BeginEnd(c, local, own)
  PROVE  Began(c) /\ st[c] # "ended"
  BY DEF BeginEnd, Began

LEMMA BeganEnding ==
  ASSUME Inv, NEW c \in Calls, Began(c), Active(c)
  PROVE  /\ Ending(c)'
         /\ \A d \in Calls : d # c => Ending(d)' = Ending(d)
         /\ \A e \in Enders : IF ender'[e].call = None THEN ender'[e] = Free
                ELSE ender'[e].at # "idle" /\ (ender'[e].call = c \/ ender'[e] = ender[e])
  <1>1. PICK e \in Enders, at \in {"discard", "stop"}, own \in BOOLEAN :
          /\ ender[e] = Free
          /\ ender' = [ender EXCEPT ![e] = [call |-> c, at |-> at, own |-> own]]
    BY DEF Began
  <1>2. /\ ender'[e] = [call |-> c, at |-> at, own |-> own]
        /\ \A f \in Enders : f # e => ender'[f] = ender[f]
        /\ ender[e].call = None
    BY <1>1 DEF Inv, TypeOK, Free
  <1>3. None \notin Calls
    BY CallsAssumption
  <1> QED
    BY <1>2, <1>3 DEF Inv, Unmade, Ending

\* A step after which c is the only call that may have changed, and only from one state of an
\* active call to another, or begun to end.
Works(c) ==
    /\ calls' = calls
    /\ \A d \in Calls : d # c => st'[d] = st[d] /\ pc'[d] = pc[d]
    /\ st[c] # "absent" /\ st'[c] # "absent" /\ (st'[c] = "ended") = (st[c] = "ended")
    /\ pc'[c] # "idle"
    /\ \A d \in In : srv'[d] = "none" => srv[d] = "none"
    /\ \A d \in Calls : <<"requested", d>> \in upd' => <<"requested", d>> \in upd
    /\ \/ UNCHANGED ender /\ (pc[c] = "returned" => pc'[c] = "returned")
       \/ Began(c) /\ Active(c)

LEMMA WorksStep ==
  ASSUME Inv, NEW c \in Calls, Works(c)
  PROVE  OneActive' /\ Unmade' /\ [L!LegNext]_Leg
  <1>1. OneActive'
    <2>1. \A d \in Calls : Active(d)' = Active(d)
      BY DEF Works, Active
    <2> QED
      BY <2>1 DEF Inv, TypeOK, OneActive, Works
  <1>2. CASE UNCHANGED ender /\ (pc[c] = "returned" => pc'[c] = "returned")
    <2>1. Unmade'
      BY <1>2 DEF Inv, TypeOK, Unmade, Works, Calls
    <2>2. \A d \in Calls : Ending(d)' = Ending(d)
      BY <1>2 DEF Ending
    <2>3. \A d \in Calls : d # c => LegOf(d)' = LegOf(d)
      BY <2>2, LegSame DEF Works
    <2>4. LegOf(c)' = LegOf(c) \/ (LegOf(c) = "setup" /\ LegOf(c)' = "up")
      BY <1>2, <2>2 DEF LegOf, Active, Works
    <2> QED
      BY <1>1, <2>1, <2>3, <2>4, Simulates
  <1>3. CASE Began(c) /\ Active(c)
    <2>1. Unmade'
      <3>1. \A e \in Enders : IF ender'[e].call = None THEN ender'[e] = Free
              ELSE st'[ender'[e].call] # "absent" /\ ender'[e].at # "idle"
        <4> SUFFICES ASSUME NEW e \in Enders, ender'[e].call # None
                     PROVE  st'[ender'[e].call] # "absent" /\ ender'[e].at # "idle"
          BY <1>3, BeganEnding
        <4>1. CASE ender'[e].call = c
          BY <1>3, <4>1, BeganEnding DEF Works
        <4>2. CASE ender'[e] = ender[e]
          BY <1>3, <4>2, BeganEnding DEF Works, Inv, Unmade, TypeOK
        <4> QED
          BY <1>3, <4>1, <4>2, BeganEnding
      <3> QED
        BY <3>1 DEF Inv, Unmade, Works, Calls
    <2>2. \A d \in Calls : d # c => LegOf(d)' = LegOf(d)
      BY <1>3, BeganEnding, LegSame DEF Works
    <2>3. LegOf(c) \in {"setup", "up", "closing"} /\ LegOf(c)' = "closing"
      BY <1>3, BeganEnding DEF LegOf, Active, Works
    <2> QED
      BY <1>1, <2>1, <2>2, <2>3, Simulates
  <1> QED
    BY <1>2, <1>3 DEF Works


\* A step that leaves the calls of the engine alone.
Still ==
    /\ UNCHANGED <<calls, st, pc>>
    /\ \A d \in In : srv'[d] = "none" \/ <<"requested", d>> \in upd' =>
            srv[d] = "none" \/ <<"requested", d>> \in upd
    /\ \A d \in Calls : <<"requested", d>> \in upd' => d \in In /\ srv'[d] # "none"
    /\ \A e \in Enders :
        /\ ender'[e].call = ender[e].call
        /\ \/ ender'[e] = ender[e]
           \/ ender[e].call # None /\ ender'[e].at # "idle"

LEMMA StillStep ==
  ASSUME Inv, Still
  PROVE  OneActive' /\ Unmade' /\ [L!LegNext]_Leg
  <1>1. OneActive'
    BY DEF Inv, OneActive, Still, Active
  <1>2. Unmade'
    BY DEF Inv, Unmade, Still
  <1>3. \A d \in Calls : LegOf(d)' = LegOf(d)
    BY LegSame DEF Still, Ending
  <1> QED
    BY <1>1, <1>2, <1>3 DEF Leg

LEMMA WorksSetup ==
  ASSUME Inv, NEW c \in Calls, SetupStep(c)
  PROVE  Works(c)
  <1> USE DEF Works
  <1>1. /\ calls' = calls /\ upd' = upd
        /\ \A d \in In : srv'[d] = "none" => srv[d] = "none"
    BY DEF SetupStep, Configure, InitExchange, Request, Requested, Answered, Confirm, Connect,
           Return, NativeError, RpcError, WaitFails, Offer, Calls, Inv, TypeOK
  <1>2. pc[c] # "idle" /\ pc[c] # "returned"
    BY DEF SetupStep, Configure, InitExchange, Request, Requested, Answered, Confirm, Connect,
           Return, NativeError, RpcError, WaitFails, Offer
  <1>3. st[c] # "absent"
    BY <1>2 DEF Inv, Unmade
  <1>4. \/ st' = st
        \/ \E s \in {"requesting", "accepting", "connecting"} : State(c, s)
    BY DEF SetupStep, Configure, InitExchange, Request, Requested, Answered, Confirm, Connect,
           Return, NativeError, RpcError, WaitFails, Offer
  <1>5. \/ Fail(c)
        \/ UNCHANGED ender /\ \E label \in PcState \ {"idle"} : Goes(c, label)
    BY DEF SetupStep, Configure, InitExchange, Request, Requested, Answered, Confirm, Connect,
           Return, NativeError, RpcError, WaitFails, Offer, PcState, SetupAt
  <1>6. /\ \A d \in Calls : d # c => st'[d] = st[d]
        /\ st'[c] # "absent" /\ (st'[c] = "ended") = (st[c] = "ended")
    BY <1>3, <1>4 DEF State, Inv, TypeOK
  <1>7. CASE Fail(c)
    <2>1. \/ UNCHANGED ender /\ Goes(c, "raised")
          \/ Began(c) /\ st[c] # "ended" /\ Goes(c, "failing")
      BY <1>7, BeginEndBegan DEF Fail
    <2>2. \/ UNCHANGED ender
          \/ Began(c) /\ Active(c)
      BY <2>1, <1>3 DEF Active
    <2>3. pc'[c] # "idle" /\ \A d \in Calls : d # c => pc'[d] = pc[d]
      BY <2>1 DEF Goes, Inv, TypeOK
    <2> QED
      BY <1>1, <1>2, <1>3, <1>6, <2>2, <2>3
  <1>8. CASE UNCHANGED ender /\ \E label \in PcState \ {"idle"} : Goes(c, label)
    <2>1. pc'[c] # "idle" /\ \A d \in Calls : d # c => pc'[d] = pc[d]
      BY <1>8 DEF Goes, Inv, TypeOK
    <2> QED
      BY <1>1, <1>2, <1>3, <1>6, <1>8, <2>1
  <1> QED
    BY <1>5, <1>7, <1>8


\* Steps that begin to end the call the engine has, or change its state.
LEMMA WorksOther ==
  ASSUME Inv, NEW c \in Calls, Active(c),
         UNCHANGED <<calls, pc, srv>>, upd' \subseteq upd,
         \/ UNCHANGED <<st, ender>>
         \/ UNCHANGED ender /\ \E s \in {"ringing", "connected"} : State(c, s)
         \/ UNCHANGED st /\ \E local, own \in BOOLEAN : BeginEnd(c, local, own)
  PROVE  Works(c)
  <1>1. st[c] # "absent" /\ pc[c] # "idle"
    BY DEF Active, Inv, Unmade
  <1>2. CASE UNCHANGED <<st, ender>>
    BY <1>1, <1>2 DEF Works
  <1>3. CASE UNCHANGED ender /\ \E s \in {"ringing", "connected"} : State(c, s)
    <2>1. /\ \A d \in Calls : d # c => st'[d] = st[d]
          /\ st'[c] # "absent" /\ (st'[c] = "ended") = (st[c] = "ended")
      BY <1>1, <1>3 DEF State, Inv, TypeOK, Active
    <2> QED
      BY <1>1, <1>3, <2>1 DEF Works
  <1>4. CASE UNCHANGED st /\ \E local, own \in BOOLEAN : BeginEnd(c, local, own)
    <2>1. Began(c)
      BY <1>4, BeginEndBegan
    <2> QED
      BY <1>1, <1>4, <2>1 DEF Works
  <1> QED
    BY <1>2, <1>3, <1>4

\* A call is made: it takes the place of none that is active.
LEMMA MadeStep ==
  ASSUME Inv, NEW c \in Calls, ~Engaged, st[c] = "absent", calls' = c,
         st'[c] \in {"new", "incoming"}, pc'[c] \notin {"idle", "returned"},
         \A d \in Calls : d # c => st'[d] = st[d] /\ pc'[d] = pc[d],
         UNCHANGED ender,
         \A d \in In : srv'[d] = srv[d],
         upd' \subseteq upd, c \in In => srv[c] # "none" /\ <<"requested", c>> \notin upd'
  PROVE  OneActive' /\ Unmade' /\ [L!LegNext]_Leg
  <1>1. \A d \in Calls : ~Active(d)
    BY CallsAssumption DEF Inv, OneActive, Engaged
  <1>2. OneActive'
    BY <1>1 DEF Active, OneActive
  <1>3. Unmade'
    BY DEF Inv, TypeOK, Unmade, Calls
  <1>4. \A d \in Calls : Ending(d)' = Ending(d)
    BY DEF Ending
  <1>5. ~Ending(c)
    BY CallsAssumption DEF Ending, Inv, Unmade
  <1>6. \A d \in Calls : LegOf(d) \in {"none", "ended"}
    BY <1>1 DEF LegOf, Active
  <1>7. LegOf(c) = "none" /\ LegOf(c)' = "setup"
    BY <1>4, <1>5 DEF LegOf, Active
  <1>8. \A d \in Calls : d # c => LegOf(d)' = LegOf(d)
    BY <1>4, LegSame
  <1> QED
    BY <1>2, <1>3, <1>6, <1>7, <1>8, Simulates

LEMMA StoppedStep ==
  ASSUME Inv, NEW e \in Enders, Stopped(e)
  PROVE  OneActive' /\ Unmade' /\ [L!LegNext]_Leg
  <1>1. ender[e].at = "stop" /\ ender' = [ender EXCEPT ![e] = Free]
    BY DEF Stopped
  <1>2. PICK c \in Calls : c = ender[e].call /\ st[c] # "absent"
    BY <1>1 DEF Inv, TypeOK, Unmade, Free
  <1>3. st'[c] = "ended" /\ \A d \in Calls : d # c => st'[d] = st[d]
    BY <1>2 DEF Stopped, State, Inv, TypeOK
  <1>4. /\ calls' = IF calls = c THEN None ELSE calls
        /\ \A d \in Calls : d # c => pc'[d] = pc[d]
        /\ pc'[c] = pc[c] \/ pc'[c] = "raised"
    BY <1>2 DEF Stopped, Goes, Inv, TypeOK
  <1>5. pc[c] # "idle"
    BY <1>2 DEF Inv, Unmade
  <1>6. OneActive'
    BY <1>2, <1>3, <1>4 DEF Inv, TypeOK, OneActive, Active
  <1>7. \A f \in Enders : ender'[f] = Free \/ ender'[f] = ender[f]
    BY <1>1 DEF Inv, TypeOK
  <1>8. Unmade'
    <2>1. \A f \in Enders : IF ender'[f].call = None THEN ender'[f] = Free
            ELSE st'[ender'[f].call] # "absent" /\ ender'[f].at # "idle"
      <3> SUFFICES ASSUME NEW f \in Enders, ender'[f] = ender[f], ender[f].call # None
                   PROVE  st'[ender[f].call] # "absent" /\ ender[f].at # "idle"
        <4>1. Free.call = None
          BY DEF Free
        <4>2. \A f \in Enders : ender[f].call = None => ender[f] = Free
          BY DEF Inv, Unmade
        <4> QED
          BY <1>7, <4>1, <4>2
      <3>1. ender[f].call \in Calls /\ st[ender[f].call] # "absent" /\ ender[f].at # "idle"
        BY DEF Inv, TypeOK, Unmade
      <3> QED
        BY <1>3, <3>1
    <2> QED
      BY <1>2, <1>3, <1>4, <1>5, <2>1 DEF Stopped, Inv, Unmade, Calls
  <1>9. \A d \in Calls : d # c => Ending(d)' = Ending(d)
    BY <1>1, <1>2, CallsAssumption DEF Ending, Free, Inv, TypeOK
  <1>10. \A d \in Calls : d # c => LegOf(d)' = LegOf(d)
    BY <1>3, <1>4, <1>9, LegSame
  <1>11. LegOf(c) \in {"closing", "ended"} /\ LegOf(c)' = "ended"
    BY <1>2, <1>3 DEF LegOf, Active, Ending
  <1> QED
    BY <1>2, <1>6, <1>8, <1>10, <1>11, Simulates

LEMMA TaskCancelStep ==
  ASSUME Inv, NEW c \in Calls, TaskCancel(c)
  PROVE  OneActive' /\ Unmade' /\ [L!LegNext]_Leg
  <1>1. /\ st' = st /\ calls' = calls /\ st[c] = "ended" /\ pc[c] # "idle"
        /\ pc'[c] = "raised" /\ \A d \in Calls : d # c => pc'[d] = pc[d]
    BY DEF TaskCancel, Goes, Inv, TypeOK, SetupAt
  <1>2. \A f \in Enders : \/ ender'[f] = ender[f]
                          \/ ender'[f] = Free /\ ender[f].call = c
    BY DEF TaskCancel
  <1>3. OneActive'
    BY <1>1 DEF Inv, OneActive, Active
  <1>4. Unmade'
    <2>1. \A f \in Enders : IF ender'[f].call = None THEN ender'[f] = Free
            ELSE st'[ender'[f].call] # "absent" /\ ender'[f].at # "idle"
      <3>1. Free.call = None
        BY DEF Free
      <3>2. \A f \in Enders : IF ender[f].call = None THEN ender[f] = Free
              ELSE st[ender[f].call] # "absent" /\ ender[f].at # "idle"
        BY DEF Inv, Unmade
      <3> QED
        BY <1>1, <1>2, <3>1, <3>2
    <2>2. \A d \in Calls : (st'[d] = "absent") = (pc'[d] = "idle")
      BY <1>1 DEF Inv, Unmade
    <2> QED
      BY <1>1, <2>1, <2>2 DEF TaskCancel, Inv, Unmade
  <1>5. \A d \in Calls : d # c => Ending(d)' = Ending(d)
    BY <1>2, CallsAssumption DEF Ending, Free
  <1>6. \A d \in Calls : d # c => LegOf(d)' = LegOf(d)
    BY <1>1, <1>5, LegSame
  <1>7. LegOf(c)' = LegOf(c)
    BY <1>1 DEF LegOf
  <1> QED
    BY <1>3, <1>4, <1>6, <1>7, Simulates


-----------------------------------------------------------------------------
(* Every action.                                                           *)

LEMMA CallStep ==
  ASSUME Inv, NEW c \in Calls, ManagerStep(c)
  PROVE  OneActive' /\ Unmade' /\ [L!LegNext]_Leg
  <1>1. CASE Call(c)
    <2>1. st[c] = "absent" /\ c \in Out /\ ~Engaged
      BY <1>1 DEF Call, Inv, Unmade
    <2>2. st'[c] = "new" /\ \A d \in Calls : d # c => st'[d] = st[d]
      BY <1>1 DEF Call, Inv, TypeOK
    <2>3. pc'[c] \in {"creating", "refused"} /\ \A d \in Calls : d # c => pc'[d] = pc[d]
      BY <1>1 DEF Call, Create, Goes, Inv, TypeOK
    <2>4. c \notin In
      BY <2>1, CallsAssumption
    <2>5. calls' = c /\ srv' = srv /\ upd' = upd /\ ender' = ender
      BY <1>1 DEF Call
    <2> QED
      BY <2>1, <2>2, <2>3, <2>4, <2>5, MadeStep
  <1>2. CASE Accept(c)
    <2>1. st[c] # "absent"
      BY <1>2 DEF Accept, Inv, Unmade
    <2>2. /\ pc'[c] \in {"creating", "refused", "raised"} /\ pc[c] # "returned"
          /\ \A d \in Calls : d # c => pc'[d] = pc[d]
      BY <1>2 DEF Accept, Create, Goes, Inv, TypeOK
    <2>3. /\ st'[c] # "absent" /\ (st'[c] = "ended") = (st[c] = "ended")
          /\ \A d \in Calls : d # c => st'[d] = st[d]
      BY <1>2, <2>1 DEF Accept, State, Inv, TypeOK
    <2>4. Works(c)
      BY <1>2, <2>1, <2>2, <2>3 DEF Accept, Works
    <2> QED
      BY <2>4, WorksStep
  <1>3. CASE Hangup(c)
    <2>1. Works(c)
      BY <1>3, WorksOther DEF Hangup
    <2> QED
      BY <2>1, WorksStep
  <1>4. CASE TaskCancel(c)
    BY <1>4, TaskCancelStep
  <1> QED
    BY <1>1, <1>2, <1>3, <1>4 DEF ManagerStep

LEMMA FoundActive ==
  ASSUME Inv, NEW c \in Calls, Found(c)
  PROVE  Active(c)
  BY CallsAssumption DEF Found, Inv, OneActive

LEMMA UpdateCallStep ==
  ASSUME Inv, NEW c \in Calls, UpdateStep(c)
  PROVE  OneActive' /\ Unmade' /\ [L!LegNext]_Leg
  <1>1. upd' \subseteq upd
    BY DEF UpdateStep, UpdateWaiting, UpdateAnswer, UpdateDiscarded, UpdateRequested, Arrives
  <1>2. CASE UNCHANGED <<calls, st, pc, ender>> /\ \A d \in In : srv'[d] = "none" => srv[d] = "none"
    <2>1. Still
      BY <1>1, <1>2 DEF Still, Inv, Unmade, Calls
    <2> QED
      BY <2>1, StillStep
  <1>3. CASE UpdateWaiting(c)
    <2>1. CASE Found(c) /\ State(c, "ringing")
      <3>1. Works(c)
        BY <1>1, <1>3, <2>1, FoundActive, WorksOther DEF UpdateWaiting
      <3> QED
        BY <3>1, WorksStep
    <2> QED
      BY <1>2, <1>3, <2>1 DEF UpdateWaiting
  <1>4. CASE UpdateAnswer(c)
    BY <1>2, <1>4 DEF UpdateAnswer
  <1>5. CASE UpdateDiscarded(c)
    <2>1. CASE Found(c) /\ BeginEnd(c, FALSE, FALSE)
      <3>1. Works(c)
        BY <1>1, <1>5, <2>1, FoundActive, WorksOther DEF UpdateDiscarded
      <3> QED
        BY <3>1, WorksStep
    <2> QED
      BY <1>2, <1>5, <2>1 DEF UpdateDiscarded
  <1>6. CASE UpdateRequested(c)
    <2>1. CASE Engaged
      BY <1>2, <1>6, <2>1 DEF UpdateRequested, Inv, TypeOK, Calls
    <2>2. CASE ~Engaged /\ c \in In
      <3>1. st[c] = "absent" /\ srv[c] # "none"
        BY <1>6, <2>2 DEF UpdateRequested, Arrives, Inv, Unmade
      <3>2. st'[c] = "incoming" /\ \A d \in Calls : d # c => st'[d] = st[d]
        BY <1>6, <2>2 DEF UpdateRequested, Inv, TypeOK
      <3>3. pc'[c] = "received" /\ \A d \in Calls : d # c => pc'[d] = pc[d]
        BY <1>6, <2>2 DEF UpdateRequested, Goes, Inv, TypeOK
      <3>4. <<"requested", c>> \notin upd' /\ calls' = c /\ srv' = srv /\ ender' = ender
        BY <1>6, <2>2 DEF UpdateRequested, Arrives
      <3> QED
        BY <1>1, <2>2, <3>1, <3>2, <3>3, <3>4, MadeStep
    <2>3. CASE c \notin In
      BY <1>6, <2>3 DEF UpdateRequested, Arrives, Inv, Unmade
    <2> QED
      BY <2>1, <2>2, <2>3
  <1> QED
    BY <1>3, <1>4, <1>5, <1>6 DEF UpdateStep

LEMMA PeerStep ==
  ASSUME Inv, NEW c \in Calls, Peer(c)
  PROVE  OneActive' /\ Unmade' /\ [L!LegNext]_Leg
  <1>1. UNCHANGED <<calls, st, pc, ender>>
    BY DEF Peer, Server
  <1>2. \A d \in Calls : d # c => srv'[d] = srv[d] /\ \A k : <<k, d>> \in upd' => <<k, d>> \in upd
    BY DEF Peer, Server, Inv, TypeOK
  <1>3. srv'[c] # "none"
    BY DEF Peer, Server, Inv, TypeOK
  <1>4. <<"requested", c>> \in upd' => <<"requested", c>> \in upd \/ (c \in In /\ srv[c] = "none")
    BY CallsAssumption DEF Peer, Server
  <1>5. Still
    BY <1>1, <1>2, <1>3, <1>4 DEF Still, Inv, Unmade, Calls
  <1> QED
    BY <1>5, StillStep

LEMMA EnderStep ==
  ASSUME Inv, NEW e \in Enders, EndStep(e)
  PROVE  OneActive' /\ Unmade' /\ [L!LegNext]_Leg
  <1>1. CASE Discarded(e)
    <2>1. ender[e].call \in Calls
      BY <1>1 DEF Discarded, Inv, TypeOK, Unmade, Free
    <2>2. \A d \in Calls : srv'[d] = "none" => srv[d] = "none"
      BY <1>1, <2>1 DEF Discarded, Inv, TypeOK
    <2>3. \A f \in Enders : IF f = e THEN ender'[f] = [ender[e] EXCEPT !.at = "stop"]
                                     ELSE ender'[f] = ender[f]
      BY <1>1 DEF Discarded, Inv, TypeOK
    <2>4. \A f \in Enders : /\ ender'[f].call = ender[f].call
                            /\ \/ ender'[f] = ender[f]
                               \/ ender[f].call # None /\ ender'[f].at # "idle"
      BY <2>1, <2>3, CallsAssumption DEF Inv, TypeOK
    <2>5. Still
      BY <1>1, <2>2, <2>4 DEF Still, Discarded, Inv, Unmade, Calls
    <2> QED
      BY <2>5, StillStep
  <1>2. CASE Stopped(e)
    BY <1>2, StoppedStep
  <1> QED
    BY <1>1, <1>2 DEF EndStep

LEMMA MediaStep ==
  ASSUME Inv, MediaUp \/ MediaFails
  PROVE  OneActive' /\ Unmade' /\ [L!LegNext]_Leg
  <1>1. CASE calls = None
    <2>1. Still
      BY <1>1 DEF MediaUp, MediaFails, Engaged, Still, Inv, Unmade
    <2> QED
      BY <2>1, StillStep
  <1>2. CASE calls \in Calls
    <2>1. Active(calls) /\ calls # None
      BY <1>2, CallsAssumption DEF Inv, OneActive
    <2>2. Works(calls)
      BY <1>2, <2>1, WorksOther DEF MediaUp, MediaFails
    <2> QED
      BY <1>2, <2>2, WorksStep
  <1> QED
    BY <1>1, <1>2 DEF Inv, TypeOK

LEMMA QuietStep ==
  ASSUME Inv, UNCHANGED vars
  PROVE  TypeOK' /\ OneActive' /\ Unmade' /\ [L!LegNext]_Leg
  <1>1. TypeOK'
    BY DEF vars, Inv, TypeOK
  <1>2. OneActive' /\ Unmade'
    BY DEF vars, Inv, OneActive, Unmade, Active
  <1>3. Leg' = Leg
    BY DEF vars, Leg, LegOf, Active, Ending
  <1> QED
    BY <1>1, <1>2, <1>3

LEMMA Initial ==
  ASSUME Init
  PROVE  Inv /\ L!LegInit
  <1>1. TypeOK
    BY DEF Init, TypeOK, TgCallState, Future, PcState, EndAt, Stage, SrvState, Free, NoSession
  <1>2. OneActive /\ Unmade
    BY DEF Init, OneActive, Unmade, Active, Calls, Free
  <1>3. L!LegInit
    BY DEF Init, L!LegInit, Leg, LegOf, Active, Ending
  <1> QED
    BY <1>1, <1>2, <1>3 DEF Inv

LEMMA Step ==
  ASSUME Inv, [Next]_vars
  PROVE  Inv' /\ [L!LegNext]_Leg
  <1>1. ASSUME NEW c \in Calls, SetupStep(c)
        PROVE  Inv' /\ [L!LegNext]_Leg
    BY <1>1, SetupType, WorksSetup, WorksStep DEF Inv
  <1>2. ASSUME NEW c \in Calls, UpdateStep(c)
        PROVE  Inv' /\ [L!LegNext]_Leg
    BY <1>2, UpdateType, UpdateCallStep DEF Inv
  <1>3. ASSUME NEW c \in Calls, ManagerStep(c)
        PROVE  Inv' /\ [L!LegNext]_Leg
    BY <1>3, ManagerType, CallStep DEF Inv
  <1>4. ASSUME NEW c \in Calls, Peer(c)
        PROVE  Inv' /\ [L!LegNext]_Leg
    BY <1>4, PeerType, PeerStep DEF Inv
  <1>5. ASSUME NEW e \in Enders, EndStep(e)
        PROVE  Inv' /\ [L!LegNext]_Leg
    <2>1. ender[e].at # "idle" => ender[e].call \in Calls
      BY DEF Inv, TypeOK, Unmade, Free
    <2> QED
      BY <1>5, <2>1, EndType, EnderStep DEF Inv
  <1>6. CASE MediaUp \/ MediaFails
    BY <1>6, MediaType, MediaStep DEF Inv
  <1>7. CASE UNCHANGED vars
    BY <1>7, QuietStep DEF Inv
  <1> QED
    BY <1>1, <1>2, <1>3, <1>4, <1>5, <1>6, <1>7 DEF Next, Quiet

\* Every variable of the engine keeps its type: TgCall.state, the futures, TgCallEngine.calls.
THEOREM TypeCorrect == Spec => []TypeOK
  <1>1. Init => Inv
    BY Initial
  <1>2. Inv /\ [Next]_vars => Inv'
    BY Step
  <1>3. Inv => TypeOK
    BY DEF Inv
  <1> QED
    BY <1>1, <1>2, <1>3, PTL DEF Spec

\* The engine implements the Telegram call that the manager relies on (TgLeg): one call of the
\* user at a time, and a call that is being ended only ends, whatever number of calls, of
\* _end_call coroutines and of updates there are.
THEOREM ImplementsLeg == Spec => LegSpec
  <1>1. Init => Inv /\ L!LegInit
    BY Initial
  <1>2. Inv /\ [Next]_vars => Inv' /\ [L!LegNext]_Leg
    BY Step
  <1> QED
    BY <1>1, <1>2, PTL DEF Spec, LegSpec, L!LegSpec

-----------------------------------------------------------------------------
(* How calls end: what is true of a call that is over, or about to be.     *)

Through(c) == srv[c] \in {"up", "over"}

\* The session of the user has been stopped for the call, or the call is over.
Gone(c) == st[c] = "ended" \/ \E e \in Enders : ender[e].call = c /\ ender[e].at = "stop"

\* A session was made by the setup of a call.
Sessions ==
    /\ (ntg.owner = None) = (ntg.at = "none")
    /\ ntg.owner # None => pc[ntg.owner] \notin {"idle", "received", "offered"}

\* A call that is gone has a session only when the manager accepted it while it was being
\* discarded; its keys are not exchanged then, as Telegram refuses to accept it.
GoneSession == \A c \in Calls : Gone(c) /\ ntg.owner = c =>
    /\ c \in In /\ ntg.at \in {"created", "exchanged", "broken"}
    /\ pc[c] \in {"creating", "configuring", "exchanging", "request", "failing", "raised"}

GoneToo == \A c \in In : Gone(c) => srv[c] = "over"

\* What the engine knows of an incoming call, and has been told of it, is so at Telegram.
Told == \A c \in In :
    /\ st[c] # "absent" => known[c]
    /\ <<"discarded", c>> \in upd => srv[c] = "over"
    /\ <<"accepted", c>> \notin upd
    /\ <<"confirmed", c>> \in upd \/ answer[c] = "set" \/ pc[c] = "keys" => Through(c)

Media == \A c \in Calls : pc[c] \in {"media", "returned"} => Through(c)

Offered == \A c \in Calls : pc[c] \in {"received", "offered"} => st[c] \in {"incoming", "ended"}

EndInv == Sessions /\ GoneSession /\ GoneToo /\ Told /\ Media /\ Offered /\ RaisedMeansEnded

LEMMA EndInit == Init => EndInv
  BY CallsAssumption DEF Init, EndInv, Sessions, GoneSession, GoneToo, Told, Media, Offered,
     RaisedMeansEnded, Gone, Free, NoSession, Calls

LEMMA EndStutter == EndInv /\ UNCHANGED vars => EndInv'
  BY DEF vars, EndInv, Sessions, GoneSession, GoneToo, Told, Media, Offered, RaisedMeansEnded,
     Gone, Through

-----------------------------------------------------------------------------
(* Steps that take a call down, or leave it as it is.                      *)

\* A step that at most takes call c down: its setup fails or raises, or nothing of it changes.
\* A call is gone after it only without its session and, if it came in, over at Telegram.
TakesDown(c) ==
    /\ \A d \in Calls : Gone(d)' =>
         Gone(d) \/ (d = c /\ ntg' = NoSession /\ (c \in In => srv'[c] = "over"))
    /\ \/ ntg' = NoSession
       \/ /\ ntg'.owner = ntg.owner /\ (ntg'.at = "none") = (ntg.at = "none")
          /\ ntg'.at = ntg.at \/ ~Gone(ntg.owner)
    /\ \A d \in Calls :
         \/ st'[d] = st[d]
         \/ st'[d] = "ended" /\ st[d] # "absent"
         \/ {st[d], st'[d]} \cap {"absent", "ended"} = {} /\ pc[d] \notin {"received", "offered"}
    /\ \A d \in Calls : d # c => pc'[d] = pc[d]
    /\ pc'[c] \in {pc[c], "failing"} \/ (pc'[c] = "raised" /\ st'[c] = "ended")
    /\ \A d \in Calls : srv'[d] = srv[d] \/ srv'[d] = "over" \/ (d \in Out /\ srv'[d] = "up")
    /\ \A d \in Calls : answer'[d] = "set" => answer[d] = "set"
    /\ upd' \subseteq upd /\ known' = known

LEMMA TakesDownEnds ==
  ASSUME Inv, EndInv, NEW c \in Calls, TakesDown(c)
  PROVE  EndInv'
  <1> USE DEF TakesDown, EndInv
  <1>1. Sessions'
    <2>1. CASE ntg' = NoSession
      BY <2>1 DEF Sessions, NoSession
    <2>2. CASE ntg'.owner = ntg.owner /\ (ntg'.at = "none") = (ntg.at = "none")
      BY <2>2 DEF Sessions, Inv, TypeOK
    <2> QED
      BY <2>1, <2>2
  <1>2. GoneSession'
    <2> SUFFICES ASSUME NEW d \in Calls, Gone(d)', ntg'.owner = d
                 PROVE  /\ d \in In /\ ntg'.at \in {"created", "exchanged", "broken"}
                        /\ pc'[d] \in {"creating", "configuring", "exchanging", "request",
                                       "failing", "raised"}
      BY DEF GoneSession
    <2>1. ntg' # NoSession
      BY CallsAssumption DEF NoSession
    <2>2. Gone(d) /\ ntg.owner = d /\ ntg'.at = ntg.at
      BY <2>1
    <2> QED
      BY <2>2 DEF GoneSession
  <1>3. \A d \in In : d \in Calls /\ (srv'[d] = srv[d] \/ srv'[d] = "over")
    BY CallsAssumption DEF Calls
  <1>4. GoneToo'
    BY <1>3 DEF GoneToo
  <1>5. Told'
    <2>1. \A d \in In : /\ st'[d] # "absent" => st[d] # "absent"
                        /\ pc'[d] = "keys" => pc[d] = "keys"
                        /\ answer'[d] = "set" => answer[d] = "set"
      BY <1>3
    <2>2. Told /\ upd' \subseteq upd /\ known' = known
      OBVIOUS
    <2> QED
      BY ONLY <1>3, <2>1, <2>2 DEF Told, Through
  <1>6. Media'
    BY DEF Media, Through
  <1>7. Offered'
    BY DEF Offered
  <1>8. RaisedMeansEnded'
    BY DEF RaisedMeansEnded
  <1> QED
    BY <1>1, <1>2, <1>4, <1>5, <1>6, <1>7, <1>8

LEMMA BeginGone ==
  ASSUME Inv, EndInv, NEW c \in Calls, NEW local \in BOOLEAN, NEW own \in BOOLEAN,
         BeginEnd(c, local, own), st[c] # "absent", ~local /\ c \in In => srv[c] = "over",
         \A d \in Calls : st'[d] = "ended" => st[d] = "ended"
  PROVE  /\ ntg' \in {ntg, NoSession}
         /\ \A d \in Calls : Gone(d)' =>
              Gone(d) \/ (d = c /\ ntg' = NoSession /\ (c \in In => srv[c] = "over"))
  <1>1. PICK e \in Enders :
          LET at == IF local /\ known[c] THEN "discard" ELSE "stop"
          IN  /\ ender' = [ender EXCEPT ![e] = [call |-> c, at |-> at, own |-> own]]
              /\ ntg' = IF at = "stop" THEN NoSession ELSE ntg
    BY DEF BeginEnd
  <1>2. c \in In => known[c]
    BY DEF EndInv, Told
  <1>3. \A f \in Enders : f # e => ender'[f] = ender[f]
    BY <1>1 DEF Inv, TypeOK
  <1>4. CASE local /\ known[c]
    <2>1. ntg' = ntg /\ ender'[e].at = "discard"
      BY <1>1, <1>4 DEF Inv, TypeOK
    <2> QED
      BY <1>3, <2>1 DEF Gone
  <1>5. CASE ~(local /\ known[c])
    <2>1. ntg' = NoSession /\ ender'[e].call = c
      BY <1>1, <1>5 DEF Inv, TypeOK
    <2>2. c \in In => srv[c] = "over"
      BY <1>2, <1>5
    <2> QED
      BY <1>3, <2>1, <2>2 DEF Gone
  <1> QED
    BY <1>4, <1>5

\* A setup that fails: whichever await it is at.
LEMMA FailTakesDown ==
  ASSUME Inv, EndInv, NEW c \in Calls, Fail(c), pc[c] \in SetupAt,
         UNCHANGED <<known, answer, upd>>,
         \A d \in Calls : \/ st'[d] = st[d]
                          \/ d = c /\ {st[d], st'[d]} \cap {"absent", "ended"} = {},
         \A d \in Calls : srv'[d] = srv[d] \/ srv'[d] = "over" \/ (d \in Out /\ srv'[d] = "up")
  PROVE  EndInv'
  <1>1. st[c] # "absent" /\ pc[c] \notin {"received", "offered"}
    BY DEF Inv, Unmade, SetupAt
  <1>2. CASE st[c] = "ended" /\ Goes(c, "raised") /\ UNCHANGED <<ender, ntg>>
    <2>1. \A d \in Calls : st'[d] = st[d]
      BY <1>2
    <2>2. \A d \in Calls : Gone(d)' => Gone(d)
      BY <1>2, <2>1 DEF Gone
    <2>3. pc'[c] = "raised" /\ \A d \in Calls : d # c => pc'[d] = pc[d]
      BY <1>2 DEF Goes, Inv, TypeOK
    <2>4. TakesDown(c)
      BY <1>2, <2>1, <2>2, <2>3 DEF TakesDown
    <2> QED
      BY <2>4, TakesDownEnds
  <1>3. CASE BeginEnd(c, TRUE, TRUE) /\ Goes(c, "failing")
    <2>1. /\ ntg' \in {ntg, NoSession}
          /\ \A d \in Calls : Gone(d)' =>
               Gone(d) \/ (d = c /\ ntg' = NoSession /\ (c \in In => srv[c] = "over"))
      BY <1>1, <1>3, BeginGone
    <2>2. pc'[c] = "failing" /\ \A d \in Calls : d # c => pc'[d] = pc[d]
      BY <1>3 DEF Goes, Inv, TypeOK
    <2>3. c \in In /\ srv[c] = "over" => srv'[c] = "over"
      BY CallsAssumption
    <2>4. TakesDown(c)
      BY <1>1, <2>1, <2>2, <2>3 DEF TakesDown
    <2> QED
      BY <2>4, TakesDownEnds
  <1> QED
    BY <1>2, <1>3 DEF Fail

LEMMA ErrorEnds ==
  ASSUME Inv, EndInv, NEW c \in Calls, NativeError(c) \/ RpcError(c) \/ WaitFails(c)
  PROVE  EndInv'
  <1>1. pc[c] \in SetupAt
    BY DEF NativeError, RpcError, WaitFails, SetupAt
  <1>2. \A d \in Calls : srv'[d] = srv[d] \/ srv'[d] = "over"
    BY DEF NativeError, RpcError, WaitFails, Inv, TypeOK
  <1> QED
    BY <1>1, <1>2, FailTakesDown DEF NativeError, RpcError, WaitFails

\* An end that no setup waits for.
LEMMA BeginTakesDown ==
  ASSUME Inv, EndInv, NEW c \in Calls, NEW local \in BOOLEAN, BeginEnd(c, local, FALSE),
         Active(c), ~local /\ c \in In => srv[c] = "over",
         UNCHANGED <<st, known, answer, pc, srv>>, upd' \subseteq upd
  PROVE  EndInv'
  <1>1. /\ ntg' \in {ntg, NoSession}
        /\ \A d \in Calls : Gone(d)' =>
             Gone(d) \/ (d = c /\ ntg' = NoSession /\ (c \in In => srv[c] = "over"))
    BY BeginGone DEF Active
  <1>2. TakesDown(c)
    BY <1>1 DEF TakesDown
  <1> QED
    BY <1>2, TakesDownEnds

LEMMA HangupEnds ==
  ASSUME Inv, EndInv, NEW c \in Calls, Hangup(c)
  PROVE  EndInv'
  BY BeginTakesDown DEF Hangup

LEMMA MediaFailsEnds ==
  ASSUME Inv, EndInv, MediaFails
  PROVE  EndInv'
  BY BeginTakesDown DEF MediaFails, Engaged, Inv, TypeOK

LEMMA UpdateDiscardedEnds ==
  ASSUME Inv, EndInv, NEW c \in Calls, UpdateDiscarded(c)
  PROVE  EndInv'
  <1>1. upd' \subseteq upd
    BY DEF UpdateDiscarded, Arrives
  <1>2. CASE Found(c) /\ BeginEnd(c, FALSE, FALSE)
    <2>1. c \in In => srv[c] = "over"
      BY DEF UpdateDiscarded, Arrives, EndInv, Told
    <2> QED
      BY <1>1, <1>2, <2>1, FoundActive, BeginTakesDown DEF UpdateDiscarded
  <1>3. CASE UNCHANGED <<ender, ntg>>
    <2>1. \A d \in Calls : Gone(d)' => Gone(d)
      BY <1>3 DEF Gone, UpdateDiscarded
    <2>2. TakesDown(c)
      BY <1>1, <1>3, <2>1 DEF TakesDown, UpdateDiscarded
    <2> QED
      BY <2>2, TakesDownEnds
  <1> QED
    BY <1>2, <1>3 DEF UpdateDiscarded

LEMMA EnderEnds ==
  ASSUME Inv, EndInv, NEW e \in Enders, EndStep(e)
  PROVE  EndInv'
  <1> DEFINE c == ender[e].call
  <1>1. c \in Calls /\ st[c] # "absent"
    BY DEF EndStep, Discarded, Stopped, Inv, TypeOK, Unmade, Free
  <1>2. CASE Discarded(e)
    <2>1. /\ srv' = [srv EXCEPT ![c] = "over"] /\ ntg' = NoSession
          /\ ender' = [ender EXCEPT ![e].at = "stop"]
          /\ UNCHANGED <<st, known, answer, pc, upd>>
      BY <1>2 DEF Discarded
    <2>2. \A d \in Calls : d # c => (Gone(d)' => Gone(d))
      BY <2>1 DEF Gone, Inv, TypeOK
    <2>3. srv'[c] = "over" /\ \A d \in Calls : d # c => srv'[d] = srv[d]
      BY <1>1, <2>1 DEF Inv, TypeOK
    <2>4. TakesDown(c)
      BY <1>1, <2>1, <2>2, <2>3 DEF TakesDown
    <2> QED
      BY <1>1, <2>4, TakesDownEnds
  <1>3. CASE Stopped(e)
    <2>1. st'[c] = "ended" /\ \A d \in Calls : d # c => st'[d] = st[d]
      BY <1>1, <1>3 DEF Stopped, State, Inv, TypeOK
    <2>2. \A f \in Enders : ender'[f] \in {Free, ender[f]}
      BY <1>3 DEF Stopped, Inv, TypeOK
    <2>3. Gone(c)
      BY <1>3 DEF Gone, Stopped
    <2>4. \A d \in Calls : Gone(d)' => Gone(d)
      BY <2>1, <2>2, <2>3 DEF Gone, Free
    <2>5. pc'[c] \in {pc[c], "raised"} /\ \A d \in Calls : d # c => pc'[d] = pc[d]
      BY <1>1, <1>3 DEF Stopped, Goes, Inv, TypeOK
    <2>6. \A d \in Calls : answer'[d] = "set" => answer[d] = "set"
      BY <1>1, <1>3 DEF Stopped, FailOpen, Inv, TypeOK
    <2>7. UNCHANGED <<known, ntg, srv, upd>>
      BY <1>3 DEF Stopped
    <2>8. TakesDown(c)
      BY ONLY <1>1, <2>1, <2>4, <2>5, <2>6, <2>7 DEF TakesDown
    <2> QED
      BY <1>1, <2>8, TakesDownEnds
  <1> QED
    BY <1>2, <1>3 DEF EndStep

\* The session that connects is of the call the user has: a call that is gone has none that does.
LEMMA MediaUpEnds ==
  ASSUME Inv, EndInv, MediaUp
  PROVE  EndInv'
  <1> DEFINE c == ntg.owner
  <1>1. c \in Calls /\ pc[c] \notin {"idle", "received", "offered"}
    BY DEF MediaUp, EndInv, Sessions, Inv, TypeOK
  <1>2. ~Gone(c)
    BY <1>1 DEF MediaUp, EndInv, GoneSession
  <1>3. Active(c) /\ calls = c
    BY <1>1, <1>2 DEF Gone, Active, Inv, Unmade, OneActive
  <1>4. st'[c] = "connected" /\ \A d \in Calls : d # c => st'[d] = st[d]
    BY <1>1, <1>3, CallsAssumption DEF MediaUp, State, Active, Inv, TypeOK
  <1>5. \A d \in Calls : Gone(d)' => Gone(d)
    BY <1>4 DEF Gone, MediaUp
  <1>6. ntg'.owner = c /\ ntg.at = "connecting" /\ ntg'.at = "up"
    BY DEF MediaUp, Inv, TypeOK
  <1>7. UNCHANGED <<known, answer, pc, srv, upd>>
    BY DEF MediaUp
  <1>8. TakesDown(c)
    BY <1>1, <1>2, <1>3, <1>4, <1>5, <1>6, <1>7 DEF TakesDown, Active
  <1> QED
    BY <1>1, <1>8, TakesDownEnds

-----------------------------------------------------------------------------
(* Steps that take a call on.                                              *)

LEMMA StateKeeps ==
  ASSUME Inv, NEW c \in Calls, NEW s \in {"requesting", "accepting", "connecting"},
         st[c] # "absent", State(c, s) \/ UNCHANGED st
  PROVE  \A d \in Calls : \/ st'[d] = st[d]
                          \/ d = c /\ {st[d], st'[d]} \cap {"absent", "ended"} = {}
  BY DEF State, Inv, TypeOK

\* The keys are exchanged, or the media connected: of the call, when the session is its own.
LEMMA NativeEnds ==
  ASSUME Inv, EndInv, NEW c \in Calls,
         NEW from \in {"exchanged", "keyed"}, NEW to \in {"keyed", "connecting"},
         Native(from, to, c), pc[c] \in {"ring", "keys", "confirm"}, pc'[c] \in {"keys", "media"},
         pc'[c] = "media" \/ c \in In => Through(c)',
         \A d \in Calls : d # c => pc'[d] = pc[d],
         \A d \in Calls : \/ st'[d] = st[d]
                          \/ d = c /\ {st[d], st'[d]} \cap {"absent", "ended"} = {},
         \A d \in Calls : srv'[d] = srv[d] \/ (d \in Out /\ srv'[d] = "up"),
         UNCHANGED <<known, answer, ender, upd>>
  PROVE  EndInv'
  <1> USE DEF EndInv
  <1>1. \A d \in Calls : Gone(d)' => Gone(d)
    BY DEF Gone
  <1>2. /\ ntg'.owner = ntg.owner /\ (ntg.owner = c \/ ntg'.at = "broken")
        /\ ntg'.at # "none" /\ ntg.at # "none"
    BY DEF Native, Allows, Inv, TypeOK
  <1>3. Sessions'
    BY <1>2 DEF Sessions, Inv, TypeOK
  <1>4. GoneSession'
    <2>1. Gone(c) => ntg.owner # c
      BY DEF GoneSession
    <2> QED
      BY <1>1, <1>2, <2>1 DEF GoneSession
  <1>5. \A d \in In : d \in Calls /\ srv'[d] = srv[d]
    BY CallsAssumption DEF Calls
  <1>6. GoneToo'
    BY <1>1, <1>5 DEF GoneToo
  <1>7. Told'
    <2>1. \A d \in In : /\ st'[d] # "absent" => st[d] # "absent"
                        /\ pc'[d] = "keys" => pc[d] = "keys" \/ Through(d)
      BY <1>5 DEF Through
    <2> QED
      BY <1>5, <2>1 DEF Told, Through
  <1>8. Media' /\ Offered' /\ RaisedMeansEnded'
    BY DEF Media, Through, Offered, RaisedMeansEnded
  <1> QED
    BY <1>3, <1>4, <1>6, <1>7, <1>8

LEMMA AnsweredEnds ==
  ASSUME Inv, EndInv, NEW c \in Calls, Answered(c)
  PROVE  EndInv'
  <1>1. \A d \in Calls : \/ st'[d] = st[d]
                         \/ d = c /\ {st[d], st'[d]} \cap {"absent", "ended"} = {}
    BY StateKeeps DEF Answered, Inv, Unmade
  <1>2. pc[c] = "ring" /\ pc[c] \in SetupAt /\ UNCHANGED <<known, answer, srv, upd>>
    BY DEF Answered, SetupAt
  <1>3. CASE Native("exchanged", "keyed", c) /\ Goes(c, "keys") /\ UNCHANGED ender
    <2>1. c \in In => Through(c)'
      BY <1>2 DEF Answered, EndInv, Told, Through
    <2>2. pc'[c] = "keys" /\ \A d \in Calls : d # c => pc'[d] = pc[d]
      BY <1>3 DEF Goes, Inv, TypeOK
    <2> QED
      BY <1>1, <1>2, <1>3, <2>1, <2>2, NativeEnds
  <1>4. CASE Fail(c)
    BY <1>1, <1>2, <1>4, FailTakesDown
  <1> QED
    BY <1>3, <1>4 DEF Answered

LEMMA ConnectEnds ==
  ASSUME Inv, EndInv, NEW c \in Calls, Connect(c)
  PROVE  EndInv'
  <1>1. \A d \in Calls : \/ st'[d] = st[d]
                         \/ d = c /\ {st[d], st'[d]} \cap {"absent", "ended"} = {}
    BY StateKeeps DEF Connect, Inv, Unmade
  <1>2. /\ pc[c] \in {"keys", "confirm"} /\ pc[c] \in SetupAt
        /\ UNCHANGED <<known, answer, upd>>
    BY DEF Connect, SetupAt
  <1>3. \A d \in Calls : srv'[d] = srv[d] \/ (d \in Out /\ srv'[d] = "up")
    BY DEF Connect, Inv, TypeOK
  <1>4. CASE Native("keyed", "connecting", c) /\ Goes(c, "media") /\ UNCHANGED ender
    <2>1. Through(c)'
      BY DEF Connect, EndInv, Told, Through, Inv, TypeOK
    <2>2. pc'[c] = "media" /\ \A d \in Calls : d # c => pc'[d] = pc[d]
      BY <1>4 DEF Goes, Inv, TypeOK
    <2> QED
      BY <1>1, <1>2, <1>3, <1>4, <2>1, <2>2, NativeEnds
  <1>5. CASE Fail(c)
    BY <1>1, <1>2, <1>3, <1>5, FailTakesDown
  <1> QED
    BY <1>4, <1>5 DEF Connect

LEMMA CallEnds ==
  ASSUME Inv, EndInv, NEW c \in Calls, Call(c)
  PROVE  EndInv'
  <1> USE CallsAssumption DEF Inv, TypeOK, Unmade, EndInv, Calls
  <1>1. st[c] = "absent" /\ c \notin In
    BY DEF Call
  <1>2. ~Gone(c)' /\ \A d \in Calls : d # c => Gone(d)' = Gone(d)
    BY <1>1 DEF Gone, Call
  <1>3. ntg' = ntg \/ ntg'.owner = c
    BY DEF Call, Create
  <1>4. \A d \in Calls : d # c => pc'[d] = pc[d]
    BY DEF Call, Create, Goes
  <1>5. Sessions'
    BY DEF Call, Create, Goes, Sessions
  <1>6. GoneSession'
    BY <1>2, <1>3, <1>4 DEF GoneSession
  <1>7. \A d \in In : st'[d] = st[d] /\ pc'[d] = pc[d]
    BY <1>1, <1>4 DEF Call
  <1>8. GoneToo' /\ Told'
    BY <1>2, <1>7 DEF GoneToo, Told, Through, Call
  <1>9. Media' /\ Offered' /\ RaisedMeansEnded'
    BY DEF Call, Create, Goes, Media, Through, Offered, RaisedMeansEnded
  <1> QED
    BY <1>5, <1>6, <1>8, <1>9

LEMMA AcceptEnds ==
  ASSUME Inv, EndInv, NEW c \in Calls, Accept(c)
  PROVE  EndInv'
  <1> USE CallsAssumption DEF Inv, TypeOK, Unmade, EndInv, Calls
  <1>1. \A d \in Calls : Gone(d)' => Gone(d)
    BY DEF Accept, State, Gone
  <1>2. Sessions' /\ GoneSession'
    BY <1>1 DEF Accept, Create, Goes, Sessions, GoneSession
  <1>3. GoneToo' /\ Told'
    BY <1>1 DEF Accept, Create, Goes, State, GoneToo, Told, Through
  <1>4. Media' /\ Offered'
    BY DEF Accept, Create, Goes, State, Media, Through, Offered
  <1>5. RaisedMeansEnded'
    BY DEF Accept, Create, Goes, State, RaisedMeansEnded, Offered
  <1> QED
    BY <1>2, <1>3, <1>4, <1>5

\* The steps of a setup between two awaits that need no answer.
LEMMA SetupEnds ==
  ASSUME Inv, EndInv, NEW c \in Calls,
         Configure(c) \/ InitExchange(c) \/ Confirm(c) \/ Return(c) \/ Offer(c)
  PROVE  EndInv'
  <1> USE CallsAssumption DEF Inv, TypeOK, EndInv, Calls,
          Configure, InitExchange, Confirm, Return, Offer, Goes
  <1>1. \A d \in Calls : Gone(d)' = Gone(d)
    BY DEF Gone
  <1>2. Sessions' /\ GoneSession'
    BY <1>1 DEF Native, Allows, Sessions, GoneSession
  <1>3. GoneToo' /\ Told'
    BY <1>1 DEF GoneToo, Told, Through
  <1>4. Media' /\ Offered' /\ RaisedMeansEnded'
    BY DEF Media, Through, Offered, RaisedMeansEnded
  <1> QED
    BY <1>2, <1>3, <1>4

LEMMA RequestEnds ==
  ASSUME Inv, EndInv, NEW c \in Calls, Request(c)
  PROVE  EndInv'
  <1> USE CallsAssumption DEF Inv, TypeOK, Unmade, EndInv, Calls
  <1>1. \A d \in Calls : Gone(d)' => Gone(d)
    BY DEF Request, State, Gone
  <1>2. Sessions' /\ GoneSession'
    BY <1>1 DEF Request, Goes, Sessions, GoneSession
  <1>3. \A d \in In : st'[d] = st[d] /\ srv'[d] = srv[d] /\ (pc'[d] = "keys" => pc[d] = "keys")
    BY DEF Request, State, Goes
  <1>4. GoneToo' /\ Told'
    BY <1>1, <1>3 DEF GoneToo, Told, Through, Request
  <1>5. Media' /\ Offered' /\ RaisedMeansEnded'
    BY DEF Request, Goes, State, Media, Through, Offered, RaisedMeansEnded
  <1> QED
    BY <1>2, <1>4, <1>5

\* Telegram has accepted the call, so it is not over there: nor gone here.
LEMMA RequestedEnds ==
  ASSUME Inv, EndInv, NEW c \in Calls, Requested(c)
  PROVE  EndInv'
  <1> USE CallsAssumption DEF Inv, TypeOK, Unmade, EndInv, Calls
  <1>1. pc'[c] = "ring" /\ \A d \in Calls : Gone(d)' = Gone(d) /\ (d # c => pc'[d] = pc[d])
    BY DEF Requested, Gone, Goes
  <1>2. Gone(c) => ntg.owner # c
    BY DEF Requested, GoneToo, GoneSession
  <1>3. Sessions'
    BY DEF Requested, Goes, Sessions
  <1>4. GoneSession'
    BY <1>1, <1>2 DEF GoneSession, Requested
  <1>5. GoneToo' /\ Told'
    BY <1>1 DEF Requested, GoneToo, Told, Through
  <1>6. Media' /\ Offered' /\ RaisedMeansEnded'
    BY <1>1 DEF Requested, Media, Through, Offered, RaisedMeansEnded
  <1> QED
    BY <1>3, <1>4, <1>5, <1>6

LEMMA TaskCancelEnds ==
  ASSUME Inv, EndInv, NEW c \in Calls, TaskCancel(c)
  PROVE  EndInv'
  <1> USE CallsAssumption DEF Inv, TypeOK, EndInv, Calls, TaskCancel, Goes
  <1>1. \A d \in Calls : Gone(d)' => Gone(d)
    BY DEF Gone, Free
  <1>2. Sessions' /\ GoneSession'
    BY <1>1 DEF Sessions, GoneSession, SetupAt
  <1>3. GoneToo' /\ Told'
    BY <1>1 DEF GoneToo, Told, Through
  <1>4. Media' /\ Offered' /\ RaisedMeansEnded'
    BY DEF Media, Through, Offered, RaisedMeansEnded
  <1> QED
    BY <1>2, <1>3, <1>4

-----------------------------------------------------------------------------
(* Steps of Telegram, and its updates.                                     *)

LEMMA UpdateEnds ==
  ASSUME Inv, EndInv, NEW c \in Calls, UpdateWaiting(c) \/ UpdateAnswer(c)
  PROVE  EndInv'
  <1> USE CallsAssumption DEF Inv, TypeOK, Unmade, EndInv, Calls,
          UpdateWaiting, UpdateAnswer, Arrives, State, Found
  <1>1. \A d \in Calls : Gone(d)' = Gone(d)
    BY DEF Gone
  <1>2. Sessions' /\ GoneSession' /\ GoneToo'
    BY <1>1 DEF Sessions, GoneSession, GoneToo
  <1>3. Told'
    <2>1. \A d \in In : st'[d] # "absent" => st[d] # "absent"
      OBVIOUS
    <2>2. \A d \in In : answer'[d] = "set" =>
            answer[d] = "set" \/ <<"accepted", d>> \in upd \/ <<"confirmed", d>> \in upd
      OBVIOUS
    <2>3. Told /\ upd' \subseteq upd /\ UNCHANGED <<known, srv, pc>>
      OBVIOUS
    <2> QED
      BY ONLY <2>1, <2>2, <2>3 DEF Told, Through
  <1>4. Media' /\ Offered' /\ RaisedMeansEnded'
    BY DEF Media, Through, Offered, RaisedMeansEnded
  <1> QED
    BY <1>2, <1>3, <1>4

LEMMA UpdateRequestedEnds ==
  ASSUME Inv, EndInv, NEW c \in Calls, UpdateRequested(c)
  PROVE  EndInv'
  <1> USE CallsAssumption DEF Inv, TypeOK, Unmade, EndInv, Calls
  <1>1. \A d \in Calls : Gone(d)' => Gone(d)
    BY DEF UpdateRequested, Gone
  <1>2. Sessions'
    BY DEF UpdateRequested, Arrives, Goes, Sessions
  <1>3. GoneSession'
    BY <1>1 DEF UpdateRequested, Arrives, Goes, GoneSession
  <1>4. \A d \in Calls : srv'[d] = srv[d] \/ srv'[d] = "over"
    BY DEF UpdateRequested
  <1>5. GoneToo'
    BY <1>1, <1>4 DEF GoneToo
  <1>6. Told'
    <2>1. \A d \in In : /\ st'[d] # "absent" => known'[d]
                        /\ pc'[d] = "keys" => pc[d] = "keys"
      <3>1. \A d \in In : st'[d] # "absent" => known'[d]
        <4>1. CASE UNCHANGED <<st, known>>
          BY <4>1 DEF Told
        <4>2. CASE st' = [st EXCEPT ![c] = "incoming"] /\ known' = [known EXCEPT ![c] = TRUE]
          BY <4>2 DEF Told
        <4> QED
          BY <4>1, <4>2 DEF UpdateRequested
      <3>2. \A d \in In : pc'[d] = "keys" => pc[d] = "keys"
        BY DEF UpdateRequested, Goes
      <3> QED
        BY <3>1, <3>2
    <2>2. \A d \in In : srv'[d] = srv[d] \/ srv'[d] = "over"
      BY <1>4
    <2>3. Told /\ upd' \subseteq upd /\ answer' = answer
      BY DEF UpdateRequested, Arrives
    <2> QED
      BY ONLY <2>1, <2>2, <2>3 DEF Told, Through
  <1>7. Media' /\ Offered' /\ RaisedMeansEnded'
    BY DEF UpdateRequested, Goes, Media, Through, Offered, RaisedMeansEnded
  <1> QED
    BY <1>2, <1>3, <1>5, <1>6, <1>7

LEMMA PeerEnds ==
  ASSUME Inv, EndInv, NEW c \in Calls, Peer(c)
  PROVE  EndInv'
  <1> USE CallsAssumption DEF Inv, TypeOK, EndInv, Calls
  <1>1. UNCHANGED <<st, known, answer, media, pc, ender, ntg>>
    BY DEF Peer, Server
  <1>2. \A d \in Calls : Gone(d)' = Gone(d)
    BY <1>1 DEF Gone
  <1>3. \A d \in Calls : srv'[d] = srv[d] \/ (srv[d] # "over" /\ (Through(d) => Through(d)'))
    BY DEF Peer, Server, Through
  <1>4. Sessions' /\ GoneSession' /\ GoneToo'
    BY <1>1, <1>2, <1>3 DEF Sessions, GoneSession, GoneToo
  <1>5. \A d \in In : /\ <<"accepted", d>> \in upd' => <<"accepted", d>> \in upd
                      /\ <<"discarded", d>> \in upd' => <<"discarded", d>> \in upd \/ srv'[d] = "over"
                      /\ <<"confirmed", d>> \in upd' => <<"confirmed", d>> \in upd \/ Through(d)'
    BY DEF Peer, Server, Through
  <1>6. Told'
    <2>1. \A d \in In : (srv[d] = "over" => srv'[d] = "over") /\ (Through(d) => Through(d)')
      BY <1>3 DEF Through
    <2>2. ASSUME NEW d \in In
          PROVE  /\ st'[d] # "absent" => known'[d]
                 /\ <<"discarded", d>> \in upd' => srv'[d] = "over"
                 /\ <<"accepted", d>> \notin upd'
                 /\ <<"confirmed", d>> \in upd' \/ answer'[d] = "set" \/ pc'[d] = "keys"
                      => Through(d)'
      BY <1>1, <1>5, <2>1 DEF Told
    <2> QED
      BY <2>2 DEF Told
  <1>7. Media' /\ Offered' /\ RaisedMeansEnded'
    BY <1>1, <1>3 DEF Media, Through, Offered, RaisedMeansEnded
  <1> QED
    BY <1>4, <1>6, <1>7

-----------------------------------------------------------------------------

LEMMA EndsStep == Inv /\ EndInv /\ [Next]_vars => EndInv'
  <1> SUFFICES ASSUME Inv, EndInv, [Next]_vars
               PROVE  EndInv'
    OBVIOUS
  <1>1. ASSUME NEW c \in Calls, SetupStep(c)
        PROVE  EndInv'
    BY <1>1, SetupEnds, RequestEnds, RequestedEnds, AnsweredEnds, ConnectEnds, ErrorEnds
       DEF SetupStep
  <1>2. ASSUME NEW c \in Calls, UpdateStep(c)
        PROVE  EndInv'
    BY <1>2, UpdateEnds, UpdateDiscardedEnds, UpdateRequestedEnds DEF UpdateStep
  <1>3. ASSUME NEW c \in Calls, ManagerStep(c)
        PROVE  EndInv'
    BY <1>3, CallEnds, AcceptEnds, HangupEnds, TaskCancelEnds DEF ManagerStep
  <1>4. ASSUME NEW c \in Calls, Peer(c)
        PROVE  EndInv'
    BY <1>4, PeerEnds
  <1>5. ASSUME NEW e \in Enders, EndStep(e)
        PROVE  EndInv'
    BY <1>5, EnderEnds
  <1>6. CASE MediaUp \/ MediaFails
    BY <1>6, MediaUpEnds, MediaFailsEnds
  <1>7. CASE UNCHANGED vars
    BY <1>7, EndStutter
  <1> QED
    BY <1>1, <1>2, <1>3, <1>4, <1>5, <1>6, <1>7 DEF Next, Quiet

\* When call() or accept() raises, the call is over, whichever await failed and whichever of
\* its ends came first: the except clauses of call() and _accept(), TaskCancel of _ring_users.
THEOREM RaisedIsOver == Spec => []RaisedMeansEnded
  <1>1. Init => Inv /\ EndInv
    BY Initial, EndInit
  <1>2. Inv /\ EndInv /\ [Next]_vars => Inv' /\ EndInv'
    BY Step, EndsStep
  <1>3. EndInv => RaisedMeansEnded
    BY DEF EndInv
  <1> QED
    BY <1>1, <1>2, <1>3, PTL DEF Spec

\* An incoming call that is over in the engine is over at Telegram, though _end_call tells
\* Telegram only when the end is local, and several may run for one call.
THEOREM OverAtTelegram == Spec => []EndedAtTelegram
  <1>1. Init => Inv /\ EndInv
    BY Initial, EndInit
  <1>2. Inv /\ EndInv /\ [Next]_vars => Inv' /\ EndInv'
    BY Step, EndsStep
  <1>3. EndInv => EndedAtTelegram
    BY DEF EndInv, GoneToo, Gone, EndedAtTelegram
  <1> QED
    BY <1>1, <1>2, <1>3, PTL DEF Spec

\* call() and accept() return only for a call that the far side has picked up and that has
\* been confirmed, although NTgCalls may connect the session of another call of the user.
THEOREM ReturnedIsUp == Spec => []ReturnedWasUp
  <1>1. Init => Inv /\ EndInv
    BY Initial, EndInit
  <1>2. Inv /\ EndInv /\ [Next]_vars => Inv' /\ EndInv'
    BY Step, EndsStep
  <1>3. EndInv => ReturnedWasUp
    BY DEF EndInv, Media, Through, ReturnedWasUp
  <1> QED
    BY <1>1, <1>2, <1>3, PTL DEF Spec

=============================================================================
