------------------------------ MODULE TgEngine ------------------------------
(***************************************************************************)
(* The calls of TgCallEngine with one Telegram user                        *)
(* (src/sipgram/tg/calls.py), in both directions: the setup coroutines     *)
(* call() and _accept(), the teardown _end_call(), of which several may    *)
(* run for one call, the updates of Telegram and the callbacks of          *)
(* NTgCalls.                                                               *)
(*                                                                         *)
(* A setup is one task per call, "pc" the await it is at.  A step is what  *)
(* runs between two awaits.  A request to NTgCalls takes effect when it is *)
(* made, a request to Telegram while it is awaited.  Telegram's side of a  *)
(* call is "srv"; its updates are delivered in any order, and apart from   *)
(* the results of requests.  NTgCalls has one session per user, whatever   *)
(* call it was made for: a request for one call acts on the session of     *)
(* another.  Its connection callbacks are taken to be handled before the   *)
(* session they are about is replaced, as they are queued on the loop at   *)
(* once.                                                                   *)
(*                                                                         *)
(* Signalling data, audio frames and group calls are left out.             *)
(***************************************************************************)
EXTENDS FiniteSets

CONSTANTS
    Out,      \* calls placed by call()
    In,       \* calls the user places
    Enders,   \* the _end_call coroutines that may run at a time
    None      \* Python's None

Calls == Out \cup In

ASSUME CallsAssumption == Out \cap In = {} /\ None \notin Calls

VARIABLES
    st,      \* TgCall.state; "absent" before the object is made
    known,   \* is TgCall.call_id set?
    calls,   \* TgCallEngine.calls of the user
    answer,  \* TgCall._accepted of an outgoing call, _confirmed of an incoming one
    media,   \* TgCall.connected
    pc,      \* the await at which the setup of the call is
    ender,   \* the _end_call coroutines: their call, their await, and whether the setup waits for them
    ntg,     \* the session of the user in NTgCalls: the call that made it, and its stage
    srv,     \* the call at Telegram
    upd      \* updates on their way to the engine

vars == <<st, known, calls, answer, media, pc, ender, ntg, srv, upd>>

TgCallState == {"absent", "new", "requesting", "ringing", "incoming", "accepting",
                "connecting", "connected", "ended"}
Future == {"open", "set", "failed"}
SetupAt == {"creating", "configuring", "exchanging", "request", "ring", "keys", "confirm",
            "media", "refused", "failing"}
PcState == SetupAt \cup {"idle", "received", "offered", "returned", "raised"}
EndAt == {"idle", "discard", "stop"}
Stage == {"none", "created", "exchanged", "keyed", "connecting", "up", "broken"}
SrvState == {"none", "asked", "ringing", "accepted", "up", "over"}
Updates == {"waiting", "accepted", "requested", "confirmed", "discarded"} \X Calls

Free == [call |-> None, at |-> "idle", own |-> FALSE]
NoSession == [owner |-> None, at |-> "none"]

Init ==
    /\ st = [c \in Calls |-> "absent"] /\ known = [c \in Calls |-> FALSE]
    /\ calls = None
    /\ answer = [c \in Calls |-> "open"] /\ media = [c \in Calls |-> "open"]
    /\ pc = [c \in Calls |-> "idle"] /\ ender = [e \in Enders |-> Free]
    /\ ntg = NoSession
    /\ srv = [c \in Calls |-> "none"] /\ upd = {}

-----------------------------------------------------------------------------
(* What the handlers are made of.                                          *)

Active(c) == st[c] \notin {"absent", "ended"}

\* TgCallEngine.calls.get(user_id) is an active call.
Engaged == calls # None /\ Active(calls)

\* _by_call_id
Found(c) == calls = c /\ known[c]

\* _set_state: nothing leaves ENDED.
State(c, s) == st' = [st EXCEPT ![c] = IF @ = "ended" THEN @ ELSE s]

Goes(c, label) == pc' = [pc EXCEPT ![c] = label]

\* create_p2p_call is refused when the user has a session; the exception comes with the await.
Create(c) ==
    IF ntg.at = "none" THEN ntg' = [owner |-> c, at |-> "created"] /\ Goes(c, "creating")
                       ELSE UNCHANGED ntg /\ Goes(c, "refused")

\* A request of NTgCalls for call c that takes the session from one stage to the next.  On the
\* session of another call it succeeds and mixes up the keys.
Allows(stage) == ntg.at \in {stage, "broken"}

Native(from, to, c) ==
    /\ Allows(from)
    /\ ntg' = [owner |-> ntg.owner,
               at    |-> IF ntg.owner = c /\ ntg.at = from THEN to ELSE "broken"]

\* Mutant: only a call that connected is discarded at Telegram.
BeginEndMutant(c, local, own) ==
    /\ st[c] # "ended"
    /\ \E e \in Enders :
        /\ ender[e] = Free
        /\ LET at == IF local /\ known[c] /\ st[c] = "connected" THEN "discard" ELSE "stop"
           IN  /\ ender' = [ender EXCEPT ![e] = [call |-> c, at |-> at, own |-> own]]
               /\ ntg' = IF at = "stop" THEN NoSession ELSE ntg

\* The head of _end_call, up to its first await: peer and reason are told first, if the call
\* has an id and the end is local, then the session of the user is stopped.
BeginEnd(c, local, own) ==
    /\ st[c] # "ended"
    /\ \E e \in Enders :
        /\ ender[e] = Free
        /\ LET at == IF local /\ known[c] THEN "discard" ELSE "stop"
           IN  /\ ender' = [ender EXCEPT ![e] = [call |-> c, at |-> at, own |-> own]]
               /\ ntg' = IF at = "stop" THEN NoSession ELSE ntg

\* Mutant: call() raises without ending the call.
FailMutant(c) == Goes(c, "raised") /\ UNCHANGED <<ender, ntg>>

\* The except clauses of call() and _accept().
Fail(c) ==
    \/ /\ st[c] = "ended" /\ Goes(c, "raised")
       /\ UNCHANGED <<ender, ntg>>
    \/ BeginEnd(c, TRUE, TRUE) /\ Goes(c, "failing")

-----------------------------------------------------------------------------
(* Setting up: call() and _accept().                                       *)

\* Mutant: call() does not look for a call the user has already.
CallMutant(c) ==
    /\ c \in Out /\ pc[c] = "idle"
    /\ st' = [st EXCEPT ![c] = "new"] /\ calls' = c
    /\ Create(c)
    /\ UNCHANGED <<known, answer, media, ender, srv, upd>>

\* call(): a second call with the user is refused, before there is a TgCall.
Call(c) ==
    /\ c \in Out /\ pc[c] = "idle" /\ ~Engaged
    /\ st' = [st EXCEPT ![c] = "new"] /\ calls' = c
    /\ Create(c)
    /\ UNCHANGED <<known, answer, media, ender, srv, upd>>

\* The manager's accept() of a call that rings; one that has ended raises.
Accept(c) ==
    /\ c \in In /\ pc[c] = "offered"
    /\ IF st[c] = "incoming"
         THEN State(c, "accepting") /\ Create(c)
         ELSE Goes(c, "raised") /\ UNCHANGED <<st, ntg>>
    /\ UNCHANGED <<known, calls, answer, media, ender, srv, upd>>

\* _configure_media and _dh_config: any session of the user will do.
Configure(c) ==
    /\ pc[c] = "creating" /\ ntg.at # "none"
    /\ Goes(c, "configuring")
    /\ UNCHANGED <<st, known, calls, answer, media, ender, ntg, srv, upd>>

InitExchange(c) ==
    /\ pc[c] = "configuring" /\ Native("created", "exchanged", c)
    /\ Goes(c, "exchanging")
    /\ UNCHANGED <<st, known, calls, answer, media, ender, srv, upd>>

\* RequestCall or AcceptCall is sent.
Request(c) ==
    /\ pc[c] = "exchanging" /\ Goes(c, "request")
    /\ IF c \in Out THEN State(c, "requesting") /\ srv' = [srv EXCEPT ![c] = "asked"]
                    ELSE UNCHANGED <<st, srv>>
    /\ UNCHANGED <<known, calls, answer, media, ender, ntg, upd>>

\* ... and answered: from now on an outgoing call has an id.
Requested(c) ==
    /\ pc[c] = "request" /\ Goes(c, "ring")
    /\ \/ c \in Out /\ srv[c] # "asked" /\ UNCHANGED srv
       \/ c \in In /\ srv[c] = "ringing" /\ srv' = [srv EXCEPT ![c] = "accepted"]
    /\ known' = [known EXCEPT ![c] = TRUE]
    /\ UNCHANGED <<st, calls, answer, media, ender, ntg, upd>>

\* Mutant: _accept() does not wait for the caller to confirm.
AnsweredMutant(c) ==
    /\ pc[c] = "ring" /\ (answer[c] = "set" \/ c \in In)
    /\ IF c \in Out THEN State(c, "accepting") ELSE UNCHANGED st
    /\ \/ Native("exchanged", "keyed", c) /\ Goes(c, "keys") /\ UNCHANGED ender
       \/ ~Allows("exchanged") /\ Fail(c)
    /\ UNCHANGED <<known, calls, answer, media, srv, upd>>

\* The far side has picked up, or confirmed: exchange_keys.
Answered(c) ==
    /\ pc[c] = "ring" /\ answer[c] = "set"
    /\ IF c \in Out THEN State(c, "accepting") ELSE UNCHANGED st
    /\ \/ Native("exchanged", "keyed", c) /\ Goes(c, "keys") /\ UNCHANGED ender
       \/ ~Allows("exchanged") /\ Fail(c)
    /\ UNCHANGED <<known, calls, answer, media, srv, upd>>

Confirm(c) ==
    /\ c \in Out /\ pc[c] = "keys" /\ Goes(c, "confirm")
    /\ UNCHANGED <<st, known, calls, answer, media, ender, ntg, srv, upd>>

\* ConfirmCall succeeded, or nothing was to be confirmed: _connect_media.
Connect(c) ==
    /\ \/ c \in Out /\ pc[c] = "confirm" /\ srv[c] = "accepted" /\ srv' = [srv EXCEPT ![c] = "up"]
       \/ c \in In /\ pc[c] = "keys" /\ UNCHANGED srv
    /\ State(c, "connecting")
    /\ \/ Native("keyed", "connecting", c) /\ Goes(c, "media") /\ UNCHANGED ender
       \/ ~Allows("keyed") /\ Fail(c)
    /\ UNCHANGED <<known, calls, answer, media, upd>>

\* Media connected: call() or accept() returns.
Return(c) ==
    /\ pc[c] = "media" /\ media[c] = "set" /\ Goes(c, "returned")
    /\ UNCHANGED <<st, known, calls, answer, media, ender, ntg, srv, upd>>

\* The user has a session already, or lost it before it was configured or initialised.
NativeError(c) ==
    /\ \/ pc[c] = "refused"
       \/ pc[c] = "creating" /\ ntg.at = "none"
       \/ pc[c] = "configuring" /\ ~Allows("created")
    /\ Fail(c)
    /\ UNCHANGED <<st, known, calls, answer, media, srv, upd>>

\* Telegram refuses GetDhConfig, RequestCall, AcceptCall or ConfirmCall.
RpcError(c) ==
    /\ \/ pc[c] = "configuring" /\ UNCHANGED srv
       \/ c \in Out /\ pc[c] = "request" /\ srv[c] = "asked" /\ srv' = [srv EXCEPT ![c] = "over"]
       \/ c \in In /\ pc[c] = "request" /\ UNCHANGED srv
       \/ pc[c] = "confirm" /\ UNCHANGED srv
    /\ Fail(c)
    /\ UNCHANGED <<st, known, calls, answer, media, upd>>

\* Mutant: the ring of an outgoing call has no timeout.
WaitFailsMutant(c) ==
    /\ \/ pc[c] = "ring" /\ answer[c] = "failed"
       \/ pc[c] = "media" /\ media[c] # "set"
    /\ Fail(c)
    /\ UNCHANGED <<st, known, calls, answer, media, srv, upd>>

\* ring_timeout or CONNECT_TIMEOUT, or the future failed because the call was ended.
WaitFails(c) ==
    /\ \/ pc[c] = "ring" /\ answer[c] # "set"
       \/ pc[c] = "media" /\ media[c] # "set"
    /\ Fail(c)
    /\ UNCHANGED <<st, known, calls, answer, media, srv, upd>>

\* _ring_users cancels the task of a call it has ended.
TaskCancel(c) ==
    /\ c \in Out /\ pc[c] \in SetupAt /\ st[c] = "ended"
    /\ Goes(c, "raised")
    /\ ender' = [e \in Enders |-> IF ender[e].call = c /\ ender[e].own THEN Free ELSE ender[e]]
    /\ UNCHANGED <<st, known, calls, answer, media, ntg, srv, upd>>

-----------------------------------------------------------------------------
(* Taking down: _end_call().                                               *)

\* TgCall.hangup() and TgCallEngine.cancel(): the manager ends a call at any time.
Hangup(c) ==
    /\ Active(c) /\ BeginEnd(c, TRUE, FALSE)
    /\ UNCHANGED <<st, known, calls, answer, media, pc, srv, upd>>

\* Telegram has been told; the session of the user is stopped, whichever it is by now.
Discarded(e) ==
    /\ ender[e].at = "discard"
    /\ ender' = [ender EXCEPT ![e].at = "stop"]
    /\ srv' = [srv EXCEPT ![ender[e].call] = "over"]
    /\ ntg' = NoSession
    /\ UNCHANGED <<st, known, calls, answer, media, pc, upd>>

\* Mutant: the futures are cancelled instead of failed.
FailOpenMutant(f, c) == [f EXCEPT ![c] = IF @ = "open" THEN "cancelled" ELSE @]

\* The rest of _end_call: whoever waits for a future of the call fails, and the call is over.
FailOpen(f, c) == [f EXCEPT ![c] = IF @ = "open" THEN "failed" ELSE @]

Stopped(e) ==
    LET c == ender[e].call IN
    /\ ender[e].at = "stop"
    /\ ender' = [ender EXCEPT ![e] = Free]
    /\ answer' = FailOpen(answer, c) /\ media' = FailOpen(media, c)
    /\ calls' = IF calls = c THEN None ELSE calls
    /\ State(c, "ended")
    /\ IF ender[e].own THEN Goes(c, "raised") ELSE UNCHANGED pc
    /\ UNCHANGED <<known, ntg, srv, upd>>

-----------------------------------------------------------------------------
(* _connection_changed: the callbacks name the user, not the call.         *)

MediaUp ==
    /\ ntg.at = "connecting" /\ ntg' = [ntg EXCEPT !.at = "up"]
    /\ IF calls = None THEN UNCHANGED <<st, media>>
       ELSE /\ media' = [media EXCEPT ![calls] = IF @ = "open" THEN "set" ELSE @]
            /\ State(calls, "connected")
    /\ UNCHANGED <<known, calls, answer, pc, ender, srv, upd>>

MediaFails ==
    /\ ntg.at \in {"connecting", "up"} /\ Engaged
    /\ BeginEnd(calls, TRUE, FALSE)
    /\ UNCHANGED <<st, known, calls, answer, media, pc, srv, upd>>

-----------------------------------------------------------------------------
(* The updates of Telegram: _on_raw_update.                                *)

Arrives(kind, c) == <<kind, c>> \in upd /\ upd' = upd \ {<<kind, c>>}

UpdateWaiting(c) ==
    /\ Arrives("waiting", c)
    /\ IF Found(c) /\ st[c] = "requesting" THEN State(c, "ringing") ELSE UNCHANGED st
    /\ UNCHANGED <<known, calls, answer, media, pc, ender, ntg, srv>>

\* PhoneCallAccepted of an outgoing call, PhoneCall of an incoming one.
UpdateAnswer(c) ==
    /\ Arrives("accepted", c) \/ Arrives("confirmed", c)
    /\ answer' = IF Found(c) /\ answer[c] = "open" THEN [answer EXCEPT ![c] = "set"] ELSE answer
    /\ UNCHANGED <<st, known, calls, media, pc, ender, ntg, srv>>

UpdateDiscarded(c) ==
    /\ Arrives("discarded", c)
    /\ \/ Found(c) /\ BeginEnd(c, FALSE, FALSE)
       \/ ~(Found(c) /\ Active(c)) /\ UNCHANGED <<ender, ntg>>
    /\ UNCHANGED <<st, known, calls, answer, media, pc, srv>>

\* _incoming_requested: a second call is declined as busy.
UpdateRequested(c) ==
    /\ Arrives("requested", c)
    /\ IF Engaged
         THEN srv' = [srv EXCEPT ![c] = "over"] /\ UNCHANGED <<st, known, calls, pc>>
         ELSE /\ st' = [st EXCEPT ![c] = "incoming"] /\ known' = [known EXCEPT ![c] = TRUE]
              /\ calls' = c /\ Goes(c, "received")
              /\ UNCHANGED srv
    /\ UNCHANGED <<answer, media, ender, ntg>>

\* ReceivedCall has been answered: the manager gets the call, whatever became of it meanwhile.
Offer(c) ==
    /\ pc[c] = "received" /\ Goes(c, "offered")
    /\ UNCHANGED <<st, known, calls, answer, media, ender, ntg, srv, upd>>

-----------------------------------------------------------------------------
(* Telegram and the user: external.                                        *)

Server(c, from, to, news) ==
    /\ srv[c] \in from /\ srv' = [srv EXCEPT ![c] = to]
    /\ upd' = upd \cup {<<k, c>> : k \in news}
    /\ UNCHANGED <<st, known, calls, answer, media, pc, ender, ntg>>

Peer(c) ==
    \/ c \in Out /\ Server(c, {"asked"}, "ringing", {"waiting"})
    \/ c \in Out /\ Server(c, {"ringing"}, "accepted", {"accepted"})
    \/ c \in In /\ Server(c, {"none"}, "ringing", {"requested"})
    \/ c \in In /\ Server(c, {"accepted"}, "up", {"confirmed"})
    \/ Server(c, {"ringing", "accepted", "up"}, "over", {"discarded"})

-----------------------------------------------------------------------------

SetupStep(c) ==
    \/ Configure(c) \/ InitExchange(c) \/ Request(c) \/ Requested(c) \/ Answered(c)
    \/ Confirm(c) \/ Connect(c) \/ Return(c)
    \/ NativeError(c) \/ RpcError(c) \/ WaitFails(c) \/ Offer(c)

UpdateStep(c) == UpdateWaiting(c) \/ UpdateAnswer(c) \/ UpdateDiscarded(c) \/ UpdateRequested(c)

ManagerStep(c) == Call(c) \/ Accept(c) \/ Hangup(c) \/ TaskCancel(c)

EndStep(e) == Discarded(e) \/ Stopped(e)

\* Every call of the run has been made and is settled.
Quiet ==
    /\ upd = {} /\ \A e \in Enders : ender[e] = Free
    /\ \A c \in Out : pc[c] # "idle"
    /\ \A c \in Calls : pc[c] \notin SetupAt /\ ~Active(c)
    /\ UNCHANGED vars

Next ==
    \/ \E c \in Calls : SetupStep(c) \/ UpdateStep(c) \/ ManagerStep(c) \/ Peer(c)
    \/ \E e \in Enders : EndStep(e)
    \/ MediaUp \/ MediaFails
    \/ Quiet

Spec == Init /\ [][Next]_vars

\* Requests are answered, by the far side or by the timeout of the wait.
FairSpec == Spec /\ (\A c \in Calls : WF_vars(SetupStep(c)))
                 /\ (\A e \in Enders : WF_vars(EndStep(e)))

-----------------------------------------------------------------------------
(* Properties.                                                             *)

TypeOK ==
    /\ st \in [Calls -> TgCallState] /\ known \in [Calls -> BOOLEAN]
    /\ calls \in Calls \cup {None}
    /\ answer \in [Calls -> Future] /\ media \in [Calls -> Future]
    /\ pc \in [Calls -> PcState]
    /\ ender \in [Enders -> [call : Calls \cup {None}, at : EndAt, own : BOOLEAN]]
    /\ ntg \in [owner : Calls \cup {None}, at : Stage]
    /\ srv \in [Calls -> SrvState] /\ upd \subseteq Updates

\* What the manager relies on: a call as TgLeg has it.
Ending(c) == \E e \in Enders : ender[e].call = c

LegOf(c) ==
    CASE st[c] = "absent" -> "none"
      [] st[c] = "ended"  -> "ended"
      [] Active(c) /\ Ending(c) -> "closing"
      [] Active(c) /\ ~Ending(c) /\ pc[c] = "returned" -> "up"
      [] Active(c) /\ ~Ending(c) /\ pc[c] # "returned" -> "setup"

Leg == [c \in Calls |-> LegOf(c)]

L == INSTANCE TgLeg WITH leg <- Leg

\* The engine implements the Telegram call of UserCalls: one call of the user at a time, and
\* a call being ended only ends.
LegSpec == L!LegSpec

\* When call() or accept() raises, the call is over: its future "ended" is done and the user
\* is free, whichever await failed and whoever else was ending the call.
RaisedMeansEnded == \A c \in Calls : pc[c] = "raised" => st[c] = "ended"

\* Nobody goes on ringing the gateway: an incoming call that is over in the engine is over at
\* Telegram, though several _end_call may run for it, with and without a request of their own.
EndedAtTelegram == \A c \in In : st[c] = "ended" => srv[c] = "over"

\* call() returns only when the far side has picked up and has been confirmed.
ReturnedWasUp == \A c \in Calls : pc[c] = "returned" => srv[c] \in {"up", "over"}

\* Every call settles: its setup returns or raises, and whoever has begun to end it completes
\* the end, whatever the far side does. With LegSpec, a call whose end is completed is ended.
CallSettles == \A c \in Calls :
    (pc[c] \in SetupAt \/ Ending(c)) ~> (pc[c] \notin SetupAt /\ ~Ending(c))

\* The gateway has one call to the user at Telegram at a time.
OneCallPlaced == \A c, d \in Out :
    {srv[c], srv[d]} \subseteq {"ringing", "accepted", "up"} => c = d

=============================================================================
