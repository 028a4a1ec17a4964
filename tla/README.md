# sipgram: verification project

TLA+ models of the call handling of sipgram (a gateway between a SIP PBX and Telegram calls), TLC
configurations that check them on small instances, and theorems about them whose proofs TLAPS checks.
`PROJECT.json` lists the runs, the lines of the source each definition models, the mutants every
property is tried against, the hazards the project aims at and the disagreements it found.

## The system

sipgram is one asyncio process. Everything below runs on one event loop, so code is atomic between two
awaits; the concurrency that matters is that of tasks interleaving at their awaits, of callbacks posted by
NTgCalls' worker threads (`call_soon_threadsafe`), and of the far ends: the PBX over SIP, Telegram over
MTProto, the users who type commands.

| Component | State | Operations | What must hold |
|---|---|---|---|
| **CallManager** (`manager.py`) | per user `UserState`: `tg`, `tg_pending`, `active`, `held`, `waiting`, `bridge`, `reconnect_task`, `lock`; `sip_bridges` | `_sip_incoming`, `_ring_users`, `_offer_waiting`, `_tg_incoming`, `_dial`, `_dial_direct`, `_dial_leg`, `_leg_ended`, `_tg_ended`, `_reconnect`, `_end_everything`, commands `_hangup`, `_switch`, `_decline`, `_transfer`, `_conference` | no live call outside every slot; the bridge joins the calls in the slots; a user is not busy for nothing; every end of a call is noticed; the lock is always given back; nobody rings for ever |
| **Group sessions** (`manager.py` 1163-1288, `tg/group.py`, `bridge.GroupBridge`) | `group_calls`, `GroupSession.legs`, the bridge's sources, `TgCallEngine.groups` | `_group`, `_move_to_group`, `_leave_group`, `_watch_group`, `_dial_into_group`, `join_group`, `leave_group` | a call is in one conversation; the end of a session reaches every call in it |
| **TgCallEngine** (`tg/calls.py`) | `calls` by user id, `TgCall.state`, its futures and signalling queues | `call`, `_accept`, `cancel`, `_end_call`, `_on_raw_update`, `_connection_changed` | one call per user; an ended call is ended everywhere; teardown of one call does not hit the next |
| **SIP dialogs** (`sip/account.py`) | `_calls`, `SipCall.state`, `_client_txns`, `_server_txns`, `last_final`, `final_timer` | `invite`, `_cancel`, `hangup`, `ringing`, `answer`, `reject`, `reinvite`, `refer`, `_handle_*`, retransmissions | the PBX and the gateway agree in the end whether a call is up, over a lossy network |
| **Registration, alerts** (`sip/account.py`, `alerts.py`) | `registered`, `_reg_task`, problems reported | `_register_loop`, `_register_once`, `_on_transport_lost`; `down`, `ok` | the registration is refreshed before it expires; the admin's picture follows the line |
| **TCP transport** (`sip/transport.py`) | reader and writer, the connect lock | `_connect`, `_read_loop`, `send` | a lost connection is not confused with the one that replaced it |
| **RTP, RTCP** (`sip/rtp.py`, `sip/rtcp.py`) | clock and marks of the stream, DTMF tasks, reception statistics, port pool | `send`, `send_dtmf`, `_handle_dtmf`, `InboundStats.on_packet`, `report_block`, `_read_blocks` | digits are heard as pressed; the loss reported is the loss there was |
| **Audio** (`audio/buffer.py`, `bridge.py`) | `PcmBuffer`, the primed flag, carries | `push`, `pull`, `_pump`, `_from_sip`, `update_rate` | audio in order, nothing twice, nothing older than the buffer |
| **Screening** (`schedule.py`) | none | windows over midnight, number patterns, decisions | total and consistent decisions |
| **History, preferences** (`history.py`, `prefs.py`) | tables in memory, their files | append, `prune`, rotate, atomic replace, load | a crash or a failing write loses nothing that was saved |
| **HTTP API** (`api.py`) | request times per client | rate limit, routes | the limit holds over a sliding window |
| **Gateway** (`gateway.py`) | the parts above | start, stop | order of start and stop |
| Bot, notifier (`tg/bot.py`, `tg/notify.py`) | menus, reachability | `send` | a failing notice must not break a call |

How they interact: `SipAccount` calls `CallManager._sip_incoming` and resolves `SipCall.ended` / `answered`;
`TgCallEngine` calls `_tg_incoming` and resolves `TgCall.ended`; the manager starts one watcher task per leg
(`_watch_leg`) and per Telegram call (`_watch_tg`) on those futures. Commands arrive through `_dispatch` from
the chat, the bot or the HTTP API. `CallBridge` moves audio between one leg and the Telegram call.

The hard behaviours: handlers of one user that overlap at awaits, some with `UserState.lock` and some
without; checks made before an await and used after it; the watchers of calls that end while another handler
is attaching them; retried Telegram calls; notices that raise in the middle of a handler; lost and duplicated
SIP messages and glare between CANCEL, 200 and BYE; Telegram updates that race the results of the requests
that caused them; worker-thread callbacks that name a user and not a call.

## The plan

1. `UserCalls`: the calls of one user, the core of the program. Done: model, runs, twelve theorems.
2. `TgEngine`: the engine's calls of one user against Telegram and NTgCalls, refining the abstract Telegram
   call `TgLeg` that `UserCalls` takes as its environment. Done: model, runs, five theorems.
3. `SipDialog`: INVITE dialogs in both directions over a network that loses, duplicates and reorders,
   refining the abstract session `SipSession`. Done: model, runs, six theorems. To do: REFER, INFO, TCP.
4. Several actors on one gateway account: `GroupCalls` (voice chats) and `RingAll` (several users on one call).
   Done: models, run, two theorems on `GroupCalls` and one on `RingAll`.
5. `Line`: registration with the TCP connection and the administrator's alerts; `StateFile`: history and
   preferences through crashes. Done: models, run, a theorem each.
6. Algorithms with a little state, each against a reference definition: `RtcpStats`, `RtpDtmf`, `AudioBridge`,
   `Screening`, `ApiGuard`. Done: models, run, a theorem each. To do: the port pool, the mixing of `GroupBridge`.
7. Proofs: every invariant, action property and refinement that a passing run checks is the property of a theorem.
   Open: the condition under which no leg is lost when there are outgoing ones too; for incoming legs it is
   `InTurn` of `NoLegIsLost`.

## How the modules correspond to the code

Every definition that stands for code is mapped to its lines in `PROJECT.json`. The property definitions and
the `...Mutant` operators stand for no code: a mutant is a plausible bug in the definition that follows it.

### UserCalls (`manager.py`)

The state is that of one user. `u` is `UserState` without its lock: the slots `active`, `held`, `waiting`, the
Telegram call `tg`, `pending` (`tg_pending`), `bridge` (the leg and the call it joins) and `reconnect`
(`reconnect_task`). `pairs` is `sip_bridges`, the attended transfers. `sip` and `tgs` are the states of the
calls as the two engines keep them.

A task is named by what it serves (a leg, a Telegram call, a command). `pc` is the await it stands at and `my`
its local variables. A step is what the task does between two awaits; where the code goes on without awaiting
(a free lock is taken at once, a result is there already), `running` names the task and nothing else moves.
The lock is `lockq`, the FIFO of `asyncio.Lock` with its holder at the head; a task that asks for the lock it
holds is in the queue twice and waits for ever, as in Python.

| Code | Actions |
|---|---|
| `_sip_incoming`, `_offer_waiting`, `_ring_users` | `Arrive`, `OfferReject`, `OfferWaiting`, `OfferRing`, `RingCall`, `RingFail`, `RingMissed`, `RingGone`, `RingCancelled`, `RingWin`, `RingAttach`, `WaitingTimeout` |
| `_watch_leg`, `_leg_ended`, `_resume_held` | `LegEnded`, `EndIdle`, `EndActive`, `EndResume`, `EndResumed`, `EndAnswerWaiting`, `EndHangTg`, `Unlock` |
| `_tg_incoming` | `TgIncoming`, `TgDecline`, `AcceptFail`, `AcceptOk`, `Accepted` |
| `_dial`, `_dial_leg` | `Consult`, `ConsultHold`, `ConsultRaise`, `ConsultHeld`, `Invite`, `DialResume`, `DialResumed`, `DialGiveUp`, `DialAttach` |
| `_dial_direct` | `Callback`, `CbCall`, `CbFail`, `CbWin`, `CbConnected`, `DirectAttach`, `DirectLost` |
| `_watch_tg`, `_tg_ended`, `_reconnect` | `TgEnded`, `TgDropped`, `TgDroppedLocked`, `Rec...` |
| `_end_everything`, `/hangup` | `Hangup`, `EndEverything`, `EeCancelled`, `EeLeg`, `EeTg` |
| `/switch`, `/decline`, `/transfer`, `/conf` | `Switch`, `SwitchToWaiting`, `SwitchToHeld`, `Switched...`, `Decline`, `Transfer...`, `Conference`, `Conf...` |
| notices that raise | `NotifyRaise`, at the labels that wait for a notice |

The far ends (`SipEnds`, `SipAnswers`, `TgEnds`) are the environment: they may act at any time or never.
Screening, do-not-disturb and the gateway's capacity appear as the choice to refuse a call. The results of
`hold()` and `unhold()` are ignored by the code, so that only the time they take is modelled.

### TgEngine and TgLeg (`tg/calls.py`)

`st` is `TgCall.state`, `known` whether the call has its id, `pc` where `call()` or `_accept()` stands, `ender`
the `_end_call` coroutines under way, `ntg` the session of NTgCalls for the user, and the remaining variables
are Telegram's view. `TgLeg` is what the manager takes for granted: one call of the user under way, a call that
is set up comes up or ends, one that is taken down only ends, an ended call stays ended. `LegSpec` in
`TgEngine` is that specification under the mapping `leg`; it is the same life `UserCalls` gives to `tgs`, so
that the two modules meet in `TgLeg`.

External, and modelled from the way `tg/calls.py` uses them: requests to NTgCalls take effect when they are
made and are awaited afterwards; requests to Telegram take effect at some moment while they are awaited;
updates come in any order, and one for a call whose id is not known yet is lost; NTgCalls has one session per
user, addressed by the user's id. Left out: signalling data, frames, group calls, the difference between
waiting and ringing, and a `DiscardCall` that fails. The number of concurrent `_end_call`s is bounded by
`Enders`: an end that finds none free waits for one.

### SipDialog and SipSession (`sip/account.py`)

One dialog over UDP, placed by either side, with the PBX at the other end. `gw` is the `SipCall` and its
coroutines, `table` is `_client_txns`, `fut` the future each `_send_request` waits for, `armed` the requests
that are being repeated, `cache` is `_server_txns` with the response each request was given, `last` is
`last_final` with `final_timer`. `net` is the set of datagrams under way: they arrive in any order, and in a
lossy scene are dropped; duplicates come from the repeats of both ends. The CANCEL shares the branch of the
INVITE, as `_cancel` builds it. `gaveUp` records that a deadline passed although copies were still being sent;
the agreement of the two ends is claimed only where that has not happened, since no protocol can have it when
every copy of a request is lost.

| Code | Actions |
|---|---|
| `invite`, `_invite_flow`, `_send_request` | `FlowStart`, `FlowChallenged`, `FlowFails`, `FlowUp`, `FlowTooLate`, `Deadline`, `Retransmit` |
| `hangup`, `_cancel` | `HangupNew`, `Cancel`, `Hangup`, `HangupReturns` |
| `hold`, `unhold`, `reinvite` | `Reinvite`, `ReinviteAgain`, `ReinviteDone`, `ReinviteRefused` |
| `ringing`, `answer`, `reject`, the repeats of the final response | `Ringing`, `Answer`, `Reject`, `RetransmitFinal`, `NoAck` |
| `_handle_response`, `_handle_request` and its handlers | `HandleResponse`, `Repeated`, `HandleNewInvite`, `HandleAck`, `HandleCancel`, `HandleBye`, `HandleReinvite`, `ReinviteAsNew` |

The PBX (`Pbx...`) is external: it challenges at most the first INVITE, answers every CANCEL and BYE, repeats
final responses until the ACK, may send re-INVITEs, and takes a BYE for a call it has just answered. The last
point matters: the gateway may send its BYE before the ACK of the PBX's 200 was sent, which RFC 3261 section 15
does not allow and which PBXes are known to accept. `SipSession` is what the dialog is for: the caller is up
only when the callee has accepted, the callee accepts once, and who has left does not come back.

Left out: REFER, INFO, UPDATE, the challenge of a re-INVITE, TCP, and of the descriptions everything but hold.

### The parts (`MCParts`)

Nine smaller components, each a module with an `Init`, `Next` and `vars` of its own under its own prefix. They
share no state with each other or with the modules above, so that `MCParts` puts them side by side: a behaviour
is one of one component, `part`, while the others rest.

| Module | Code | Actions |
|---|---|---|
| `GroupCalls` | `/group` and its sessions (`manager.py`), `GroupBridge`, the voice chats of the engine | `AskGroup`, `Found`, `NotFound`, `Joined` (`_group`, `join_group`); `Take`, `Add` (`_move_to_group`); `Invite`, `DialAnswered`, `DialFails`, `AnswersLate` (`_invite_to_group`, `_dial_into_group`); `AskStop`, `HangOne`, `StopDone` (`_leave_group`); `AskHangup`; `LegEnded`, `AfterNotice` (`_leg_ended`); `WatchGroup`, `WatchDone` (`_watch_group`); `Chat...` (the voice chat) |
| `RingAll` | `_sip_incoming` and `_ring_users` over several users, with the engine's calls | `SipIncoming`, `Tell`, `Place`, `Answers`, `Failed`, `Wins`, `NobodyWins`, `CancelLoser`, `Settled`; `Own...` for the users' own calls; `TgEnds`, `CallerGone`, `TalkEnds` |
| `Line` | `_register_loop`, `_register_once`, `_on_transport_lost`, `stop`; `TcpTransport._connect`; `Alerts` | `Wake`, `Connect`, `Granted`, `TooBrief`, `AskFails`, `ConnectionLost`, `LineStop`, `Left`; `ReportDown`, `SayDown`, `SayOk` |
| `StateFile` | `_save`, `_rotate`, `_load`, `prune` of `history.py` and `prefs.py` | `Change`, `Prune`, `Rotate`, `OpenTmp`, `WriteTmp`, `Replace`, `SaveFails`, `Restart` |
| `RtcpStats` | `InboundStats`, `RtcpSession` | `PacketArrives` (`OnPacket`), `RtcpReport` (`MakeReport`, `Fraction`), `FarReport`, `RtcpStart`, `RtcpSetRemote`, `RtcpClose` |
| `RtpDtmf` | `SipCall.send_dtmf`, `RtpSession.send`, `_dtmf_worker`, `_handle_dtmf` | `SendDtmf`, `DtmfBegin`, `DtmfEvent`, `DtmfEnd`, `DtmfGap`, `SendAudio`, `EndArrives`, `RtpClose` |
| `AudioBridge` | `CallBridge`, `PcmBuffer` | `BridgeStart`, `TgAudio` (`Push`), `Pump` (`Pull`), `MediaChanges`, `UpdateRate`, `FromSip`, `BridgeStop` |
| `Screening` | `Window.contains`, `screen`, `time_closed`, `CallManager._screen` | `ScreenCall` |
| `ApiGuard` | `_guard` of `api.py` | `Request`, the clock |

What each of them takes for granted:

- `GroupCalls`: what other commands do with calls in the slots is the matter of `UserCalls`. The hangups that end
  a session are one list, from which each of its enders takes, and those of `/hangup` are one step: a call hung
  up twice is hung up. A session and a voice chat are named after the command that made them.
- `RingAll`: one user's side of a ring is the matter of `UserCalls`. An extension on which nobody is free is
  refused, which is the code without call waiting. The end of a talk is noticed before the next call is placed;
  a call ended before it has its id is `bug_phantom_ring` and not repeated here.
- `Line`: the registrar grants more than ten seconds, since the code never renews within ten; the old read loop
  of a connection has ended before a new connection is opened; a message to the administrator is out before
  `down_after` has passed again.
- `RtcpStats`: one lost packet among more than 256 of an interval is reported as a fraction of 0, since the fraction
  is a whole number of 256ths (rtcp.py:83); `LossTrue` asks for a report of loss from one in 256 on.
- `RtpDtmf`: the path keeps the order of packets. The receiver is this code's own `_handle_dtmf`.
- `Screening`: whether a number is on a list is given; the day has `DayLen` instants, of which the last is the
  one that 24:00 is parsed to.
- `StateFile`: a rename is atomic and a file that was written and renamed is there after the crash of the
  process; the machine itself does not fail.

## What is checked

### Runs that pass

| Run | Instance | Shows |
|---|---|---|
| `calls_switch` | 2 callers, 1 dialled leg, 3 Telegram calls, 2 commands of `/switch`, `/decline` | `BridgeMatches`: the bridge, if there is one, joins the active leg and the Telegram call, or one that is over. `LegWatched`, `SlotsDistinct`: a leg in a slot has a watcher and stands in one slot. `TgServed`: a user whose Telegram call is up talks to somebody, or a task is about to see to it. `TgKept`: the Telegram call is replaced without having been given up only if it or its successor is over: no live call loses its place to another |
| `calls_dial` | 1 caller, 2 dialled legs, 2 Telegram calls, 2 commands of both outgoing modes, `/hangup`, `/transfer` | `PendingBacked`: a user who is busy with a pending call has a task that will clear it. `NoSelfWait`: no task asks for the lock it holds. `TypeOK` |
| `calls_faults` | 1 caller, 1 dialled leg, 3 Telegram calls, 1 command, reconnects, notices that raise | `LockHeld`: what runs between acquire and release holds the lock. `TgWatched`: the user's Telegram call always has a live watcher |
| `calls_live` | 2 callers, 2 Telegram calls, 1 command of `/switch`, `/decline`, `/transfer`, `/conf`, fair | `NoOrphanLeg`: no live leg that is watched is outside every slot and pair. `NeverLeftRinging`, `HangupEndsLegs`, `PendingSettles`, `LockServed` |
| `engine` | 1 call in each direction, 2 ends at a time, fair | `LegSpec` (refinement of `TgLeg`), `RaisedMeansEnded`: when a setup raises, its call is over and the user free. `EndedAtTelegram`: an incoming call that is over in the engine is over at Telegram. `ReturnedWasUp`: a setup returns only when the far side has picked up. `CallSettles`: every setup returns or raises, and every end that has begun is completed. `TypeOK` |
| `dialog` | a call placed over a lossy network; a call taken over a lossy network and refreshed by the PBX; a call taken with re-INVITEs from both ends | `AgreeAtRest`: once nothing is under way, both ends have the call or neither has. `HoldAgrees`: the gateway knows whether the PBX was told hold. `OneFinal`: one final response per request. `SessionSpec` (refinement of `SipSession`). `InviteSettles`, `AnswerIsHeard`. `TypeOK` |
| `parts` | the nine parts, one at a time | `OneConversation`: a call of a session is in no slot and no other session, and a running bridge has the calls of its session. `EndHangsUp`: who ends a session hangs up every call in it. `OneAnswers`: one user takes the call, and once the ring is over nobody else is called for it. `LeaseCovers`: a sleeping registration is renewed before it runs out. `LineSettles`: a line in reach ends up registered, and the administrator knows. `NothingLost`: what was saved survives. `LossTrue`: the loss reported is the loss there was, in the count exactly and in the fraction from one packet in 256. `DigitsHeard`: the digits are heard as pressed. `HeardInOrder`: the PBX hears what Telegram sent, in order. `ScreenTrue`: the windows are intervals of the week and each user is rung by their own rules only. `RateTrue`: no minute sees more requests than the limit |

### Runs that end in a violation

Each checks one sentence of the documentation, and TLC's counterexample is a behaviour of the code.

- `bug_reconnect_lock`: `_reconnect` calls `_end_everything` under the lock that `_end_everything` takes
  (manager.py:823 and 833). If the far end left during the reconnect the user's lock is never free again.
- `bug_switch_orphan`: during the `hold()` of `/switch` (manager.py:1013) a third caller is accepted as waiting;
  the next `/switch` overwrites `held` and the leg that was there stays connected, in no slot.
- `bug_phantom_ring`: a call that is ended while `phone.requestCall` is unanswered has no id to discard
  (tg/calls.py:402), and the id that comes afterwards is not discarded: Telegram goes on ringing.
- `bug_unacked_cancel`: CANCEL takes the place of the INVITE in `_client_txns` (sip/account.py:1168, 674), so
  that the final response to the INVITE is not ACKed.
- `bug_rtcp_wrap`: when the sequence number of a received stream wraps, `cycles` is added to both sides of the
  comparison (sip/rtcp.py:60), `max_seq` stays where it was, and every further packet adds another cycle: the
  reports speak of a loss that never happened. `parts` starts its stream where it does not wrap.

### Other disagreements met

These are what keeps a property out of the runs whose instance would violate it. Each is found by TLC when the
property is added to the instance named here (callers, dialled legs, Telegram calls, commands).

- `PendingBacked` with notices that raise, (1,0,1,0): a notice that raises in `_ring_users` (manager.py:420)
  leaves `tg_pending` set, and the user busy for good; README.md:541-542 has two reasons for a user who is busy
  although free, and this is a third.
- `/conf` moves the active leg, and the leg's watcher then finds it ended and hangs up the Telegram call
  (manager.py:1142, 769-772), while README.md:373 has the user joined to the conference.
- `HangupEndsLegs` ("hang up in Telegram to end everything", README.md:365) with `/dial`, (1,1,1,1):
  `_resume_held` runs without the lock (manager.py:615) and takes a leg
  back after the Telegram call is gone; with `/hangup`: `_end_everything` clears `tg_pending` of a caller that
  still rings.
- `NoOrphanLeg` with three legs and a switch, with outgoing calls, `/hangup` or reconnects; `LegWatched` with
  `/dial`, since `_dial_leg` resumes the held leg without the lock (manager.py:614-615) and so attaches one that
  has ended and whose watcher is gone; `BridgeMatches` with outgoing calls or reconnects; `TgServed` with notices
  that raise: variants of a state that is checked before an await and written after it.
- `_ring_users` clears `tg_pending` (manager.py:472) before it waits for the lock (479). In between the user counts
  as free, a second Telegram call is accepted or placed, and whichever task comes second overwrites `u.tg`. One of
  the two calls is over by then, as the engine has one call of a user, which is what `TgKept` says; the bridge may
  keep the older one until the next change.
- In `tg/calls.py`: an `_end_call` of an old call that is still in its discard when the next call is placed
  stops, by user id, the session of the new one (line 425); `accept()` between the stop and its completion
  leaves a session behind.
- In `sip/account.py`: a refusal is never repeated, since `_terminate` cancels the timer (163-165), so that a lost
  486 leaves the PBX waiting; the 32 seconds of an INVITE run on while the PBX rings, and the call is given up
  without CANCEL (1107); a re-INVITE that crosses our BYE is taken for a new call (773-779); a 200 without a
  usable codec is ACKed and its call ended without BYE (1126-1130); a call hung up before its flow has started
  is still sent.

- In the voice chats: two `/group` at once both find no session, and the second replaces the first, whose calls
  `/group stop`, which "ends everything" (README.md:374), does not reach; a `_leave_group` delayed by its hangups
  or its notice takes whatever session there is by then out of the table (manager.py:1175); a call that ends
  during the `unhold()` of its move joins the session as a dead leg, and a number that answers joins a session
  that has ended; a number that is not answered in time is left ringing (manager.py:1268). The bridge has no
  bound of 32 on its sources, and forgets none.
- In `ring_all`: capacity is read before the awaits, so that two callers together exceed `telegram.max_calls`,
  which README.md:53 and 324 call a limit; the losers are cancelled by user id (manager.py:456), whatever call
  the user has by then. A `_reconnect` whose assertion fails (manager.py:805) leaves `reconnect_task` set, and a
  notice that raises in `_end_everything` leaves calls up.
- In the smaller parts: `dtmf_busy` is cleared by the first of two overlapping `send_dtmf` requests
  (account.py:286), which lets audio through while the second plays; 24:00 becomes 23:59:59, so that a window up
  to midnight misses its last second; killed between the rotation and the write, the history starts empty although
  `history.json.1` holds the calls; `Alerts.cancel()` is called by nobody; a REGISTER under way when `stop()` is
  called leaves its binding at the registrar; signalling data that arrives while the stored ones are replayed
  overtakes them (tg/calls.py:274).

### Bounds

All bounds are the sizes of the sets of calls, commands and ends, and `MaxRe`, `MaxRefresh` and `Crowd` of
`SipDialog`. They are what the code's own limits and the hazards ask for. A user has one conversation, one
held call and one waiting: two callers and a dialled leg fill all slots, and the third caller is the one of
`bug_switch_orphan`. Two Telegram calls are a call and its successor, which is where stale names bite; a
reconnect needs the dropped call, its retry and one more, and so does a call that is accepted while another is
being attached. Two commands are enough for one to run inside the
awaits of the other. In the engine, one call in each direction makes both setups overlap with the ends of the
other, and two ends are any two of the manager's, the update's and the callback's at once. In the dialog, a second
re-INVITE of the gateway is the one whose refusal meets the hold of the first, and one of the PBX is enough
for glare. `Crowd` bounds how many datagrams a repeat may join: a repeat of a datagram that is under way adds
nothing to a set, so that it only limits how many late copies of different requests there are at once. The
safety properties of the dialog were also run, apart from this project's runs, with re-INVITEs in lossy scenes
in each direction, and with `Crowd = 2` without them.

In the parts: two commands and one user with both calls make a session, a second one that joins, stops or
replaces it, and a number dialled into either; two users and two callers make a ring with a loser and another
ring beside it. `Line` has three faults, which is one in each phase of a registration, and lifetimes at the least,
at the registrar's minimum and beyond. Two crashes are one during a save and one during the save after it; five
entries fill, rotate and prune a history of three. Four packets, two of them late, on a stream of sixteen numbers
are restart, loss, repeat and reordering, without the wrap. Two requests of three digits have a repeated digit at
the border. The buffer of eight units is overrun by twelve. The windows are all those of three instants and three
first days. Six requests within eight steps pass a limit of two per three steps.

Calls of a kind are interchangeable, and so are commands and ends; the safety runs use that as symmetry, the
runs with liveness properties do not.

### Fairness

`UserCalls`: weak fairness of each task's own steps and of the end of a transferred pair, since the event loop
runs every task that is ready and the requests the tasks wait for are answered or time out. Nothing is assumed
of far ends and users: a call may last for ever. `TgEngine`: weak fairness of the setup of each call and of
each end; none of Telegram's updates, the far side or the manager. `SipDialog`: weak fairness of delivery (a
datagram arrives or is dropped) and of the coroutines whose future is set; strong fairness of the deadlines,
because the clock does not wait for a chain of repeats to end; none of the PBX, of users or of repeats.
`Line`: weak fairness of its sleeps, of the requests, which are answered, refused or time out, of the clock and
of the messages to the administrator; none of the network, whose return `LineSettles` has as its premise.

### Deadlock

It is checked wherever the code may not stop. `Quiet` in `UserCalls` and `Over` in `SipDialog` are the states
in which everything has ended; a state with something left to do and no step is a deadlock. `calls_faults` and
`bug_reconnect_lock` do not check it: with reconnects the lock really is waited for by its own holder, which is
the finding of the latter. Neither do `parts` and `bug_rtcp_wrap`: a part is at rest when its script of packets,
calls, commands or requests is used up.

## What is proved

TLAPS proves these for every number of legs, calls, commands, users, packets and ends, and every setting of the
flags a theorem does not name, from the assumptions of the modules: the sets of calls, users and commands are
disjoint, `None`, `Nobody` and `"none"` are none of them, the flags are Booleans, sizes are numbers, a registrar grants
more than ten seconds, and windows and rules are what the configuration can hold. Some theorems have a hypothesis
on the constants, one (`NoLegIsLost`) also on the behaviour. Each marks where the code stops keeping the property, which a run or a behaviour recorded above
shows, and the instance of the run that checks the property satisfies it.

| Theorem | Hypothesis | Without it |
|---|---|---|
| `NeverSelfWaits` | no reconnection | `bug_reconnect_lock` |
| `PendingIsBacked`, `TgIsServed` | no notice raises | the notice of `_ring_users` that raises |
| `SlotsAreWatched`, `SlotsAreDistinct` | no `/dial` and no call back | a held leg resumed without the lock |
| `BridgeIsMatched` | the same, and no reconnection | the same, and a call placed while one is set up again |
| `NoLegIsLost` | incoming legs only, no `/dial` and no call back, no reconnection, no notice raises; and `InTurn` on the behaviour | `bug_switch_orphan`, a ring begun while another waits for the lock, and the behaviours of `NoOrphanLeg` recorded above |
| `TwoCallersAreKept` | the same flags, two callers and no `/hangup`, as in `calls_live`; nothing on the behaviour | the same |
| `LossIsTrue` | `NoWrap`: the stream ends before its numbers wrap, and a window of late packets is at most half of them | `bug_rtcp_wrap` |
| `PressedIsHeard` | `FewLost`: at most two packets are lost | all three packets of a digit's end are lost |

- `UserCallsProofs!TypeCorrect` and `LockIsHeld`. Neither is inductive alone. `_attach` builds the bridge from a
  leg that the task remembered before an await and from `u.tg`; that the bridge is a pair of calls needs
  `LocalsOK` (where a task will use a leg or a call it remembers, it remembers one) and `HolderTg` (`u.tg` cannot
  be cleared under a task that is about to attach a leg). `HolderTg` needs `LockHeld`: those tasks hold the lock,
  and so does whoever clears `u.tg`. `Inv` is the conjunction with the types. The proof has a lemma for each
  operator (what `Await`, `GoOn`, `Queue`, `Release` and the others preserve) and one for each handler.
- `UserCallsWatch!TgIsWatched`. `u.tg` is set when a call that some task placed, perhaps long before, is attached,
  and only then does its watcher start. `Placed` says that until then nothing has started on that call and no
  two tasks hold the same one; `RecInv` that the task `_end_everything` cancels is a reconnection or over, and
  never one that has become the watcher of a call. With `Inv` they make `TgWatched` inductive.
- `UserCallsQueue!TgIsKept`, `PendingIsBacked`, `TgIsServed` and `NeverSelfWaits`. These are about what the tasks do
  to each other, so the proof goes through the actions once: `Moves` says what a step of one task may do to the
  others (nothing, start one that was set aside, cancel the reconnection), to the queue of the lock, to the calls
  of the engine and to `u.tg`, and the invariants follow from `Moves` alone. `Orderly` is the strengthening: a leg set
  aside belongs to one task, the queue holds exactly the tasks that wait for the lock or hold it and the holder
  once, and the engine has one live call. `TgIsKept` is an action property and needs all of it.
- `UserCallsSlots!SlotsAreWatched`, `SlotsAreDistinct` and `BridgeIsMatched`. A leg that is being put on hold is in no
  slot and in the hands of a task; `Hands` says what that task knows of it and of the slots, and every step is either
  `Plain` (it leaves the slots alone) or done `Alone`, under the lock. For the bridge, `Off` says that between the
  end of the active leg and the attachment of the next there is no bridge, and `AccOrder`, `AccTg` and `AccOwn` that a
  call accepted beside an older one enters its slot only when that one is over, by the order of the queue.
- `UserCallsSlots!NoLegIsLost` and `TwoCallersAreKept`. `NoneLost` says where every live leg is: in a slot, in a transferred
  pair, or with a task in one of the five places in which a task works on a leg (`Holds`), which is more than
  `NoOrphanLeg` asks, since there a leg that a task merely remembers counts as well. A leg leaves its place only for
  another (`LegMove`), provided that no slot is written over. The active slot is not, because a user who is rung has no
  Telegram call (`RingTg`), an active leg without one waits for `_end_everything` (`ActiveTg`), and that task is in the
  queue before the ring (`RingOrder`); the held one is not, because `/switch` found it empty (`NoneHeld`). `InTurn` names
  the two points at which the code leaves this order: the lock of manager.py:479, waited for when `tg_pending` is clear
  already, and a third caller accepted during the `hold()` of manager.py:1013. `NoLegIsLost` says that there is no other
  way of losing one of any number of callers, and `TwoCallersAreKept` that two callers never come to either: while
  neither has been answered, no call of the user and no other task holds anything (`BothEarly`), and there is no third.
- `TgEngineProofs!TypeCorrect` and `ImplementsLeg`. The invariant is `TypeOK` with `OneActive` (a call is active
  exactly if it is the one in `TgCallEngine.calls`, whence one at a time) and `Unmade` (a call that was not made
  has no coroutine, no end and no request from Telegram). Every step is one of five forms by what it does to the
  calls' states, and `Simulates` maps each form to a step of `TgLeg` or to none.
- `TgEngineProofs!RaisedIsOver`, `OverAtTelegram` and `ReturnedIsUp`. One invariant, `EndInv`, for the three: `Sessions`
  and `GoneSession` (whose session NTgCalls holds, and that a call which is gone has one only if it was accepted while
  it was being discarded), `GoneToo` (an incoming call that is gone is over at Telegram, which fails without
  `GoneSession`), `Told` (updates under way say what is so), `Media` and `Offered`. `TakesDown` is what all ways of
  ending a call have in common; each action is shown to take a call down or to leave the ended ones alone.
- `SipDialogProofs!DialogHolds`, `TypeCorrect`, `OneFinalAnswer` and `ImplementsSession`. `DialogInv` has a part for each
  place in which the state of a dialog is kept: the coroutines (`FlowInv`, `HangupInv`, `ReInv`), the table of
  transactions, where a CANCEL takes the place of its INVITE (`TableInv`), the wire (`NetInv`: a response says what its
  sender remembers), and what the ends have answered for the state they are in (`RespInv`, `CalledInv`, `AskInv`,
  `AnswerInv`, `LastInv`). No part is inductive alone: that the PBX is up once it accepted an INVITE of ours rests on
  the wire, the wire on what the PBX remembers, and what a coroutine returns on both. `OneFinalAnswer` is an action
  property: `_server_txns` keeps a final response. For the refinement every action is told by what it does to the two
  ends of the session, which is one step of `SipSession` or none.
- `SipDialogProofs!Agree`. While things are under way the ends do differ. `AgreeInv` follows each difference until
  it is mended: a 200 that is not ACKed yet, a BYE under way, or the timer of the final response that will send one.
  At rest there is none of these.
- `SipDialogProofs!HoldIsKnown`. `HoldInv` says that the ends differ about hold exactly while a re-INVITE that the PBX
  accepted is waited for, and that what is under way of it says the opposite of `local_hold`.
  These six need no hypothesis but the types of the constants, for every number of re-INVITEs and every `Crowd`.
- `PartsProofs!SavedIsKept`. `NothingLost` speaks of the live and the rotated file. `SaveSteps` adds that the
  temporary file about to replace the live one was written whole and that only the history is rotated; that no
  table can be taken for a torn or an absent file is a lemma.
- `PartsProofs!LeaseIsKept`. `AwakeInTime` says by how much the lease outlives the sleep: `Wait(e)` is shorter than
  every lifetime `e` over ten seconds, and both shrink with the same clock. It is the assumption `LineAssumption`
  on what a registrar grants.
- `PartsProofs!OneTakesIt`. `RingInv` relates, for each user, the call it talks on, the call the engine has of it and
  the task of every ring: who talks for a caller is the winner of a ring that is done, and the engine has a call of a user
  for a caller only while the ring has a task for it, or for its winner. A loser may have answered too, so that the
  winner is told by the ring and not by who is up.
- `PartsProofs!HeardAsSent`. Audio is numbered as it is sent; what is held on the way rises, comes after what was
  heard and ends at the last unit sent, through an overrun (`PushAppends`) and a dry spell (`PullTakes`).
- `PartsProofs!LossIsTrue`. `Counting` is the relation between the counters of `InboundStats` and the packets heard (the
  highest number is that of the last, the count how many came), from which `MissingIs` computes the packets that have
  not come; `Reporting` says the same of the counters as they were at the last report.
- `PartsProofs!PressedIsHeard`. Digits are paired with the timestamps `s` they were sent with: `Sounded(s)` says which
  have ended and that the timestamps rise, `OnTheWay(s)` that the path carries what is left of three packets for
  each and the receiver is at most one digit behind the packets taken off it. `s` is bound by the invariant. Which
  digit comes at which place of all that is pressed (`PressedIs`) is shown from the recursion of `FlattenSeq`.
- `PartsProofs!RungByOwnRules`. `WindowsCover`: the test of the code, day by day and over midnight, is true at exactly
  the instants of the week that the window has (`Covered`), by cases of the day and of the side of midnight.
- `PartsProofs!RateIsTrue`. `Counted`: the hits kept are the last of the requests accepted, and those forgotten are
  more than a minute old; `Spaced`: an accepted request comes more than a minute after the one `RateLimit` before it.
  A minute that holds one request has room for `RateLimit - 1` after it.
- `GroupCallsProofs!OneAtATime` and `EndsReachAll`. `InTransit` says that a call which has left its slot and is not
  yet in a session belongs to one command and is nowhere else; `Dialled` the same of a number until it answers;
  `Named` that who names a session names one that has been made, and that a command makes only one, so that no
  session's calls are ever forgotten by another taking its name. `OrderStep`, `BridgeAddInv` and `EndStep` are the
  three kinds of steps: a command goes on, a call joins, something ends; each action is shown to be one of them.

Facts about all naturals or all places of a sequence are needed in three of these. The induction theorems of the
library take an operator as a parameter, which the provers cannot instantiate; `LeastNatural` and `UpFrom` state
instead that a set of naturals has a least element and that a set with a first one and every next one has all,
from the well-foundedness of `<`, and each use names its set.

Only model-checked: every liveness property, since liveness under fairness and `ENABLED` are outside what this
prover does. Of the properties with a hypothesis in the table, a run checks some outside it; where none does, nothing
is claimed there.

## What is not modelled

- Of the modelled components: the live card, recording and languages of `CallManager`; REFER, INFO, UPDATE and TCP
  of the dialogs; signalling data of Telegram calls; digest authentication, the alerts about Telegram and failed
  calls and the UDP keepalive of the line; the port pool and symmetric RTP; jitter and the times of sender reports;
  the mixing of `GroupBridge` and `SipSipBridge`; the wildcards of the number lists.
- An old read loop of `TcpTransport` that ends after a new connection is open (transport.py:151): `Line` assumes
  that it does not.
- Codecs, SDP and SIP parsing, digests, resampling, tones, Ogg and recording: data transformations over large
  domains, where tests say more than a model checker.
- Configuration, the doctor, the texts and menus of the bot, start-up: sequential, with nothing to interleave.
