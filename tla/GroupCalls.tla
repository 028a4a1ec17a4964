----------------------------- MODULE GroupCalls -----------------------------
(***************************************************************************)
(* Conversations moved into the voice chat of a Telegram group: /group and *)
(* the group's sessions (manager.py), their bridge (bridge.py,             *)
(* GroupBridge) and the voice chat (tg/calls.py, tg/group.py).             *)
(*                                                                         *)
(* The users share one gateway account, and so one session at a time.      *)
(* Each begins in a call, some with another one on hold; what their other  *)
(* commands do with these calls is the matter of UserCalls.  A session and *)
(* a voice chat are named after the command that made them.                *)
(***************************************************************************)
CONSTANTS
    Users,        \* users of the gateway account
    Holding,      \* those with a held call, too
    Groupings,    \* bound: the /group and /hangup commands
    Dialling,     \* those of them that may have a number dialled into the session
    Nobody        \* a model value

Own(u) == {<<u, "held">>, <<u, "active">>}
Number(g) == <<g, "dialled">>
GroupLegs == {<<u, "active">> : u \in Users} \cup {<<u, "held">> : u \in Holding} \cup {Number(g) : g \in Dialling}

ASSUME GroupAssumption == Holding \subseteq Users /\ Dialling \subseteq Groupings /\ Users \cap Groupings = {}
                           /\ Nobody \notin Users \cup Groupings

VARIABLES
    call,         \* the SIP calls: "new", "ringing", "up", "down"
    slot,         \* the user's slot they are in: "active", "held" or "none"
    hook,         \* call.on_audio: the session whose bridge gets the audio, "user" for a CallBridge
    ending,       \* the waiter of _watch_leg: off, on, in the notice of a session's lost leg, gone
    session,      \* the GroupSession each command made: its chat, bridge, legs and _watch_group
    chat,         \* the TgGroupCall each command made
    here,         \* TgCallEngine.groups: the voice chat the account is in
    current,      \* CallManager.group_calls: the gateway's session
    order         \* the commands: what each is at, and for whom

groupVars == <<call, slot, hook, ending, session, chat, here, current, order>>

NoSession == [chat |-> Nobody, running |-> FALSE, bridge |-> {}, legs |-> {}, watch |-> "off", todo |-> {}]

\* TgGroupCall.ended is set.
Over(g) == chat[session[g].chat] \in {"failed", "over"}

SessionsOf(l) == {s \in Groupings : l \in session[s].legs}
\* _group_of looks where the manager does: a session that another has replaced is not found.
GroupOf(l) == SessionsOf(l) \cap {current}

GroupInit ==
    /\ call = [l \in GroupLegs |-> IF l[1] \in Users THEN "up" ELSE "new"]
    /\ slot = [l \in GroupLegs |-> IF l[1] \in Users THEN l[2] ELSE "none"]
    /\ hook = [l \in GroupLegs |-> IF slot[l] = "active" THEN "user" ELSE Nobody]
    /\ ending = [l \in GroupLegs |-> IF l[1] \in Users THEN [pc |-> "on", of |-> Nobody] ELSE [pc |-> "off", of |-> Nobody]]
    /\ session = [g \in Groupings |-> NoSession]
    /\ chat = [g \in Groupings |-> "none"]
    /\ here = Nobody /\ current = Nobody
    /\ order = [g \in Groupings |-> [pc |-> "idle", user |-> Nobody, kind |-> "none", of |-> Nobody, todo |-> {}]]

-----------------------------------------------------------------------------
(* GroupBridge *)

BridgeAdd(s, l) == /\ session' = [session EXCEPT ![s].legs = @ \cup {l}, ![s].bridge = @ \cup {l}]
                   /\ hook' = [hook EXCEPT ![l] = s]
Unhooked(legs) == [l \in GroupLegs |-> IF l \in legs THEN Nobody ELSE hook[l]]

\* A session that is ended: its bridge stops, unless it has, and those of `doomed` will be hung up.
GroupBridgeStop(s, watch, doomed) ==
    [chat |-> session[s].chat, running |-> FALSE, bridge |-> IF session[s].running THEN {} ELSE session[s].bridge,
     legs |-> session[s].legs, watch |-> watch, todo |-> session[s].todo \cup doomed]
StoppedHooks(s) == IF session[s].running THEN Unhooked(session[s].bridge) ELSE hook

-----------------------------------------------------------------------------
(* The voice chat *)

\* leave_group
Leave(c) == chat' = IF chat[c] = "up" THEN [chat EXCEPT ![c] = "leaving"] ELSE chat

ChatUp(c) ==
    /\ chat[c] = "joining" /\ chat' = [chat EXCEPT ![c] = "up"]
    /\ UNCHANGED <<call, slot, hook, ending, session, here, current, order>>

\* The request is refused, or the media does not connect in time.
ChatFails(c) ==
    /\ chat[c] = "joining" /\ chat' = [chat EXCEPT ![c] = "failed"] /\ here' = Nobody
    /\ UNCHANGED <<call, slot, hook, ending, session, current, order>>

\* The media is lost, or somebody ends the voice chat.
ChatDrops(c) ==
    /\ chat[c] = "up" /\ Leave(c)
    /\ UNCHANGED <<call, slot, hook, ending, session, here, current, order>>

\* The account has told Telegram and stopped the media.
ChatOver(c) ==
    /\ chat[c] = "leaving" /\ chat' = [chat EXCEPT ![c] = "over"]
    /\ here' = IF here = c THEN Nobody ELSE here
    /\ UNCHANGED <<call, slot, hook, ending, session, current, order>>

-----------------------------------------------------------------------------
(* /group *)

To(g, pc) == order' = [order EXCEPT ![g].pc = pc]
Done(g) == order' = [order EXCEPT ![g] = [pc |-> "done", user |-> order[g].user, kind |-> "none", of |-> Nobody,
                                          todo |-> {}]]

\* /group: into the session there is, or into a voice chat that is looked up first.
AskGroup(g, u, kind) ==
    /\ order[g].pc = "idle"
    /\ order' = [order EXCEPT ![g] = [pc |-> IF current = Nobody THEN "find" ELSE "take",
                                      user |-> u, kind |-> kind, of |-> current, todo |-> {}]]
    /\ UNCHANGED <<call, slot, hook, ending, session, chat, here, current>>

SessionMade(g, c) ==
    /\ session' = [session EXCEPT ![g] = [chat |-> c, running |-> TRUE, bridge |-> {}, legs |-> {}, watch |-> "on",
                                                  todo |-> {}]]
    /\ current' = g
    /\ order' = [order EXCEPT ![g].pc = "take", ![g].of = g]

\* input_group_call is back; a voice chat the account is in, or is joining, is shared.
Found(g) ==
    /\ order[g].pc = "find"
    /\ IF here # Nobody THEN SessionMade(g, here) /\ UNCHANGED <<chat, here>>
       ELSE /\ chat' = [chat EXCEPT ![g] = "joining"] /\ here' = g /\ To(g, "join")
            /\ UNCHANGED <<session, current>>
    /\ UNCHANGED <<call, slot, hook, ending>>

\* There is no such group, or no voice chat can be started in it.
NotFound(g) ==
    /\ order[g].pc = "find" /\ Done(g)
    /\ UNCHANGED <<call, slot, hook, ending, session, chat, here, current>>

Joined(g) ==
    /\ order[g].pc = "join" /\ chat[g] # "joining"
    /\ IF chat[g] = "failed" THEN Done(g) /\ UNCHANGED <<session, current>> ELSE SessionMade(g, g)
    /\ UNCHANGED <<call, slot, hook, ending, chat, here>>

\* _move_to_group: under the lock the user's live calls leave their slots.
Taken(g) == {l \in Own(order[g].user) \cap GroupLegs : slot[l] # "none" /\ call[l] = "up"}
\* Mutant: the held call stays in its slot.
TakeMutant(g) ==
    /\ order[g].pc = "take"
    /\ slot' = [l \in GroupLegs |-> IF l \in Taken(g) /\ slot[l] = "active" THEN "none" ELSE slot[l]]
    /\ hook' = Unhooked({l \in Taken(g) : slot[l] = "active"})
    /\ order' = [order EXCEPT ![g].pc = "move", ![g].todo = Taken(g)]
    /\ UNCHANGED <<call, ending, session, chat, here, current>>

Take(g) ==
    /\ order[g].pc = "take"
    /\ slot' = [l \in GroupLegs |-> IF l \in Taken(g) THEN "none" ELSE slot[l]]
    /\ hook' = Unhooked({l \in Taken(g) : slot[l] = "active"})
    /\ order' = [order EXCEPT ![g].pc = "move", ![g].todo = Taken(g)]
    /\ UNCHANGED <<call, ending, session, chat, here, current>>

\* unhold() is back, the held call's first: whatever has become of the call or the session since,
\* the one joins the other.
Add(g) ==
    /\ order[g].pc = "move"
    /\ \E l \in order[g].todo :
        /\ l[2] = "held" \/ <<order[g].user, "held">> \notin order[g].todo
        /\ BridgeAdd(order[g].of, l)
        /\ order' = [order EXCEPT ![g].todo = @ \ {l}]
    /\ UNCHANGED <<call, slot, ending, chat, here, current>>

\* _invite_to_group; a number is dialled.
Invite(g) ==
    /\ order[g].pc = "move" /\ order[g].todo = {}
    /\ IF order[g].kind = "dial" THEN call' = [call EXCEPT ![Number(g)] = "ringing"] /\ To(g, "dial")
       ELSE UNCHANGED call /\ Done(g)
    /\ UNCHANGED <<slot, hook, ending, session, chat, here, current>>

\* The session the number was dialled for may be over.
DialAnswered(g) ==
    /\ order[g].pc = "dial" /\ call[Number(g)] = "ringing"
    /\ call' = [call EXCEPT ![Number(g)] = "up"]
    /\ BridgeAdd(order[g].of, Number(g))
    /\ ending' = [ending EXCEPT ![Number(g)].pc = "on"]
    /\ Done(g)
    /\ UNCHANGED <<slot, chat, here, current>>

\* The number is refused; or nobody answers in time, and the call is left as it is.
DialFails(g) ==
    /\ order[g].pc = "dial" /\ Done(g)
    /\ call' \in {call, [call EXCEPT ![Number(g)] = "down"]}
    /\ UNCHANGED <<slot, hook, ending, session, chat, here, current>>

\* /group stop: _leave_group, with its hangups one after the other.
AskStop(g, u) ==
    /\ order[g].pc = "idle"
    /\ order' = [order EXCEPT ![g] = [pc |-> IF current = Nobody THEN "done" ELSE "stop",
                                      user |-> u, kind |-> "none", of |-> current, todo |-> {}]]
    /\ IF current = Nobody THEN UNCHANGED <<session, hook>>
       ELSE /\ session' = [session EXCEPT ![current] = GroupBridgeStop(current, session[current].watch, session[current].legs)]
            /\ hook' = StoppedHooks(current)
    /\ UNCHANGED <<call, slot, ending, chat, here, current>>

\* session.call.leave() comes when all the calls are down.
StopDone(g) ==
    /\ order[g].pc = "stop" /\ session[order[g].of].todo = {}
    /\ session' = [session EXCEPT ![order[g].of].legs = {}]
    /\ current' = Nobody
    /\ Leave(session[order[g].of].chat)
    /\ Done(g)
    /\ UNCHANGED <<call, slot, hook, ending, here>>

\* /hangup of a user whose calls are all in the voice chat.
AskHangup(g, u) ==
    /\ order[g].pc = "idle" /\ current # Nobody
    /\ \A l \in Own(u) \cap GroupLegs : slot[l] = "none"
    /\ LET mine == {l \in session[current].legs : l[1] = u \/ (l[1] \in Groupings /\ order[l[1]].user = u)}
       IN call' = [l \in GroupLegs |-> IF l \in mine THEN "down" ELSE call[l]]
    /\ order' = [order EXCEPT ![g] = [pc |-> "done", user |-> u, kind |-> "none", of |-> Nobody, todo |-> {}]]
    /\ UNCHANGED <<slot, hook, ending, session, chat, here, current>>

-----------------------------------------------------------------------------
(* The ends of calls and of voice chats *)

\* The PBX ends a call; one the gateway gave up dialling may be answered first.
LegDrops(l) ==
    /\ call[l] = "up" /\ call' = [call EXCEPT ![l] = "down"]
    /\ UNCHANGED <<slot, hook, ending, session, chat, here, current, order>>

AnswersLate(g) ==
    /\ order[g].pc = "done" /\ call[Number(g)] = "ringing"
    /\ call' \in {[call EXCEPT ![Number(g)] = "up"], [call EXCEPT ![Number(g)] = "down"]}
    /\ UNCHANGED <<slot, hook, ending, session, chat, here, current, order>>

\* _leg_ended, for a call of a session up to its notice.
LegEnded(l) ==
    /\ call[l] = "down" /\ ending[l].pc = "on"
    /\ IF GroupOf(l) = {}
       THEN /\ ending' = [ending EXCEPT ![l].pc = "gone"] /\ slot' = [slot EXCEPT ![l] = "none"]
            /\ hook' = IF slot[l] = "active" THEN Unhooked({l}) ELSE hook
            /\ UNCHANGED session
       ELSE \E s \in GroupOf(l) :
            /\ ending' = [ending EXCEPT ![l] = [pc |-> "notice", of |-> s]]
            /\ session' = [session EXCEPT ![s].legs = @ \ {l}, ![s].bridge = @ \ {l}]
            /\ hook' = IF l \in session[s].bridge THEN Unhooked({l}) ELSE hook
            /\ UNCHANGED slot
    /\ UNCHANGED <<call, chat, here, current, order>>

\* With its last call the session goes; whichever session the gateway has by now goes with it.
AfterNotice(l) ==
    /\ ending[l].pc = "notice" /\ ending' = [ending EXCEPT ![l] = [pc |-> "gone", of |-> Nobody]]
    /\ LET s == ending[l].of
       IN IF session[s].legs # {} THEN UNCHANGED <<session, hook, current, chat>>
          ELSE /\ session' = [session EXCEPT ![s] = GroupBridgeStop(s, session[s].watch, {})]
               /\ hook' = StoppedHooks(s)
               /\ current' = Nobody
               /\ Leave(session[s].chat)
    /\ UNCHANGED <<call, slot, here, order>>

\* Mutant: the calls of the session are not hung up.
WatchGroupMutant(s) ==
    /\ session[s].watch = "on" /\ Over(s)
    /\ IF current = s
       THEN /\ session' = [session EXCEPT ![s] = GroupBridgeStop(s, "closing", {})]
            /\ hook' = StoppedHooks(s)
       ELSE session' = [session EXCEPT ![s].watch = "gone"] /\ UNCHANGED hook
    /\ UNCHANGED <<call, slot, ending, chat, here, current, order>>

\* _watch_group: nothing, if the gateway has another session by now.
WatchGroup(s) ==
    /\ session[s].watch = "on" /\ Over(s)
    /\ IF current = s
       THEN /\ session' = [session EXCEPT ![s] = GroupBridgeStop(s, "closing", session[s].legs)]
            /\ hook' = StoppedHooks(s)
       ELSE session' = [session EXCEPT ![s].watch = "gone"] /\ UNCHANGED hook
    /\ UNCHANGED <<call, slot, ending, chat, here, current, order>>

\* One hangup of those that end a session; each is awaited before the next.
HangOne(s) ==
    /\ \E l \in session[s].todo :
        /\ session' = [session EXCEPT ![s].todo = @ \ {l}]
        /\ call' = IF call[l] = "up" THEN [call EXCEPT ![l] = "down"] ELSE call
    /\ UNCHANGED <<slot, hook, ending, chat, here, current, order>>

WatchDone(s) ==
    /\ session[s].watch = "closing" /\ session[s].todo = {}
    /\ session' = [session EXCEPT ![s].watch = "gone", ![s].legs = {}]
    /\ current' = Nobody
    /\ UNCHANGED <<call, slot, hook, ending, chat, here, order>>

-----------------------------------------------------------------------------
\* What the gateway does by itself.
GroupStep(g) ==
    \/ Found(g) \/ Joined(g) \/ Take(g) \/ Add(g) \/ Invite(g) \/ StopDone(g)
    \/ WatchGroup(g) \/ HangOne(g) \/ WatchDone(g) \/ ChatOver(g)
LegStep(l) == LegEnded(l) \/ AfterNotice(l)

GroupNext ==
    \/ \E g \in Groupings : GroupStep(g)
    \/ \E l \in GroupLegs : LegStep(l)
    \/ \E g \in Groupings, u \in Users :
        \/ \E kind \in {"join"} \cup (IF g \in Dialling THEN {"dial"} ELSE {}) : AskGroup(g, u, kind)
        \/ AskStop(g, u) \/ AskHangup(g, u)
    \/ \E g \in Groupings :
        \/ NotFound(g) \/ ChatUp(g) \/ ChatFails(g) \/ ChatDrops(g)
    \/ \E g \in Dialling : DialAnswered(g) \/ DialFails(g) \/ AnswersLate(g)
    \/ \E l \in GroupLegs : LegDrops(l)

GroupSpec == GroupInit /\ [][GroupNext]_groupVars

-----------------------------------------------------------------------------
(* Properties *)

\* A call is in one conversation: a call of a session is in no slot and in no other session, and
\* a bridge that runs has the calls of its session, each of them sending its audio there.
OneConversation ==
    /\ \A l \in GroupLegs :
        /\ \A s, t \in SessionsOf(l) : s = t
        /\ slot[l] # "none" => SessionsOf(l) = {}
    /\ \A s \in Groupings : session[s].running =>
        session[s].bridge = session[s].legs /\ \A l \in session[s].legs : hook[l] = s

\* Who ends a session hangs up every call that is in it then: a call still up in a session whose
\* bridge has stopped is about to be hung up, or has been added to what had already ended.
EndHangsUp ==
    \A s \in Groupings : \A l \in session[s].legs :
        call[l] = "up" /\ ~session[s].running => l \in session[s].todo \cup session[s].bridge

=============================================================================
