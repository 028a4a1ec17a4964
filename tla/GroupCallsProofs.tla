-------------------------- MODULE GroupCallsProofs --------------------------
(***************************************************************************)
(* Proofs that a call is in one conversation, and that the end of a        *)
(* session reaches every call in it, for any number of users and commands. *)
(*                                                                         *)
(* A call on its way from a slot to a session is in neither while unhold() *)
(* is awaited.  "InTransit" says that it belongs to the one command that   *)
(* took it, and "Made" that a command never makes a second session, which  *)
(* would forget the calls of the first.                                    *)
(***************************************************************************)
EXTENDS GroupCalls, TLAPS

Sessions == [chat : Groupings \cup {Nobody}, running : BOOLEAN, bridge : SUBSET GroupLegs, legs : SUBSET GroupLegs,
             watch : {"off", "on", "closing", "gone"}, todo : SUBSET GroupLegs]
Orders == [pc : {"idle", "find", "join", "take", "move", "dial", "stop", "done"}, user : Users \cup {Nobody},
           kind : {"none", "join", "dial"}, of : Groupings \cup {Nobody}, todo : SUBSET GroupLegs]

GroupType ==
    /\ call \in [GroupLegs -> {"new", "ringing", "up", "down"}]
    /\ slot \in [GroupLegs -> {"active", "held", "none"}]
    /\ hook \in [GroupLegs -> Groupings \cup {Nobody, "user"}]
    /\ ending \in [GroupLegs -> [pc : {"off", "on", "notice", "gone"}, of : Groupings \cup {Nobody}]]
    /\ session \in [Groupings -> Sessions]
    /\ here \in Groupings \cup {Nobody} /\ current \in Groupings \cup {Nobody}
    /\ order \in [Groupings -> Orders]

\* The command has made its session, or never will.
Made(s) == order[s].pc \notin {"idle", "find", "join"}

\* Whatever names a session names one that has been made, and who ends one has stopped its bridge.
Named ==
    /\ current # Nobody => Made(current)
    /\ \A g \in Groupings :
        /\ order[g].of # Nobody => Made(order[g].of)
        /\ order[g].pc \in {"take", "move", "dial", "stop"} => order[g].of # Nobody
        /\ order[g].pc = "stop" => ~session[order[g].of].running
        /\ session[g].watch # "off" => Made(g)
        /\ session[g].watch = "closing" => ~session[g].running
    /\ \A l \in GroupLegs : ending[l].pc = "notice" => ending[l].of # Nobody /\ Made(ending[l].of)

\* A call that a command has taken is in no slot, in no session and with no other command.
InTransit ==
    \A g \in Groupings :
        /\ order[g].todo # {} => order[g].pc = "move"
        /\ \A l \in order[g].todo : slot[l] = "none" /\ SessionsOf(l) = {}
        /\ \A h \in Groupings \ {g} : order[g].todo \cap order[h].todo = {}

\* A dialled number is outside everything until it answers.
Dialled ==
    \A g \in Dialling :
        /\ slot[Number(g)] = "none"
        /\ \A h \in Groupings : Number(g) \notin order[h].todo
        /\ order[g].pc # "done" \/ call[Number(g)] = "ringing" => SessionsOf(Number(g)) = {}

GroupInv == GroupType /\ Named /\ InTransit /\ Dialled /\ OneConversation /\ EndHangsUp

-----------------------------------------------------------------------------
LEMMA NumberFacts ==
  /\ \A g \in Dialling : g \in Groupings /\ Number(g) \in GroupLegs
  /\ \A g, h \in Dialling : Number(g) = Number(h) => g = h
  /\ \A g \in Dialling, u \in Users : Number(g) \notin Own(u)
  <1>1. \A g \in Dialling : g \in Groupings /\ Number(g) \in GroupLegs
    BY GroupAssumption DEF GroupLegs
  <1>2. \A g : Number(g)[1] = g BY DEF Number
  <1>3. \A g \in Dialling, u \in Users : Number(g) \notin Own(u)
    <2> SUFFICES ASSUME NEW g \in Dialling, NEW u \in Users, Number(g) \in Own(u) PROVE FALSE
      OBVIOUS
    <2>1. Number(g)[1] = u BY DEF Own
    <2> QED BY <2>1, <1>2, GroupAssumption
  <1> QED BY <1>1, <1>2, <1>3

\* What a command may change of its own record.
LEMMA OrderFrame ==
  ASSUME GroupType, NEW g \in Groupings, NEW r \in Orders, order' = [order EXCEPT ![g] = r]
  PROVE  /\ order' \in [Groupings -> Orders]
         /\ order'[g] = r
         /\ \A h \in Groupings \ {g} : order'[h] = order[h]
  BY DEF GroupType

LEMMA SessionFrame ==
  ASSUME GroupType, NEW s \in Groupings, NEW r \in Sessions, session' = [session EXCEPT ![s] = r]
  PROVE  /\ session' \in [Groupings -> Sessions]
         /\ session'[s] = r
         /\ \A t \in Groupings \ {s} : session'[t] = session[t]
  BY DEF GroupType

LEMMA DoneFrame ==
  ASSUME GroupType, NEW g \in Groupings, Done(g)
  PROVE  /\ order' \in [Groupings -> Orders]
         /\ order'[g].pc = "done" /\ order'[g].of = Nobody /\ order'[g].todo = {} /\ order'[g].user = order[g].user
         /\ \A h \in Groupings \ {g} : order'[h] = order[h]
  <1>1. [pc |-> "done", user |-> order[g].user, kind |-> "none", of |-> Nobody, todo |-> {}] \in Orders
    BY DEF GroupType, Orders
  <1> QED BY <1>1, OrderFrame DEF Done

LEMMA ToFrame ==
  ASSUME GroupType, NEW g \in Groupings, NEW pc \in {"join", "dial"}, To(g, pc)
  PROVE  /\ order' \in [Groupings -> Orders]
         /\ order'[g].pc = pc /\ order'[g].of = order[g].of /\ order'[g].todo = order[g].todo
         /\ order'[g].user = order[g].user
         /\ \A h \in Groupings \ {g} : order'[h] = order[h]
  <1> DEFINE o == [order[g] EXCEPT !.pc = pc]
  <1>1. order[g] \in Orders BY DEF GroupType
  <1>2. o \in Orders /\ o.pc = pc /\ o.of = order[g].of /\ o.todo = order[g].todo /\ o.user = order[g].user
    BY ONLY <1>1, pc \in {"join", "dial"} DEF Orders
  <1>3. order' = [order EXCEPT ![g] = o] BY DEF To, GroupType
  <1> HIDE DEF o
  <1> QED BY <1>2, <1>3, OrderFrame

LEMMA AddFrame ==
  ASSUME GroupType, NEW s \in Groupings, NEW l \in GroupLegs, BridgeAdd(s, l)
  PROVE  /\ session' \in [Groupings -> Sessions]
         /\ session'[s].legs = session[s].legs \cup {l} /\ session'[s].bridge = session[s].bridge \cup {l}
         /\ session'[s].running = session[s].running /\ session'[s].todo = session[s].todo
         /\ session'[s].watch = session[s].watch
         /\ \A t \in Groupings \ {s} : session'[t] = session[t]
         /\ hook' \in [GroupLegs -> Groupings \cup {Nobody, "user"}]
         /\ hook'[l] = s /\ \A k \in GroupLegs \ {l} : hook'[k] = hook[k]
  <1>1. session[s] \in Sessions BY DEF GroupType
  <1>2. session' = [session EXCEPT ![s] = [session[s] EXCEPT !.legs = session[s].legs \cup {l},
                                                               !.bridge = session[s].bridge \cup {l}]]
    BY DEF BridgeAdd, GroupType
  <1> DEFINE r == [session[s] EXCEPT !.legs = session[s].legs \cup {l}, !.bridge = session[s].bridge \cup {l}]
  <1>3. r \in Sessions /\ r.legs = session[s].legs \cup {l} /\ r.bridge = session[s].bridge \cup {l}
        /\ r.running = session[s].running /\ r.todo = session[s].todo /\ r.watch = session[s].watch
    BY <1>1 DEF Sessions
  <1> HIDE DEF r
  <1>4. session' = [session EXCEPT ![s] = r] BY <1>2 DEF r
  <1>5. /\ session' \in [Groupings -> Sessions] /\ session'[s] = r
        /\ \A t \in Groupings \ {s} : session'[t] = session[t]
    BY <1>3, <1>4, SessionFrame
  <1>6. /\ hook' \in [GroupLegs -> Groupings \cup {Nobody, "user"}]
        /\ hook'[l] = s /\ \A k \in GroupLegs \ {l} : hook'[k] = hook[k]
    BY DEF BridgeAdd, GroupType
  <1> QED BY <1>3, <1>5, <1>6

LEMMA StopFrame ==
  ASSUME GroupType, NEW s \in Groupings, NEW w \in {"off", "on", "closing", "gone"}, NEW D \in SUBSET GroupLegs,
         session' = [session EXCEPT ![s] = GroupBridgeStop(s, w, D)], hook' = StoppedHooks(s)
  PROVE  /\ session' \in [Groupings -> Sessions]
         /\ session'[s].legs = session[s].legs /\ ~session'[s].running
         /\ session'[s].bridge = IF session[s].running THEN {} ELSE session[s].bridge
         /\ session'[s].todo = session[s].todo \cup D /\ session'[s].watch = w
         /\ \A t \in Groupings \ {s} : session'[t] = session[t]
         /\ hook' \in [GroupLegs -> Groupings \cup {Nobody, "user"}]
         /\ \A l \in GroupLegs : hook'[l] = hook[l] \/ (session[s].running /\ l \in session[s].bridge)
  <1>1. session[s] \in Sessions BY DEF GroupType
  <1>2. FALSE \in BOOLEAN /\ ~FALSE OBVIOUS
  <1>3. GroupBridgeStop(s, w, D) \in Sessions BY <1>1, <1>2 DEF GroupBridgeStop, Sessions
  <1>4. session'[s] = GroupBridgeStop(s, w, D) /\ session' \in [Groupings -> Sessions]
        /\ \A t \in Groupings \ {s} : session'[t] = session[t]
    BY <1>3, SessionFrame
  <1> QED BY <1>4 DEF GroupBridgeStop, StoppedHooks, Unhooked, GroupType

-----------------------------------------------------------------------------
(* Steps that leave the slots and the sessions alone *)

\* A command goes on without calls of its own, and names a session that has been made.
GoesOn(g) ==
    /\ order'[g].todo = {} /\ order'[g].pc # "stop"
    /\ order[g].pc = "done" => order'[g].pc = "done"
    /\ Made(g) => Made(g)'
    /\ order'[g].of # Nobody => Made(order[g].of)'
    /\ order'[g].pc \in {"take", "move", "dial"} => order'[g].of # Nobody

LEMMA OrderStep ==
  ASSUME GroupInv, UNCHANGED <<slot, hook, ending, session, current>>, here' \in Groupings \cup {Nobody},
         call' \in [GroupLegs -> {"new", "ringing", "up", "down"}],
         \A l \in GroupLegs : call'[l] \in {"ringing", "up"} => call'[l] = call[l] \/ SessionsOf(l) = {},
         order' \in [Groupings -> Orders],
         \A g \in Groupings : order'[g] = order[g] \/ GoesOn(g)
  PROVE  GroupInv'
  <1> USE GroupAssumption, NumberFacts DEF GroupInv
  <1>1. GroupType' BY DEF GroupType
  <1>2. \A l \in GroupLegs : SessionsOf(l)' = SessionsOf(l) BY DEF SessionsOf
  <1>3. \A h \in Groupings : Made(h) => Made(h)' BY DEF Made, GoesOn
  <1>4. Named'
    <2>1. Named /\ GroupType BY DEF GroupInv
    <2>2. current # Nobody => Made(current)' BY <1>3, <2>1 DEF Named, GroupType
    <2>3. \A l \in GroupLegs : ending[l].pc = "notice" => ending[l].of # Nobody /\ Made(ending[l].of)'
      BY <1>3, <2>1 DEF Named, GroupType
    <2>4. ASSUME NEW h \in Groupings
          PROVE  /\ order'[h].of # Nobody => Made(order[h].of)'
                 /\ order'[h].pc \in {"take", "move", "dial", "stop"} => order'[h].of # Nobody
                 /\ order'[h].pc = "stop" => ~session[order'[h].of].running
      <3>1. CASE order'[h] = order[h]
        <4>1. order[h].of \in Groupings \cup {Nobody} BY <2>1 DEF GroupType, Orders
        <4>2. order'[h].of # Nobody => Made(order[h].of)' BY <1>3, <2>1, <3>1, <4>1 DEF Named, Made
        <4> QED BY <2>1, <3>1, <4>2 DEF Named
      <3>2. CASE GoesOn(h) BY <3>2 DEF GoesOn
      <3> QED BY <3>1, <3>2
    <2>5. \A h \in Groupings : session[h].watch # "off" => Made(h)' BY <1>3, <2>1 DEF Named
    <2> QED BY <2>1, <2>2, <2>3, <2>4, <2>5 DEF Named
  <1>5. InTransit'
    <2> SUFFICES ASSUME NEW h \in Groupings
                 PROVE  /\ order'[h].todo # {} => order'[h].pc = "move"
                        /\ \A l \in order'[h].todo : slot[l] = "none" /\ SessionsOf(l)' = {}
                        /\ \A i \in Groupings \ {h} : order'[h].todo \cap order'[i].todo = {}
      BY DEF InTransit
    <2>1. \A i \in Groupings : order'[i] = order[i] \/ order'[i].todo = {} BY DEF GoesOn
    <2>2. order[h].todo \subseteq GroupLegs BY DEF GroupType, Orders
    <2> QED BY <1>2, <2>1, <2>2 DEF InTransit
  <1>6. Dialled'
    <2>1. \A i \in Groupings : order'[i] = order[i] \/ (order'[i].todo = {} /\ (order[i].pc = "done" => order'[i].pc = "done"))
      BY DEF GoesOn
    <2> QED BY <1>2, <2>1 DEF Dialled
  <1>7. OneConversation' BY <1>2 DEF OneConversation
  <1>8. EndHangsUp'
    <2> SUFFICES ASSUME NEW s \in Groupings, NEW l \in session[s].legs, call'[l] = "up", ~session[s].running
                 PROVE  l \in session[s].todo \cup session[s].bridge
      BY DEF EndHangsUp
    <2>1. l \in GroupLegs BY DEF GroupType, Sessions
    <2>2. s \in SessionsOf(l) BY DEF SessionsOf
    <2>3. call[l] = "up" BY <2>1, <2>2
    <2> QED BY <2>3 DEF EndHangsUp
  <1> QED BY <1>1, <1>4, <1>5, <1>6, <1>7, <1>8

\* Most of those steps: one command, no call is answered.
LEMMA CommandStep ==
  ASSUME GroupInv, NEW g \in Groupings, UNCHANGED <<call, slot, hook, ending, session, current>>,
         here' \in Groupings \cup {Nobody}, order' \in [Groupings -> Orders],
         \A h \in Groupings \ {g} : order'[h] = order[h], GoesOn(g)
  PROVE  GroupInv'
  <1>1. call' \in [GroupLegs -> {"new", "ringing", "up", "down"}] BY DEF GroupInv, GroupType
  <1> QED BY <1>1, OrderStep

LEMMA NamesMade ==
  ASSUME GroupInv, NEW g \in Groupings, order[g].of # Nobody
  PROVE  order[g].of \in Groupings /\ Made(order[g].of)
  BY DEF GroupInv, GroupType, Orders, Named

LEMMA DoneGoesOn == ASSUME GroupType, NEW g \in Groupings, Done(g) PROVE GoesOn(g)
  BY DoneFrame DEF GoesOn, Made

LEMMA NotFoundInv == ASSUME GroupInv, NEW g \in Groupings, NotFound(g) PROVE GroupInv'
  <1>1. GroupType /\ Done(g) BY DEF GroupInv, NotFound
  <1>2. UNCHANGED <<call, slot, hook, ending, session, current>> /\ here' \in Groupings \cup {Nobody}
    BY DEF NotFound, GroupInv, GroupType
  <1> QED BY <1>1, <1>2, DoneFrame, DoneGoesOn, CommandStep

LEMMA AskGroupInv ==
  ASSUME GroupInv, NEW g \in Groupings, NEW u \in Users, NEW k \in {"join", "dial"}, AskGroup(g, u, k)
  PROVE  GroupInv'
  <1> DEFINE r == [pc |-> IF current = Nobody THEN "find" ELSE "take",
                   user |-> u, kind |-> k, of |-> current, todo |-> {}]
  <1>1. r \in Orders /\ r.todo = {} /\ r.of = current /\ r.pc = (IF current = Nobody THEN "find" ELSE "take")
    BY DEF GroupInv, GroupType, Orders
  <1> HIDE DEF r
  <1>2. GroupType /\ Named BY DEF GroupInv
  <1>3. order' = [order EXCEPT ![g] = r] /\ order[g].pc = "idle"
        /\ UNCHANGED <<call, slot, hook, ending, session, chat, here, current>>
    BY DEF AskGroup, r
  <1>4. order' \in [Groupings -> Orders] /\ order'[g] = r /\ \A h \in Groupings \ {g} : order'[h] = order[h]
    BY <1>1, <1>2, <1>3, OrderFrame
  <1>5. current # Nobody => current # g /\ Made(current)'
    BY <1>2, <1>3, <1>4, GroupAssumption DEF Named, Made, GroupType
  <1>6. ~Made(g) BY <1>3 DEF Made
  <1>7. order'[g].of # Nobody => Made(order[g].of)' BY <1>1, <1>3, <1>4, <1>5 DEF Made
  <1>8. order'[g].pc \in {"find", "take"} /\ (order'[g].pc = "take" => order'[g].of # Nobody) BY <1>1, <1>4
  <1>9. order'[g].todo = {} /\ here' \in Groupings \cup {Nobody} BY <1>1, <1>2, <1>3, <1>4 DEF GroupType
  <1>10. GoesOn(g) BY <1>3, <1>6, <1>7, <1>8, <1>9 DEF GoesOn
  <1> QED BY <1>3, <1>4, <1>9, <1>10, CommandStep

LEMMA InviteInv == ASSUME GroupInv, NEW g \in Groupings, Invite(g) PROVE GroupInv'
  <1>1. order[g].pc = "move" /\ order[g].todo = {} /\ order[g].of # Nobody BY DEF Invite, Named, GroupInv
  <1>2. UNCHANGED <<slot, hook, ending, session, current>> /\ here' \in Groupings \cup {Nobody} /\ GroupType
    BY DEF Invite, GroupInv, GroupType
  <1>3. CASE Done(g) /\ UNCHANGED call
    BY <1>2, <1>3, DoneFrame, DoneGoesOn, CommandStep
  <1>4. CASE call' = [call EXCEPT ![Number(g)] = "ringing"] /\ To(g, "dial")
    <2>1. call' \in [GroupLegs -> {"new", "ringing", "up", "down"}] BY <1>2, <1>4 DEF GroupType
    <2>2. \A l \in GroupLegs : l # Number(g) => call'[l] = call[l] BY <1>2, <1>4 DEF GroupType
    <2>3. \A l \in GroupLegs : l = Number(g) => g \in Dialling
      BY GroupAssumption DEF GroupLegs, Number
    <2>4. \A l \in GroupLegs : l = Number(g) => SessionsOf(l) = {}
      BY <1>1, <2>3 DEF GroupInv, Dialled
    <2>5. GoesOn(g)
      <3>1. order[g].of \in Groupings /\ Made(order[g].of) BY <1>1, NamesMade
      <3>2. Made(order[g].of)' BY <1>2, <1>4, <3>1, ToFrame DEF Made
      <3> QED BY <1>1, <1>2, <1>4, <3>2, ToFrame DEF GoesOn, Made
    <2> QED BY <1>2, <1>4, <2>1, <2>2, <2>4, <2>5, ToFrame, OrderStep
  <1> QED BY <1>3, <1>4 DEF Invite

LEMMA DialFailsInv == ASSUME GroupInv, NEW g \in Dialling, DialFails(g) PROVE GroupInv'
  <1>1. g \in Groupings /\ GroupType /\ Done(g) BY NumberFacts DEF GroupInv, DialFails
  <1>2. UNCHANGED <<slot, hook, ending, session, current>> /\ here' \in Groupings \cup {Nobody}
    BY DEF DialFails, GroupInv, GroupType
  <1>3. call' \in [GroupLegs -> {"new", "ringing", "up", "down"}]
        /\ \A l \in GroupLegs : call'[l] = call[l] \/ call'[l] = "down"
    BY <1>1 DEF DialFails, GroupType
  <1> QED BY <1>1, <1>2, <1>3, DoneFrame, DoneGoesOn, OrderStep

LEMMA AskHangupInv == ASSUME GroupInv, NEW g \in Groupings, NEW u \in Users, AskHangup(g, u) PROVE GroupInv'
  <1> DEFINE r == [pc |-> "done", user |-> u, kind |-> "none", of |-> Nobody, todo |-> {}]
  <1>1. r \in Orders /\ r.pc = "done" /\ r.of = Nobody /\ r.todo = {} BY DEF Orders
  <1>2. GroupType BY DEF GroupInv
  <1>3. order' = [order EXCEPT ![g] = r] BY DEF AskHangup
  <1> HIDE DEF r
  <1>4. order' \in [Groupings -> Orders] /\ order'[g] = r /\ \A h \in Groupings \ {g} : order'[h] = order[h]
    BY <1>1, <1>2, <1>3, OrderFrame
  <1>5. GoesOn(g) BY <1>1, <1>4 DEF GoesOn, Made
  <1>6. UNCHANGED <<slot, hook, ending, session, current>> /\ here' \in Groupings \cup {Nobody}
    BY <1>2 DEF AskHangup, GroupType
  <1>7. call' \in [GroupLegs -> {"new", "ringing", "up", "down"}]
        /\ \A l \in GroupLegs : call'[l] = call[l] \/ call'[l] = "down"
    BY <1>2 DEF AskHangup, GroupType
  <1> QED BY <1>4, <1>5, <1>6, <1>7, OrderStep

LEMMA LegDropsInv == ASSUME GroupInv, NEW l \in GroupLegs, LegDrops(l) PROVE GroupInv'
  <1>1. UNCHANGED <<slot, hook, ending, session, current>> /\ here' \in Groupings \cup {Nobody}
        /\ order' \in [Groupings -> Orders] /\ \A g \in Groupings : order'[g] = order[g]
    BY DEF LegDrops, GroupInv, GroupType
  <1>2. call' \in [GroupLegs -> {"new", "ringing", "up", "down"}]
        /\ \A k \in GroupLegs : call'[k] = call[k] \/ call'[k] = "down"
    BY DEF LegDrops, GroupInv, GroupType
  <1> QED BY <1>1, <1>2, OrderStep

LEMMA AnswersLateInv == ASSUME GroupInv, NEW g \in Dialling, AnswersLate(g) PROVE GroupInv'
  <1>1. UNCHANGED <<slot, hook, ending, session, current>> /\ here' \in Groupings \cup {Nobody}
        /\ order' \in [Groupings -> Orders] /\ \A h \in Groupings : order'[h] = order[h]
    BY DEF AnswersLate, GroupInv, GroupType
  <1>2. call' \in [GroupLegs -> {"new", "ringing", "up", "down"}]
        /\ \A k \in GroupLegs : k # Number(g) => call'[k] = call[k]
    BY DEF AnswersLate, GroupInv, GroupType
  <1>3. SessionsOf(Number(g)) = {} BY DEF AnswersLate, GroupInv, Dialled
  <1> QED BY <1>1, <1>2, <1>3, OrderStep

LEMMA ChatInv ==
  ASSUME GroupInv, NEW c \in Groupings, ChatUp(c) \/ ChatFails(c) \/ ChatDrops(c) \/ ChatOver(c)
  PROVE  GroupInv'
  <1>1. here' \in Groupings \cup {Nobody} /\ UNCHANGED <<call, slot, hook, ending, session, current, order>>
    BY DEF GroupInv, GroupType, ChatUp, ChatFails, ChatDrops, ChatOver
  <1>2. call' \in [GroupLegs -> {"new", "ringing", "up", "down"}] /\ order' \in [Groupings -> Orders]
    BY <1>1 DEF GroupInv, GroupType
  <1> QED BY <1>1, <1>2, OrderStep


-----------------------------------------------------------------------------
(* Steps that make a session *)

LEMMA SessionMadeInv ==
  ASSUME GroupInv, NEW g \in Groupings, NEW c \in Groupings, ~Made(g), SessionMade(g, c),
         UNCHANGED <<call, slot, hook, ending, here>>
  PROVE  GroupInv'
  <1> USE DEF GroupInv
  <1> DEFINE r == [chat |-> c, running |-> TRUE, bridge |-> {}, legs |-> {}, watch |-> "on", todo |-> {}]
  <1>1. r \in Sessions /\ r.legs = {} /\ r.bridge = {} /\ r.watch = "on" BY DEF Sessions
  <1> HIDE DEF r
  <1>2. session' = [session EXCEPT ![g] = r] BY DEF SessionMade, r
  <1>3. session' \in [Groupings -> Sessions] /\ session'[g] = r /\ \A s \in Groupings \ {g} : session'[s] = session[s]
    BY <1>1, <1>2, SessionFrame
  <1>4. order' \in [Groupings -> Orders] /\ order'[g].pc = "take" /\ order'[g].of = g /\ order'[g].todo = order[g].todo
        /\ \A h \in Groupings \ {g} : order'[h] = order[h]
    <2> DEFINE o == [order[g] EXCEPT !.pc = "take", !.of = g]
    <2> DEFINE o1 == [order[g] EXCEPT !.pc = "take"]
    <2>0. o1 \in Orders /\ o1.pc = "take" /\ o1.todo = order[g].todo BY DEF GroupType, Orders
    <2> HIDE DEF o1
    <2>3. o = [o1 EXCEPT !.of = g] BY DEF o1
    <2>1. o \in Orders /\ o.pc = "take" /\ o.of = g /\ o.todo = order[g].todo BY <2>0, <2>3 DEF Orders
    <2>2. order' = [order EXCEPT ![g] = o] BY DEF SessionMade, GroupType
    <2> HIDE DEF o
    <2> QED BY <2>1, <2>2, OrderFrame
  <1>5. current' = g BY DEF SessionMade
  <1>6. order[g].todo = {} BY DEF InTransit, Made
  <1>7. \A h \in Groupings : Made(h) => Made(h)' /\ h # g BY <1>4 DEF Made
  <1>8. Made(g)' BY <1>4 DEF Made
  <1>9. \A l \in GroupLegs : SessionsOf(l)' \subseteq SessionsOf(l) /\ g \notin SessionsOf(l)'
    BY <1>1, <1>3 DEF SessionsOf
  <1>10. GroupType' BY <1>3, <1>4, <1>5 DEF GroupType
  <1>11. Named'
    <2>1. current' # Nobody => Made(current)' BY <1>4, <1>5 DEF Made
    <2>2. \A l \in GroupLegs : ending'[l].pc = "notice" => ending'[l].of # Nobody /\ Made(ending[l].of)'
      BY <1>7 DEF Named, GroupType
    <2>3. ASSUME NEW h \in Groupings
          PROVE  /\ order'[h].of # Nobody => Made(order[h].of)'
                 /\ order'[h].pc \in {"take", "move", "dial", "stop"} => order'[h].of # Nobody
                 /\ order'[h].pc = "stop" => ~session'[order'[h].of].running
      <3>1. CASE h = g BY <1>4, <3>1, GroupAssumption DEF Made
      <3>2. CASE h # g
        <4>1. order'[h] = order[h] /\ order[h].of \in Groupings \cup {Nobody} BY <1>4, <3>2 DEF GroupType, Orders
        <4>2. order'[h].of # Nobody => order[h].of # g /\ Made(order[h].of)'
          <5> SUFFICES ASSUME order[h].of # Nobody PROVE order[h].of # g /\ Made(order[h].of)'
            BY <4>1
          <5>1. order[h].of \in Groupings /\ Made(order[h].of) BY NamesMade
          <5> QED BY <1>4, <1>7, <4>1, <5>1 DEF Made
        <4> QED BY <1>3, <4>1, <4>2 DEF Named
      <3> QED BY <3>1, <3>2
    <2>4. \A h \in Groupings : /\ session'[h].watch # "off" => Made(h)'
                               /\ session'[h].watch = "closing" => ~session'[h].running
      BY <1>1, <1>3, <1>7, <1>8 DEF Named
    <2> QED BY <2>1, <2>2, <2>3, <2>4 DEF Named
  <1>12. InTransit'
    <2>1. \A h \in Groupings : order'[h].todo = order[h].todo /\ (order[h].todo # {} => order'[h] = order[h])
      BY <1>4, <1>6
    <2>2. \A h \in Groupings : order[h].todo \subseteq GroupLegs BY DEF GroupType, Orders
    <2> QED BY <1>9, <2>1, <2>2 DEF InTransit
  <1>13. Dialled'
    <2>1. \A h \in Groupings : order'[h].todo = order[h].todo BY <1>4
    <2>2. \A h \in Groupings : order'[h].pc # "done" => order[h].pc # "done" BY <1>4, <1>7 DEF Made
    <2> QED BY <1>9, <2>1, <2>2, NumberFacts DEF Dialled
  <1>14. OneConversation'
    <2>1. \A l \in GroupLegs : /\ \A s, t \in SessionsOf(l)' : s = t
                               /\ slot'[l] # "none" => SessionsOf(l)' = {}
      BY <1>9 DEF OneConversation
    <2>2. \A s \in Groupings : session'[s].running =>
              session'[s].bridge = session'[s].legs /\ \A l \in session'[s].legs : hook'[l] = s
      BY <1>1, <1>3 DEF OneConversation
    <2> QED BY <2>1, <2>2 DEF OneConversation
  <1>15. EndHangsUp' BY <1>1, <1>3 DEF EndHangsUp
  <1> QED BY <1>10, <1>11, <1>12, <1>13, <1>14, <1>15

LEMMA FoundInv == ASSUME GroupInv, NEW g \in Groupings, Found(g) PROVE GroupInv'
  <1>1. ~Made(g) /\ order[g].pc = "find" BY DEF Found, Made
  <1>2. UNCHANGED <<call, slot, hook, ending>> BY DEF Found
  <1>3. CASE here # Nobody
    <2>1. here \in Groupings BY <1>3 DEF GroupInv, GroupType
    <2> QED BY <1>1, <1>2, <1>3, <2>1, SessionMadeInv DEF Found
  <1>4. CASE here = Nobody
    <2>1. here' = g /\ To(g, "join") /\ UNCHANGED <<session, current>> BY <1>4 DEF Found
    <2>2. order[g].todo = {} BY <1>1 DEF GroupInv, InTransit
    <2>3. GoesOn(g)
      <3>1. order[g].of # Nobody => order[g].of \in Groupings /\ Made(order[g].of) /\ order[g].of # g
        BY <1>1, NamesMade
      <3>2. order'[g].of # Nobody => Made(order[g].of)'
        BY <2>1, <3>1, ToFrame DEF Made, GroupInv
      <3> QED BY <1>1, <2>1, <2>2, <3>2, ToFrame DEF GoesOn, GroupInv
    <2> QED BY <1>2, <2>1, <2>3, ToFrame, CommandStep DEF GroupInv
  <1> QED BY <1>3, <1>4

LEMMA JoinedInv == ASSUME GroupInv, NEW g \in Groupings, Joined(g) PROVE GroupInv'
  <1>1. ~Made(g) BY DEF Joined, Made
  <1>2. UNCHANGED <<call, slot, hook, ending, here>> BY DEF Joined
  <1>3. CASE Done(g) /\ UNCHANGED <<session, current>>
    <2>1. here' \in Groupings \cup {Nobody} BY <1>2 DEF GroupInv, GroupType
    <2> QED BY <1>2, <1>3, <2>1, DoneFrame, DoneGoesOn, CommandStep DEF GroupInv
  <1>4. CASE SessionMade(g, g) BY <1>1, <1>2, <1>4, SessionMadeInv
  <1> QED BY <1>3, <1>4 DEF Joined


-----------------------------------------------------------------------------
(* A call's way into a session *)

LEMMA TakeInv == ASSUME GroupInv, NEW g \in Groupings, Take(g) PROVE GroupInv'
  <1> USE DEF GroupInv
  <1> DEFINE T == Taken(g)
  <1>1. T \subseteq GroupLegs /\ T \subseteq Own(order[g].user) /\ \A l \in T : slot[l] # "none" BY DEF Taken
  <1> HIDE DEF T
  <1>2. order[g].pc = "take" BY DEF Take
  <1>3. UNCHANGED <<call, ending, session, chat, here, current>> BY DEF Take
  <1>4. slot' = [l \in GroupLegs |-> IF l \in T THEN "none" ELSE slot[l]] BY DEF Take, T
  <1>5. order' \in [Groupings -> Orders] /\ order'[g].pc = "move" /\ order'[g].todo = T /\ order'[g].of = order[g].of
        /\ \A h \in Groupings \ {g} : order'[h] = order[h]
    <2> DEFINE o == [order[g] EXCEPT !.pc = "move", !.todo = T]
    <2>1. o \in Orders /\ o.pc = "move" /\ o.of = order[g].of /\ o.todo = T
      <3>1. order[g] \in Orders BY DEF GroupType
      <3> QED BY ONLY <1>1, <3>1 DEF Orders
    <2>2. order' = [order EXCEPT ![g] = o] BY DEF Take, T, GroupType
    <2> HIDE DEF o
    <2> QED BY <2>1, <2>2, OrderFrame
  <1>6. hook' \in [GroupLegs -> Groupings \cup {Nobody, "user"}]
        /\ \A l \in GroupLegs : hook'[l] = hook[l] \/ l \in T
    BY DEF Take, T, Unhooked, GroupType
  <1>7. \A l \in GroupLegs : SessionsOf(l)' = SessionsOf(l) BY <1>3 DEF SessionsOf
  <1>8. \A l \in T : SessionsOf(l) = {} BY <1>1 DEF OneConversation
  <1>9. order[g].of # Nobody /\ Made(g) BY <1>2 DEF Named, Made
  <1>10. \A h \in Groupings : Made(h)' <=> Made(h) BY <1>5, <1>9 DEF Made
  <1>11. GroupType'
    <2>1. slot' \in [GroupLegs -> {"active", "held", "none"}] BY <1>4 DEF GroupType
    <2> QED BY <1>3, <1>5, <1>6, <2>1 DEF GroupType
  <1>12. Named'
    <2>1. \A h \in Groupings : order'[h].of = order[h].of /\ order[h].of \in Groupings \cup {Nobody}
      BY <1>5 DEF GroupType, Orders
    <2>2. \A h \in Groupings : order'[h].of # Nobody => Made(order[h].of)'
      <3> SUFFICES ASSUME NEW h \in Groupings, order'[h].of # Nobody PROVE Made(order[h].of)' OBVIOUS
      <3>1. order[h].of \in Groupings /\ Made(order[h].of) BY <2>1, NamesMade
      <3> QED BY <1>10, <2>1, <3>1 DEF Made
    <2>3. current' # Nobody => Made(current)' BY <1>3, <1>10 DEF Named, GroupType, Made
    <2>4. \A l \in GroupLegs : ending'[l].pc = "notice" => ending'[l].of # Nobody /\ Made(ending[l].of)'
      BY <1>3, <1>10 DEF Named, GroupType, Made
    <2>5. \A h \in Groupings :
            /\ order'[h].pc \in {"take", "move", "dial", "stop"} => order'[h].of # Nobody
            /\ order'[h].pc = "stop" => ~session'[order'[h].of].running
            /\ session'[h].watch # "off" => Made(h)'
            /\ session'[h].watch = "closing" => ~session'[h].running
      BY <1>3, <1>5, <1>9, <1>10 DEF Named
    <2> QED BY <2>2, <2>3, <2>4, <2>5 DEF Named
  <1>13. InTransit'
    <2>1. order[g].todo = {} BY <1>2 DEF InTransit
    <2>2. \A h \in Groupings : order[h].todo \subseteq GroupLegs BY DEF GroupType, Orders
    <2>3. \A h \in Groupings : \A l \in order[h].todo : l \notin T BY <1>1 DEF InTransit
    <2>4. \A h \in Groupings : order'[h].todo # {} => order'[h].pc = "move" BY <1>5 DEF InTransit
    <2>5. \A h \in Groupings : \A l \in order'[h].todo : slot'[l] = "none" /\ SessionsOf(l)' = {}
      BY <1>1, <1>4, <1>5, <1>7, <1>8, <2>2 DEF InTransit
    <2>6. \A h \in Groupings : \A i \in Groupings \ {h} : order'[h].todo \cap order'[i].todo = {}
      BY <1>5, <2>3 DEF InTransit
    <2> QED BY <2>4, <2>5, <2>6 DEF InTransit
  <1>14. Dialled'
    <2>1. \A h \in Dialling : Number(h) \notin T BY <1>1, NumberFacts DEF Dialled
    <2>2. \A h \in Dialling : slot'[Number(h)] = "none" BY <1>4, <2>1, NumberFacts DEF Dialled
    <2>3. \A h \in Dialling : \A i \in Groupings : Number(h) \notin order'[i].todo
      BY <1>5, <2>1, NumberFacts DEF Dialled
    <2>4. \A h \in Dialling : order'[h].pc # "done" \/ call'[Number(h)] = "ringing" => SessionsOf(Number(h))' = {}
      BY <1>2, <1>3, <1>5, <1>7, NumberFacts DEF Dialled
    <2> QED BY <2>2, <2>3, <2>4 DEF Dialled
  <1>15. OneConversation'
    <2>1. \A s \in Groupings : \A l \in session[s].legs : l \in GroupLegs /\ s \in SessionsOf(l)
      BY DEF SessionsOf, GroupType, Sessions
    <2>2. \A s \in Groupings : \A l \in session[s].legs : hook'[l] = hook[l] BY <1>6, <1>8, <2>1
    <2>3. \A l \in GroupLegs : slot'[l] # "none" => slot[l] # "none" BY <1>4
    <2> QED BY <1>3, <1>7, <2>2, <2>3 DEF OneConversation
  <1>16. EndHangsUp' BY <1>3 DEF EndHangsUp
  <1> QED BY <1>11, <1>12, <1>13, <1>14, <1>15, <1>16

\* How the command goes on that adds l to a session.
AddsOn(h, l) ==
    /\ order'[h].todo = order[h].todo \ {l}
    /\ \/ order'[h].pc = order[h].pc /\ order'[h].of = order[h].of
       \/ order[h].pc = "dial" /\ order'[h].pc = "done" /\ order'[h].of = Nobody

LEMMA BridgeAddInv ==
  ASSUME GroupInv, NEW s \in Groupings, NEW l \in GroupLegs, BridgeAdd(s, l), UNCHANGED <<slot, here, current>>,
         slot[l] = "none", SessionsOf(l) = {},
         call' \in [GroupLegs -> {"new", "ringing", "up", "down"}],
         \A k \in GroupLegs \ {l} : call'[k] = call[k],
         ending' \in [GroupLegs -> [pc : {"off", "on", "notice", "gone"}, of : Groupings \cup {Nobody}]],
         \A k \in GroupLegs : ending'[k] = ending[k] \/ ending'[k].pc # "notice",
         order' \in [Groupings -> Orders], \A h \in Groupings : AddsOn(h, l),
         \A h \in Dialling : l = Number(h) => order'[h].pc = "done" /\ call'[l] # "ringing"
  PROVE  GroupInv'
  <1> USE DEF GroupInv
  <1>1. /\ session' \in [Groupings -> Sessions]
        /\ session'[s].legs = session[s].legs \cup {l} /\ session'[s].bridge = session[s].bridge \cup {l}
        /\ session'[s].running = session[s].running /\ session'[s].todo = session[s].todo
        /\ session'[s].watch = session[s].watch
        /\ \A t \in Groupings \ {s} : session'[t] = session[t]
        /\ hook' \in [GroupLegs -> Groupings \cup {Nobody, "user"}]
        /\ hook'[l] = s /\ \A k \in GroupLegs \ {l} : hook'[k] = hook[k]
    BY AddFrame
  <1>2. \A t \in Groupings : session'[t].running = session[t].running /\ session'[t].watch = session[t].watch
    BY <1>1
  <1>3. SessionsOf(l)' = {s} /\ \A k \in GroupLegs \ {l} : SessionsOf(k)' = SessionsOf(k)
    BY <1>1 DEF SessionsOf
  <1>4. \A h \in Groupings : Made(h)' <=> Made(h) BY DEF Made, AddsOn
  <1>5. GroupType' BY <1>1 DEF GroupType
  <1>6. Named'
    <2>1. \A h \in Groupings : order'[h].of # Nobody => order'[h].of = order[h].of /\ order'[h].pc = order[h].pc
      BY DEF AddsOn
    <2>2. \A h \in Groupings : order'[h].of # Nobody => order[h].of \in Groupings /\ Made(order[h].of)'
      <3> SUFFICES ASSUME NEW h \in Groupings, order'[h].of # Nobody PROVE order[h].of \in Groupings /\ Made(order[h].of)'
        OBVIOUS
      <3>1. order[h].of \in Groupings /\ Made(order[h].of) BY <2>1, NamesMade
      <3> QED BY <1>4, <2>1, <3>1 DEF Made
    <2>3. current' # Nobody => Made(current)' BY <1>4 DEF Named, GroupType, Made
    <2>4. \A k \in GroupLegs : ending'[k].pc = "notice" => ending'[k].of # Nobody /\ Made(ending[k].of)'
      <3> SUFFICES ASSUME NEW k \in GroupLegs, ending'[k].pc = "notice" PROVE ending'[k].of # Nobody /\ Made(ending[k].of)'
        OBVIOUS
      <3>1. ending'[k] = ending[k] OBVIOUS
      <3>2. ending[k].of \in Groupings /\ Made(ending[k].of) BY <3>1 DEF Named, GroupType
      <3> QED BY <1>4, <3>1, <3>2, GroupAssumption DEF Made
    <2>5. ASSUME NEW h \in Groupings
          PROVE  /\ order'[h].pc \in {"take", "move", "dial", "stop"} => order'[h].of # Nobody
                 /\ order'[h].pc = "stop" => ~session'[order'[h].of].running
      <3>1. CASE order'[h].pc = order[h].pc /\ order'[h].of = order[h].of
        <4>1. order[h].pc = "stop" => order[h].of \in Groupings BY NamesMade DEF Named
        <4> QED BY <1>2, <3>1, <4>1 DEF Named
      <3>2. CASE order'[h].pc = "done" BY <3>2
      <3> QED BY <3>1, <3>2 DEF AddsOn
    <2>6. \A h \in Groupings : /\ session'[h].watch # "off" => Made(h)'
                               /\ session'[h].watch = "closing" => ~session'[h].running
      BY <1>2, <1>4 DEF Named
    <2> QED BY <2>2, <2>3, <2>4, <2>5, <2>6 DEF Named
  <1>7. InTransit'
    <2>1. \A h \in Groupings : order'[h].todo = order[h].todo \ {l} /\ order[h].todo \subseteq GroupLegs
      BY DEF AddsOn, GroupType, Orders
    <2>2. \A h \in Groupings : order'[h].todo # {} => order'[h].pc = "move" BY <2>1 DEF AddsOn, InTransit
    <2>3. \A h \in Groupings : \A k \in order'[h].todo : slot'[k] = "none" /\ SessionsOf(k)' = {}
      BY <1>3, <2>1 DEF InTransit
    <2>4. \A h \in Groupings : \A i \in Groupings \ {h} : order'[h].todo \cap order'[i].todo = {}
      BY <2>1 DEF InTransit
    <2> QED BY <2>2, <2>3, <2>4 DEF InTransit
  <1>8. Dialled'
    <2>1. \A h \in Dialling : slot'[Number(h)] = "none" BY DEF Dialled
    <2>2. \A h \in Dialling : \A i \in Groupings : Number(h) \notin order'[i].todo BY DEF Dialled, AddsOn
    <2>3. ASSUME NEW h \in Dialling, order'[h].pc # "done" \/ call'[Number(h)] = "ringing"
          PROVE  SessionsOf(Number(h))' = {}
      <3>1. Number(h) # l BY <2>3
      <3>2. order[h].pc # "done" \/ call[Number(h)] = "ringing" BY <2>3, <3>1, NumberFacts DEF AddsOn
      <3> QED BY <1>3, <3>1, <3>2, NumberFacts DEF Dialled
    <2> QED BY <2>1, <2>2, <2>3 DEF Dialled
  <1>9. OneConversation'
    <2>1. \A k \in GroupLegs : /\ \A t, v \in SessionsOf(k)' : t = v
                               /\ slot'[k] # "none" => SessionsOf(k)' = {}
      BY <1>3 DEF OneConversation
    <2>2. \A t \in Groupings : session[t].legs \subseteq GroupLegs /\ l \notin session[t].legs
      BY DEF SessionsOf, GroupType, Sessions
    <2>3. \A t \in Groupings : session'[t].running =>
              session'[t].bridge = session'[t].legs /\ \A k \in session'[t].legs : hook'[k] = t
      <3> SUFFICES ASSUME NEW t \in Groupings, session'[t].running
                   PROVE  session'[t].bridge = session'[t].legs /\ \A k \in session'[t].legs : hook'[k] = t
        OBVIOUS
      <3>1. session[t].bridge = session[t].legs /\ \A k \in session[t].legs : hook[k] = t
        BY <1>2 DEF OneConversation
      <3>2. CASE t = s
        <4>1. \A k \in session[s].legs : hook'[k] = s BY <1>1, <2>2, <3>1, <3>2
        <4>2. session'[s].bridge = session'[s].legs BY <1>1, <3>1, <3>2
        <4>3. hook'[l] = s /\ session'[s].legs = session[s].legs \cup {l} BY <1>1
        <4>4. \A k \in session'[s].legs : hook'[k] = s BY ONLY <4>1, <4>3
        <4> QED BY ONLY <3>2, <4>2, <4>4
      <3>3. CASE t # s BY <1>1, <2>2, <3>1, <3>3
      <3> QED BY <3>2, <3>3
    <2> QED BY <2>1, <2>3 DEF OneConversation
  <1>10. EndHangsUp'
    <2> SUFFICES ASSUME NEW t \in Groupings, NEW k \in session'[t].legs, call'[k] = "up", ~session'[t].running
                 PROVE  k \in session'[t].todo \cup session'[t].bridge
      BY DEF EndHangsUp
    <2>1. k \in GroupLegs BY <1>1 DEF Sessions
    <2>2. CASE k = l BY <1>1, <1>3, <2>2 DEF SessionsOf
    <2>3. CASE k # l
      <3>1. k \in session[t].legs /\ call[k] = "up" /\ ~session[t].running BY <1>1, <1>2, <2>1, <2>3
      <3>2. k \in session[t].todo \cup session[t].bridge BY <3>1 DEF EndHangsUp
      <3> QED BY <1>1, <3>2
    <2> QED BY <2>2, <2>3
  <1> QED BY <1>5, <1>6, <1>7, <1>8, <1>9, <1>10

LEMMA AddInv == ASSUME GroupInv, NEW g \in Groupings, Add(g) PROVE GroupInv'
  <1> USE DEF GroupInv
  <1>1. PICK l \in order[g].todo : /\ BridgeAdd(order[g].of, l)
                                   /\ order' = [order EXCEPT ![g].todo = order[g].todo \ {l}]
    BY DEF Add, GroupType
  <1>2. order[g].pc = "move" /\ UNCHANGED <<call, slot, ending, chat, here, current>> BY DEF Add
  <1>3. order[g].of \in Groupings BY <1>2, NamesMade DEF Named
  <1>4. l \in GroupLegs /\ slot[l] = "none" /\ SessionsOf(l) = {} BY DEF InTransit, GroupType, Orders
  <1>5. order' \in [Groupings -> Orders] /\ \A h \in Groupings \ {g} : order'[h] = order[h]
    BY <1>1 DEF GroupType, Orders
  <1>6. order'[g].todo = order[g].todo \ {l} /\ order'[g].pc = order[g].pc /\ order'[g].of = order[g].of
    BY <1>1 DEF GroupType, Orders
  <1>7. \A h \in Groupings \ {g} : l \notin order[h].todo BY DEF InTransit
  <1>8. \A h \in Groupings : AddsOn(h, l) BY <1>5, <1>6, <1>7 DEF AddsOn
  <1>9. \A h \in Dialling : l # Number(h) BY DEF Dialled
  <1>10. call' \in [GroupLegs -> {"new", "ringing", "up", "down"}] /\ \A k \in GroupLegs : ending'[k] = ending[k]
         /\ ending' \in [GroupLegs -> [pc : {"off", "on", "notice", "gone"}, of : Groupings \cup {Nobody}]]
    BY <1>2 DEF GroupType
  <1> QED BY <1>1, <1>2, <1>3, <1>4, <1>5, <1>8, <1>9, <1>10, BridgeAddInv

LEMMA DialAnsweredInv == ASSUME GroupInv, NEW g \in Dialling, DialAnswered(g) PROVE GroupInv'
  <1> USE DEF GroupInv
  <1> DEFINE l == Number(g)
  <1>1. g \in Groupings /\ l \in GroupLegs /\ \A h \in Dialling : l = Number(h) => h = g BY NumberFacts
  <1>2. slot[l] = "none" /\ SessionsOf(l) = {} /\ \A h \in Groupings : l \notin order[h].todo
    BY DEF Dialled, DialAnswered
  <1>3. order[g].pc = "dial" /\ BridgeAdd(order[g].of, l) /\ Done(g) /\ UNCHANGED <<slot, chat, here, current>>
        /\ call' = [call EXCEPT ![l] = "up"] /\ ending' = [ending EXCEPT ![l].pc = "on"]
    BY DEF DialAnswered
  <1> HIDE DEF l
  <1>4. order[g].of \in Groupings BY <1>1, <1>3, NamesMade DEF Named
  <1>5. order' \in [Groupings -> Orders] /\ order'[g].pc = "done" /\ order'[g].of = Nobody /\ order'[g].todo = {}
        /\ \A h \in Groupings \ {g} : order'[h] = order[h]
    BY <1>1, <1>3, DoneFrame
  <1>6. order[g].todo = {} BY <1>1, <1>3 DEF InTransit
  <1>7. \A h \in Groupings : AddsOn(h, l) BY <1>2, <1>3, <1>5, <1>6 DEF AddsOn
  <1>8. call' \in [GroupLegs -> {"new", "ringing", "up", "down"}] /\ call'[l] = "up"
        /\ \A k \in GroupLegs \ {l} : call'[k] = call[k]
    BY <1>1, <1>3 DEF GroupType
  <1>9. ending' \in [GroupLegs -> [pc : {"off", "on", "notice", "gone"}, of : Groupings \cup {Nobody}]]
        /\ \A k \in GroupLegs : ending'[k] = ending[k] \/ ending'[k].pc # "notice"
    BY <1>1, <1>3 DEF GroupType
  <1> QED BY <1>1, <1>2, <1>3, <1>4, <1>5, <1>7, <1>8, <1>9, BridgeAddInv


-----------------------------------------------------------------------------
(* Ends *)

\* How a command goes on that ends a session, or has.
EndsOn(h) ==
    /\ order[h].todo = {} /\ order'[h].todo = {}
    /\ order'[h].pc \in {"stop", "done"} /\ (order[h].pc = "done" => order'[h].pc = "done")
    /\ order'[h].of # Nobody => order'[h].of \in Groupings /\ Made(order[h].of)'
    /\ order'[h].pc = "stop" => order'[h].of # Nobody /\ ~session'[order'[h].of].running

LEMMA EndStep ==
  ASSUME GroupInv, GroupType', UNCHANGED current \/ current' = Nobody,
         \A l \in GroupLegs : slot'[l] = slot[l] \/ slot'[l] = "none",
         \A l \in GroupLegs : call'[l] = call[l] \/ call'[l] = "down",
         \A l \in GroupLegs : ending'[l] = ending[l] \/ ending'[l].pc # "notice"
                                \/ (ending'[l].of # Nobody /\ Made(ending'[l].of)),
         \A h \in Groupings : order'[h] = order[h] \/ EndsOn(h),
         \A s \in Groupings : /\ session'[s].legs \subseteq session[s].legs
                              /\ session'[s].running => session[s].running
                              /\ session'[s].watch # "off" => session[s].watch # "off"
                              /\ session'[s].watch = "closing" => ~session'[s].running
                              /\ session'[s].running => session'[s].bridge = session'[s].legs
                              /\ session'[s].running => \A l \in session'[s].legs : hook'[l] = s,
         EndHangsUp'
  PROVE  GroupInv'
  <1> USE DEF GroupInv
  <1>1. \A l \in GroupLegs : SessionsOf(l)' \subseteq SessionsOf(l) BY DEF SessionsOf
  <1>2. \A h \in Groupings : Made(h) => Made(h)' BY DEF Made, EndsOn
  <1>3. Named'
    <2>1. current' # Nobody => Made(current)' BY <1>2 DEF Named, GroupType, Made
    <2>2. ASSUME NEW k \in GroupLegs, ending'[k].pc = "notice"
          PROVE  ending'[k].of # Nobody /\ Made(ending[k].of)'
      <3>1. ending'[k].of \in Groupings /\ Made(ending'[k].of)
        BY <2>2, GroupAssumption DEF Named, GroupType
      <3> QED BY <1>2, <3>1, GroupAssumption DEF Made
    <2>3. ASSUME NEW h \in Groupings
          PROVE  /\ order'[h].of # Nobody => Made(order[h].of)'
                 /\ order'[h].pc \in {"take", "move", "dial", "stop"} => order'[h].of # Nobody
                 /\ order'[h].pc = "stop" => ~session'[order'[h].of].running
      <3>1. CASE order'[h] = order[h]
        <4>1. order[h].of # Nobody => order[h].of \in Groupings /\ Made(order[h].of) BY NamesMade
        <4>2. order[h].of # Nobody => Made(order[h].of)' BY <1>2, <3>1, <4>1 DEF Made
        <4> QED BY <3>1, <4>1, <4>2 DEF Named
      <3>2. CASE EndsOn(h) BY <3>2 DEF EndsOn
      <3> QED BY <3>1, <3>2
    <2>4. \A h \in Groupings : /\ session'[h].watch # "off" => Made(h)'
                               /\ session'[h].watch = "closing" => ~session'[h].running
      BY <1>2 DEF Named
    <2> QED BY <2>1, <2>2, <2>3, <2>4 DEF Named
  <1>4. InTransit'
    <2>1. \A h \in Groupings : order[h].todo \subseteq GroupLegs
              /\ (order'[h] = order[h] \/ (order'[h].todo = {} /\ order[h].todo = {}))
      BY DEF EndsOn, GroupType, Orders
    <2>2. \A h \in Groupings : order'[h].todo # {} => order'[h].pc = "move" BY <2>1 DEF InTransit
    <2>3. \A h \in Groupings : \A k \in order'[h].todo : slot'[k] = "none" /\ SessionsOf(k)' = {}
      BY <1>1, <2>1 DEF InTransit
    <2>4. \A h \in Groupings : \A i \in Groupings \ {h} : order'[h].todo \cap order'[i].todo = {}
      BY <2>1 DEF InTransit
    <2> QED BY <2>2, <2>3, <2>4 DEF InTransit
  <1>5. Dialled'
    <2>1. \A h \in Dialling : slot'[Number(h)] = "none" BY NumberFacts DEF Dialled
    <2>2. \A h \in Dialling : \A i \in Groupings : Number(h) \notin order'[i].todo BY DEF Dialled, EndsOn
    <2>3. ASSUME NEW h \in Dialling, order'[h].pc # "done" \/ call'[Number(h)] = "ringing"
          PROVE  SessionsOf(Number(h))' = {}
      <3>1. order[h].pc # "done" \/ call[Number(h)] = "ringing" BY <2>3, NumberFacts DEF EndsOn
      <3> QED BY <1>1, <3>1, NumberFacts DEF Dialled
    <2> QED BY <2>1, <2>2, <2>3 DEF Dialled
  <1>6. OneConversation' BY <1>1 DEF OneConversation
  <1> QED BY <1>3, <1>4, <1>5, <1>6

LEMMA StopStep ==
  ASSUME GroupInv, NEW s \in Groupings, NEW w \in {"off", "on", "closing", "gone"}, NEW D \in SUBSET GroupLegs,
         session' = [session EXCEPT ![s] = GroupBridgeStop(s, w, D)], hook' = StoppedHooks(s), UNCHANGED call,
         session[s].legs \subseteq D, w # "off" => session[s].watch # "off"
  PROVE  /\ session' \in [Groupings -> Sessions] /\ hook' \in [GroupLegs -> Groupings \cup {Nobody, "user"}]
         /\ ~session'[s].running
         /\ \A t \in Groupings : /\ session'[t].legs \subseteq session[t].legs
                                 /\ session'[t].running => session[t].running
                                 /\ session'[t].watch # "off" => session[t].watch # "off"
                                 /\ session'[t].watch = "closing" => ~session'[t].running
                                 /\ session'[t].running => session'[t].bridge = session'[t].legs
                                 /\ session'[t].running => \A l \in session'[t].legs : hook'[l] = t
         /\ EndHangsUp'
  <1> USE DEF GroupInv
  <1>1. /\ session' \in [Groupings -> Sessions]
        /\ session'[s].legs = session[s].legs /\ ~session'[s].running
        /\ session'[s].bridge = IF session[s].running THEN {} ELSE session[s].bridge
        /\ session'[s].todo = session[s].todo \cup D /\ session'[s].watch = w
        /\ \A t \in Groupings \ {s} : session'[t] = session[t]
        /\ hook' \in [GroupLegs -> Groupings \cup {Nobody, "user"}]
        /\ \A l \in GroupLegs : hook'[l] = hook[l] \/ (session[s].running /\ l \in session[s].bridge)
    BY StopFrame
  <1>2. ASSUME NEW t \in Groupings
        PROVE  /\ session'[t].legs \subseteq session[t].legs
               /\ session'[t].running => session[t].running
               /\ session'[t].watch # "off" => session[t].watch # "off"
               /\ session'[t].watch = "closing" => ~session'[t].running
               /\ session'[t].running => session'[t].bridge = session'[t].legs
               /\ session'[t].running => \A l \in session'[t].legs : hook'[l] = t
    <2>1. CASE t = s BY <1>1, <2>1
    <2>2. CASE t # s
      <3>1. session'[t] = session[t] BY <1>1, <2>2
      <3>2. session[t].watch = "closing" => ~session[t].running BY DEF Named
      <3>3. session[t].running => session[t].bridge = session[t].legs BY DEF OneConversation
      <3>4. ASSUME session[t].running, NEW l \in session[t].legs PROVE hook'[l] = t
        <4>1. l \in GroupLegs /\ t \in SessionsOf(l) BY DEF SessionsOf, GroupType, Sessions
        <4>2. hook[l] = t BY <3>4 DEF OneConversation
        <4>3. ~(session[s].running /\ l \in session[s].bridge)
          <5> SUFFICES ASSUME session[s].running, l \in session[s].bridge PROVE FALSE OBVIOUS
          <5>1. l \in session[s].legs BY DEF OneConversation
          <5>2. s \in SessionsOf(l) BY <5>1 DEF SessionsOf
          <5> QED BY <2>2, <4>1, <5>2 DEF OneConversation
        <4> QED BY <1>1, <4>1, <4>2, <4>3
      <3> QED BY <3>1, <3>2, <3>3, <3>4
    <2> QED BY <2>1, <2>2
  <1>3. EndHangsUp'
    <2> SUFFICES ASSUME NEW t \in Groupings, NEW l \in session'[t].legs, call[l] = "up", ~session'[t].running
                 PROVE  l \in session'[t].todo \cup session'[t].bridge
      BY DEF EndHangsUp
    <2>1. CASE t = s BY <1>1, <2>1
    <2>2. CASE t # s
      <3>1. session'[t] = session[t] BY <1>1, <2>2
      <3> QED BY <3>1 DEF EndHangsUp
    <2> QED BY <2>1, <2>2
  <1> QED BY <1>1, <1>2, <1>3

\* Sessions that are left as they are.
LEMMA Untouched ==
  ASSUME GroupInv, NEW t \in Groupings
  PROVE  /\ session[t].watch = "closing" => ~session[t].running
         /\ session[t].running => session[t].bridge = session[t].legs /\ \A l \in session[t].legs : hook[l] = t
  BY DEF GroupInv, Named, OneConversation

LEMMA AskStopInv == ASSUME GroupInv, NEW g \in Groupings, NEW u \in Users, AskStop(g, u) PROVE GroupInv'
  <1> USE DEF GroupInv
  <1> DEFINE r == [pc |-> IF current = Nobody THEN "done" ELSE "stop",
                   user |-> u, kind |-> "none", of |-> current, todo |-> {}]
  <1>1. r \in Orders /\ r.todo = {} /\ r.of = current /\ r.pc = (IF current = Nobody THEN "done" ELSE "stop")
    BY DEF GroupType, Orders
  <1> HIDE DEF r
  <1>2. order' = [order EXCEPT ![g] = r] /\ order[g].pc = "idle" /\ UNCHANGED <<call, slot, ending, chat, here, current>>
    BY DEF AskStop, r
  <1>3. order' \in [Groupings -> Orders] /\ order'[g] = r /\ \A h \in Groupings \ {g} : order'[h] = order[h]
    BY <1>1, <1>2, OrderFrame
  <1>4. CASE current = Nobody
    <2>1. UNCHANGED <<session, hook>> BY <1>4 DEF AskStop
    <2>2. GoesOn(g) BY <1>1, <1>2, <1>3, <1>4 DEF GoesOn, Made
    <2>3. here' \in Groupings \cup {Nobody} BY <1>2 DEF GroupType
    <2> QED BY <1>2, <1>3, <2>1, <2>2, <2>3, CommandStep
  <1>5. CASE current # Nobody
    <2>1. current \in Groupings BY <1>5 DEF GroupType
    <2> DEFINE w == session[current].watch
               D == session[current].legs
    <2>2. w \in {"off", "on", "closing", "gone"} /\ D \in SUBSET GroupLegs BY <2>1 DEF GroupType, Sessions
    <2>3. session' = [session EXCEPT ![current] = GroupBridgeStop(current, w, D)] /\ hook' = StoppedHooks(current)
      BY <1>5 DEF AskStop
    <2> HIDE DEF w
    <2>4. /\ session' \in [Groupings -> Sessions] /\ hook' \in [GroupLegs -> Groupings \cup {Nobody, "user"}]
          /\ ~session'[current].running
          /\ \A t \in Groupings : /\ session'[t].legs \subseteq session[t].legs
                                  /\ session'[t].running => session[t].running
                                  /\ session'[t].watch # "off" => session[t].watch # "off"
                                  /\ session'[t].watch = "closing" => ~session'[t].running
                                  /\ session'[t].running => session'[t].bridge = session'[t].legs
                                  /\ session'[t].running => \A l \in session'[t].legs : hook'[l] = t
          /\ EndHangsUp'
      BY <1>2, <2>1, <2>2, <2>3, StopStep DEF w
    <2>5. Made(current)' BY <1>1, <1>2, <1>3, <1>5, <2>1 DEF Named, Made
    <2>6. order[g].todo = {} BY <1>2 DEF InTransit
    <2>7. EndsOn(g)
      <3>1. order'[g].of = current /\ order'[g].pc = "stop" /\ order'[g].todo = {} BY <1>1, <1>3, <1>5
      <3>2. Made(order[g].of)' BY <1>2, <2>5, <3>1 DEF Made
      <3> QED BY <1>2, <1>5, <2>1, <2>4, <2>6, <3>1, <3>2 DEF EndsOn
    <2>8. GroupType' BY <1>2, <1>3, <2>4 DEF GroupType
    <2> QED BY <1>2, <1>3, <2>4, <2>7, <2>8, EndStep
  <1> QED BY <1>4, <1>5

LEMMA WatchGroupInv == ASSUME GroupInv, NEW s \in Groupings, WatchGroup(s) PROVE GroupInv'
  <1> USE DEF GroupInv
  <1>1. session[s].watch = "on" /\ UNCHANGED <<call, slot, ending, chat, here, current, order>> BY DEF WatchGroup
  <1>2. CASE current = s
    <2> DEFINE D == session[s].legs
    <2>1. D \in SUBSET GroupLegs BY DEF GroupType, Sessions
    <2>2. session' = [session EXCEPT ![s] = GroupBridgeStop(s, "closing", D)] /\ hook' = StoppedHooks(s)
      BY <1>2 DEF WatchGroup
    <2>3. /\ session' \in [Groupings -> Sessions] /\ hook' \in [GroupLegs -> Groupings \cup {Nobody, "user"}]
          /\ \A t \in Groupings : /\ session'[t].legs \subseteq session[t].legs
                                  /\ session'[t].running => session[t].running
                                  /\ session'[t].watch # "off" => session[t].watch # "off"
                                  /\ session'[t].watch = "closing" => ~session'[t].running
                                  /\ session'[t].running => session'[t].bridge = session'[t].legs
                                  /\ session'[t].running => \A l \in session'[t].legs : hook'[l] = t
          /\ EndHangsUp'
      BY <1>1, <2>1, <2>2, StopStep
    <2>4. GroupType' BY <1>1, <2>3 DEF GroupType
    <2> QED BY <1>1, <2>3, <2>4, EndStep
  <1>3. CASE current # s
    <2>1. session' = [session EXCEPT ![s].watch = "gone"] /\ UNCHANGED hook BY <1>3 DEF WatchGroup
    <2>2. session' \in [Groupings -> Sessions]
      <3> DEFINE r == [session[s] EXCEPT !.watch = "gone"]
      <3>1. r \in Sessions
        <4>1. session[s] \in Sessions BY DEF GroupType
        <4> QED BY ONLY <4>1 DEF Sessions
      <3>2. session' = [session EXCEPT ![s] = r] BY <2>1
      <3> HIDE DEF r
      <3> QED BY <3>1, <3>2, SessionFrame
    <2>3. \A t \in Groupings :
            /\ session'[t].legs = session[t].legs /\ session'[t].running = session[t].running
            /\ session'[t].bridge = session[t].bridge /\ session'[t].todo = session[t].todo
            /\ session'[t].watch = session[t].watch \/ (t = s /\ session'[t].watch = "gone")
      BY <2>1 DEF GroupType, Sessions
    <2>4. GroupType' BY <1>1, <2>1, <2>2 DEF GroupType
    <2>5. EndHangsUp' BY <1>1, <2>3 DEF EndHangsUp
    <2> QED BY <1>1, <2>1, <2>3, <2>4, <2>5, Untouched, EndStep
  <1> QED BY <1>2, <1>3

LEMMA AfterNoticeInv == ASSUME GroupInv, NEW l \in GroupLegs, AfterNotice(l) PROVE GroupInv'
  <1> USE DEF GroupInv
  <1> DEFINE s == ending[l].of
  <1>1. s \in Groupings BY DEF AfterNotice, Named, GroupType
  <1>2. UNCHANGED <<call, slot, here, order>> BY DEF AfterNotice
  <1>3. ending' = [ending EXCEPT ![l] = [pc |-> "gone", of |-> Nobody]] BY DEF AfterNotice
  <1>4. ending' \in [GroupLegs -> [pc : {"off", "on", "notice", "gone"}, of : Groupings \cup {Nobody}]]
        /\ \A k \in GroupLegs : ending'[k] = ending[k] \/ ending'[k].pc # "notice"
    BY <1>3 DEF GroupType
  <1>5. CASE session[s].legs # {}
    <2>1. UNCHANGED <<session, hook, current>> BY <1>5 DEF AfterNotice
    <2>2. GroupType' BY <1>2, <1>4, <2>1 DEF GroupType
    <2>3. EndHangsUp' BY <1>2, <2>1 DEF EndHangsUp
    <2> QED BY <1>2, <1>4, <2>1, <2>2, <2>3, Untouched, EndStep
  <1>6. CASE session[s].legs = {}
    <2> DEFINE w == session[s].watch
    <2>1. w \in {"off", "on", "closing", "gone"} BY <1>1 DEF GroupType, Sessions
    <2>2. session' = [session EXCEPT ![s] = GroupBridgeStop(s, w, {})] /\ hook' = StoppedHooks(s) /\ current' = Nobody
      BY <1>6 DEF AfterNotice
    <2> HIDE DEF w, s
    <2>3. /\ session' \in [Groupings -> Sessions] /\ hook' \in [GroupLegs -> Groupings \cup {Nobody, "user"}]
          /\ \A t \in Groupings : /\ session'[t].legs \subseteq session[t].legs
                                  /\ session'[t].running => session[t].running
                                  /\ session'[t].watch # "off" => session[t].watch # "off"
                                  /\ session'[t].watch = "closing" => ~session'[t].running
                                  /\ session'[t].running => session'[t].bridge = session'[t].legs
                                  /\ session'[t].running => \A k \in session'[t].legs : hook'[k] = t
          /\ EndHangsUp'
      BY <1>1, <1>2, <1>6, <2>1, <2>2, StopStep DEF w
    <2>4. GroupType' BY <1>2, <1>4, <2>2, <2>3 DEF GroupType
    <2> QED BY <1>2, <1>4, <2>2, <2>3, <2>4, EndStep
  <1> QED BY <1>5, <1>6


LEMMA StopDoneInv == ASSUME GroupInv, NEW g \in Groupings, StopDone(g) PROVE GroupInv'
  <1> USE DEF GroupInv
  <1> DEFINE s == order[g].of
  <1>1. order[g].pc = "stop" /\ Done(g) /\ current' = Nobody /\ session' = [session EXCEPT ![s].legs = {}]
        /\ UNCHANGED <<call, slot, hook, ending, here>>
    BY DEF StopDone
  <1>2. s \in Groupings /\ ~session[s].running BY <1>1, NamesMade DEF Named
  <1> HIDE DEF s
  <1> DEFINE r == [session[s] EXCEPT !.legs = {}]
  <1>3. r \in Sessions /\ r.legs = {} /\ ~r.running /\ r.watch = session[s].watch
    BY <1>2 DEF GroupType, Sessions
  <1>4. session' = [session EXCEPT ![s] = r] BY <1>1
  <1> HIDE DEF r
  <1>5. session' \in [Groupings -> Sessions] /\ session'[s] = r /\ \A t \in Groupings \ {s} : session'[t] = session[t]
    BY <1>2, <1>3, <1>4, SessionFrame
  <1>6. order' \in [Groupings -> Orders] /\ order'[g].pc = "done" /\ order'[g].of = Nobody /\ order'[g].todo = {}
        /\ \A h \in Groupings \ {g} : order'[h] = order[h]
    BY <1>1, DoneFrame
  <1>7. order[g].todo = {} BY <1>1 DEF InTransit
  <1>8. EndsOn(g) BY <1>6, <1>7 DEF EndsOn
  <1>9. GroupType' BY <1>1, <1>5, <1>6 DEF GroupType
  <1>10. EndHangsUp' BY <1>1, <1>3, <1>5 DEF EndHangsUp
  <1>11. ASSUME NEW t \in Groupings
         PROVE  /\ session'[t].legs \subseteq session[t].legs
                /\ session'[t].running => session[t].running
                /\ session'[t].watch # "off" => session[t].watch # "off"
                /\ session'[t].watch = "closing" => ~session'[t].running
                /\ session'[t].running => session'[t].bridge = session'[t].legs
                /\ session'[t].running => \A l \in session'[t].legs : hook'[l] = t
    <2>1. CASE t = s BY <1>3, <1>5, <2>1
    <2>2. CASE t # s
      <3>1. session'[t] = session[t] BY <1>5, <2>2
      <3> QED BY <1>1, <3>1, Untouched
    <2> QED BY <2>1, <2>2
  <1> QED BY <1>1, <1>6, <1>8, <1>9, <1>10, <1>11, EndStep

LEMMA WatchDoneInv == ASSUME GroupInv, NEW s \in Groupings, WatchDone(s) PROVE GroupInv'
  <1> USE DEF GroupInv
  <1>1. session[s].watch = "closing" /\ current' = Nobody /\ UNCHANGED <<call, slot, hook, ending, chat, here, order>>
    BY DEF WatchDone
  <1>2. ~session[s].running BY <1>1 DEF Named
  <1> DEFINE r1 == [session[s] EXCEPT !.watch = "gone"]
             r == [r1 EXCEPT !.legs = {}]
  <1>3. r1 \in Sessions /\ ~r1.running /\ r1.watch = "gone"
    <2>1. session[s] \in Sessions BY DEF GroupType
    <2> QED BY ONLY <1>2, <2>1 DEF Sessions
  <1>4. session' = [session EXCEPT ![s] = r] BY DEF WatchDone, GroupType
  <1> HIDE DEF r1
  <1>5. r \in Sessions /\ r.legs = {} /\ ~r.running /\ r.watch = "gone" BY <1>3 DEF Sessions
  <1> HIDE DEF r
  <1>6. session' \in [Groupings -> Sessions] /\ session'[s] = r /\ \A t \in Groupings \ {s} : session'[t] = session[t]
    BY <1>4, <1>5, SessionFrame
  <1>7. GroupType' BY <1>1, <1>6 DEF GroupType
  <1>8. EndHangsUp' BY <1>1, <1>5, <1>6 DEF EndHangsUp
  <1>9. ASSUME NEW t \in Groupings
        PROVE  /\ session'[t].legs \subseteq session[t].legs
               /\ session'[t].running => session[t].running
               /\ session'[t].watch # "off" => session[t].watch # "off"
               /\ session'[t].watch = "closing" => ~session'[t].running
               /\ session'[t].running => session'[t].bridge = session'[t].legs
               /\ session'[t].running => \A l \in session'[t].legs : hook'[l] = t
    <2>1. CASE t = s BY <1>1, <1>5, <1>6, <2>1
    <2>2. CASE t # s
      <3>1. session'[t] = session[t] BY <1>6, <2>2
      <3> QED BY <1>1, <3>1, Untouched
    <2> QED BY <2>1, <2>2
  <1> QED BY <1>1, <1>7, <1>8, <1>9, EndStep

LEMMA HangOneInv == ASSUME GroupInv, NEW s \in Groupings, HangOne(s) PROVE GroupInv'
  <1> USE DEF GroupInv
  <1>1. PICK l \in session[s].todo :
          /\ session' = [session EXCEPT ![s].todo = session[s].todo \ {l}]
          /\ call' = IF call[l] = "up" THEN [call EXCEPT ![l] = "down"] ELSE call
    BY DEF HangOne, GroupType
  <1>2. UNCHANGED <<slot, hook, ending, chat, here, current, order>> BY DEF HangOne
  <1>3. l \in GroupLegs BY DEF GroupType, Sessions
  <1> DEFINE r == [session[s] EXCEPT !.todo = session[s].todo \ {l}]
  <1>4. r \in Sessions /\ r.legs = session[s].legs /\ r.running = session[s].running /\ r.watch = session[s].watch
        /\ r.bridge = session[s].bridge /\ r.todo = session[s].todo \ {l}
    <2>1. session[s] \in Sessions BY DEF GroupType
    <2> QED BY ONLY <2>1 DEF Sessions
  <1>5. session' = [session EXCEPT ![s] = r] BY <1>1
  <1> HIDE DEF r
  <1>6. session' \in [Groupings -> Sessions] /\ session'[s] = r /\ \A t \in Groupings \ {s} : session'[t] = session[t]
    BY <1>4, <1>5, SessionFrame
  <1>7. /\ call' \in [GroupLegs -> {"new", "ringing", "up", "down"}] /\ call'[l] # "up"
        /\ \A k \in GroupLegs : call'[k] = call[k] \/ call'[k] = "down"
    BY <1>1, <1>3 DEF GroupType
  <1>8. GroupType' BY <1>2, <1>6, <1>7 DEF GroupType
  <1>9. \A t \in Groupings : /\ session'[t].legs = session[t].legs /\ session'[t].running = session[t].running
                             /\ session'[t].watch = session[t].watch /\ session'[t].bridge = session[t].bridge
                             /\ session[t].todo \ {l} \subseteq session'[t].todo
    BY <1>4, <1>6
  <1>10. EndHangsUp'
    <2> SUFFICES ASSUME NEW t \in Groupings, NEW k \in session'[t].legs, call'[k] = "up", ~session'[t].running
                 PROVE  k \in session'[t].todo \cup session'[t].bridge
      BY DEF EndHangsUp
    <2>1. k \in session[t].legs /\ ~session[t].running BY <1>9
    <2>2. k \in GroupLegs BY <2>1 DEF GroupType, Sessions
    <2>3. call[k] = "up" /\ k # l BY <1>7, <2>2
    <2>4. k \in session[t].todo \cup session[t].bridge BY <2>1, <2>3 DEF EndHangsUp
    <2> QED BY <1>9, <2>3, <2>4
  <1> QED BY <1>2, <1>7, <1>8, <1>9, <1>10, Untouched, EndStep

LEMMA LegEndedInv == ASSUME GroupInv, NEW l \in GroupLegs, LegEnded(l) PROVE GroupInv'
  <1> USE DEF GroupInv
  <1>1. UNCHANGED <<call, chat, here, current, order>> /\ call[l] = "down" BY DEF LegEnded
  <1>2. CASE GroupOf(l) = {}
    <2>1. /\ ending' = [ending EXCEPT ![l].pc = "gone"] /\ slot' = [slot EXCEPT ![l] = "none"] /\ UNCHANGED session
          /\ hook' = IF slot[l] = "active" THEN Unhooked({l}) ELSE hook
      BY <1>2 DEF LegEnded
    <2>2. ending' \in [GroupLegs -> [pc : {"off", "on", "notice", "gone"}, of : Groupings \cup {Nobody}]]
          /\ \A k \in GroupLegs : ending'[k] = ending[k] \/ ending'[k].pc # "notice"
      BY <2>1 DEF GroupType
    <2>3. slot' \in [GroupLegs -> {"active", "held", "none"}]
          /\ \A k \in GroupLegs : slot'[k] = slot[k] \/ slot'[k] = "none"
      BY <2>1 DEF GroupType
    <2>4. hook' \in [GroupLegs -> Groupings \cup {Nobody, "user"}]
          /\ \A k \in GroupLegs : hook'[k] = hook[k] \/ (k = l /\ slot[l] # "none")
      BY <2>1 DEF GroupType, Unhooked
    <2>5. GroupType' BY <1>1, <2>1, <2>2, <2>3, <2>4 DEF GroupType
    <2>6. EndHangsUp' BY <1>1, <2>1 DEF EndHangsUp
    <2>7. \A t \in Groupings : session[t].running => \A k \in session[t].legs : hook'[k] = t
      <3> SUFFICES ASSUME NEW t \in Groupings, session[t].running, NEW k \in session[t].legs PROVE hook'[k] = t
        OBVIOUS
      <3>1. k \in GroupLegs /\ t \in SessionsOf(k) BY DEF SessionsOf, GroupType, Sessions
      <3>2. slot[k] = "none" BY <3>1 DEF OneConversation
      <3> QED BY <2>4, <3>1, <3>2, Untouched
    <2> QED BY <1>1, <2>1, <2>2, <2>3, <2>5, <2>6, <2>7, Untouched, EndStep
  <1>3. CASE GroupOf(l) # {}
    <2>1. PICK s \in GroupOf(l) :
            /\ ending' = [ending EXCEPT ![l] = [pc |-> "notice", of |-> s]]
            /\ session' = [session EXCEPT ![s].legs = session[s].legs \ {l}, ![s].bridge = session[s].bridge \ {l}]
            /\ hook' = IF l \in session[s].bridge THEN Unhooked({l}) ELSE hook
            /\ UNCHANGED slot
      BY <1>3 DEF LegEnded, GroupOf, SessionsOf, GroupType
    <2>2. s \in Groupings /\ s \in SessionsOf(l) /\ Made(s) /\ s # Nobody
      BY GroupAssumption DEF GroupOf, SessionsOf, Named
    <2> DEFINE r1 == [session[s] EXCEPT !.legs = session[s].legs \ {l}]
               r == [r1 EXCEPT !.bridge = session[s].bridge \ {l}]
    <2>3. r1 \in Sessions /\ r1.legs = session[s].legs \ {l} /\ r1.running = session[s].running
          /\ r1.watch = session[s].watch /\ r1.todo = session[s].todo
      BY <2>2 DEF GroupType, Sessions
    <2>4. session' = [session EXCEPT ![s] = r] BY <2>1, <2>2 DEF GroupType
    <2>5. session[s].bridge \ {l} \in SUBSET GroupLegs BY <2>2 DEF GroupType, Sessions
    <2> HIDE DEF r1
    <2>6. r \in Sessions /\ r.legs = session[s].legs \ {l} /\ r.running = session[s].running
          /\ r.watch = session[s].watch /\ r.todo = session[s].todo /\ r.bridge = session[s].bridge \ {l}
      BY <2>3, <2>5 DEF Sessions
    <2> HIDE DEF r
    <2>7. session' \in [Groupings -> Sessions] /\ session'[s] = r /\ \A t \in Groupings \ {s} : session'[t] = session[t]
      BY <2>2, <2>4, <2>6, SessionFrame
    <2>8. ending' \in [GroupLegs -> [pc : {"off", "on", "notice", "gone"}, of : Groupings \cup {Nobody}]]
          /\ \A k \in GroupLegs : ending'[k] = ending[k] \/ (k = l /\ ending'[k].of = s)
      BY <2>1, <2>2 DEF GroupType
    <2>9. hook' \in [GroupLegs -> Groupings \cup {Nobody, "user"}]
          /\ \A k \in GroupLegs : hook'[k] = hook[k] \/ k = l
      BY <2>1 DEF GroupType, Unhooked
    <2>10. GroupType' BY <1>1, <2>1, <2>7, <2>8, <2>9 DEF GroupType
    <2>11. ASSUME NEW t \in Groupings
           PROVE  /\ session'[t].legs \subseteq session[t].legs
                  /\ session'[t].running => session[t].running
                  /\ session'[t].watch # "off" => session[t].watch # "off"
                  /\ session'[t].watch = "closing" => ~session'[t].running
                  /\ session'[t].running => session'[t].bridge = session'[t].legs
                  /\ session'[t].running => \A k \in session'[t].legs : hook'[k] = t
      <3>1. session[t].legs \subseteq GroupLegs BY DEF GroupType, Sessions
      <3>2. CASE t = s BY <2>6, <2>7, <2>9, <3>1, <3>2, Untouched
      <3>3. CASE t # s
        <4>1. session'[t] = session[t] BY <2>7, <3>3
        <4>2. l \notin session[t].legs BY <2>2, <3>3 DEF OneConversation, SessionsOf
        <4> QED BY <2>9, <3>1, <4>1, <4>2, Untouched
      <3> QED BY <3>2, <3>3
    <2>12. EndHangsUp'
      <3> SUFFICES ASSUME NEW t \in Groupings, NEW k \in session'[t].legs, call[k] = "up", ~session'[t].running
                   PROVE  k \in session'[t].todo \cup session'[t].bridge
        BY <1>1 DEF EndHangsUp
      <3>1. k # l BY <1>1
      <3>2. CASE t = s
        <4>1. k \in session[s].todo \cup session[s].bridge BY <2>6, <2>7, <3>2 DEF EndHangsUp
        <4> QED BY <2>6, <2>7, <3>1, <3>2, <4>1
      <3>3. CASE t # s
        <4>1. session'[t] = session[t] BY <2>7, <3>3
        <4> QED BY <4>1 DEF EndHangsUp
      <3> QED BY <3>2, <3>3
    <2> QED BY <1>1, <2>1, <2>2, <2>8, <2>10, <2>11, <2>12, EndStep
  <1> QED BY <1>2, <1>3

-----------------------------------------------------------------------------
LEMMA GroupInitInv == GroupInit => GroupInv
  <1> SUFFICES ASSUME GroupInit PROVE GroupInv OBVIOUS
  <1> USE GroupAssumption, NumberFacts
  <1>1. \A l \in GroupLegs : l[1] \in Users => l[2] \in {"active", "held"}
    BY DEF GroupLegs, Number
  <1>2. call \in [GroupLegs -> {"new", "ringing", "up", "down"}] BY DEF GroupInit
  <1>3. slot \in [GroupLegs -> {"active", "held", "none"}] BY <1>1 DEF GroupInit
  <1>4. hook \in [GroupLegs -> Groupings \cup {Nobody, "user"}] BY DEF GroupInit
  <1>5. ending \in [GroupLegs -> [pc : {"off", "on", "notice", "gone"}, of : Groupings \cup {Nobody}]]
        /\ \A l \in GroupLegs : ending[l].pc # "notice"
    BY DEF GroupInit
  <1>6. FALSE \in BOOLEAN /\ ~FALSE OBVIOUS
  <1>7. NoSession \in Sessions /\ NoSession.legs = {} /\ ~NoSession.running /\ NoSession.watch = "off"
    BY <1>6 DEF NoSession, Sessions
  <1>8. session \in [Groupings -> Sessions] /\ \A s \in Groupings : session[s] = NoSession
    BY <1>7 DEF GroupInit
  <1>9. here = Nobody /\ current = Nobody BY DEF GroupInit
  <1>10. order \in [Groupings -> Orders]
         /\ \A g \in Groupings : order[g].pc = "idle" /\ order[g].of = Nobody /\ order[g].todo = {}
    BY DEF GroupInit, Orders
  <1>11. GroupType BY <1>2, <1>3, <1>4, <1>5, <1>8, <1>9, <1>10 DEF GroupType
  <1>12. \A l \in GroupLegs : SessionsOf(l) = {} BY <1>7, <1>8 DEF SessionsOf
  <1>13. \A g \in Dialling : slot[Number(g)] = "none"
    <2> SUFFICES ASSUME NEW g \in Dialling PROVE slot[Number(g)] = "none" OBVIOUS
    <2>1. Number(g)[1] = g /\ g \notin Users BY DEF Number
    <2> QED BY <2>1 DEF GroupInit
  <1>14. Dialled BY <1>10, <1>12, <1>13 DEF Dialled
  <1>15. Named BY <1>5, <1>7, <1>8, <1>9, <1>10 DEF Named
  <1>16. InTransit BY <1>10 DEF InTransit
  <1>17. OneConversation BY <1>7, <1>8, <1>12 DEF OneConversation
  <1>18. EndHangsUp BY <1>7, <1>8 DEF EndHangsUp
  <1> QED BY <1>11, <1>14, <1>15, <1>16, <1>17, <1>18 DEF GroupInv

LEMMA GroupNextInv == GroupInv /\ [GroupNext]_groupVars => GroupInv'
  <1> SUFFICES ASSUME GroupInv, [GroupNext]_groupVars PROVE GroupInv' OBVIOUS
  <1>1. ASSUME NEW g \in Groupings, GroupStep(g) PROVE GroupInv'
    BY <1>1, FoundInv, JoinedInv, TakeInv, AddInv, InviteInv, StopDoneInv, WatchGroupInv, HangOneInv, WatchDoneInv,
       ChatInv DEF GroupStep
  <1>2. ASSUME NEW l \in GroupLegs, LegStep(l) PROVE GroupInv'
    BY <1>2, LegEndedInv, AfterNoticeInv DEF LegStep
  <1>3. ASSUME NEW g \in Groupings, NEW u \in Users,
               \/ \E kind \in {"join"} \cup (IF g \in Dialling THEN {"dial"} ELSE {}) : AskGroup(g, u, kind)
               \/ AskStop(g, u) \/ AskHangup(g, u)
        PROVE  GroupInv'
    BY <1>3, AskGroupInv, AskStopInv, AskHangupInv
  <1>4. ASSUME NEW g \in Groupings, NotFound(g) \/ ChatUp(g) \/ ChatFails(g) \/ ChatDrops(g) PROVE GroupInv'
    BY <1>4, NotFoundInv, ChatInv
  <1>5. ASSUME NEW g \in Dialling, DialAnswered(g) \/ DialFails(g) \/ AnswersLate(g) PROVE GroupInv'
    BY <1>5, DialAnsweredInv, DialFailsInv, AnswersLateInv
  <1>6. ASSUME NEW l \in GroupLegs, LegDrops(l) PROVE GroupInv'
    BY <1>6, LegDropsInv
  <1>7. CASE UNCHANGED groupVars
    <2>1. UNCHANGED <<call, slot, hook, ending, session, here, current, order>> BY <1>7 DEF groupVars
    <2>2. call' \in [GroupLegs -> {"new", "ringing", "up", "down"}] /\ order' \in [Groupings -> Orders]
          /\ here' \in Groupings \cup {Nobody}
      BY <2>1 DEF GroupInv, GroupType
    <2> QED BY <2>1, <2>2, OrderStep
  <1> QED BY <1>1, <1>2, <1>3, <1>4, <1>5, <1>6, <1>7 DEF GroupNext

\* Whatever overlaps, a call is heard in one conversation only: /group, the calls it moves and dials,
\* their ends and the end of the voice chat (manager.py, _move_to_group, _leg_ended, _watch_group).
THEOREM OneAtATime == GroupSpec => []OneConversation
  <1>1. GroupInv => OneConversation BY DEF GroupInv
  <1> QED BY <1>1, GroupInitInv, GroupNextInv, PTL DEF GroupSpec

\* No end of a session forgets a call that was in it (manager.py, _leave_group, _watch_group).
THEOREM EndsReachAll == GroupSpec => []EndHangsUp
  <1>1. GroupInv => EndHangsUp BY DEF GroupInv
  <1> QED BY <1>1, GroupInitInv, GroupNextInv, PTL DEF GroupSpec

=============================================================================
