------------------------------ MODULE RingAll -------------------------------
(***************************************************************************)
(* An extension of several users (manager.py, _sip_incoming and            *)
(* _ring_users): Telegram calls everybody who is free, the first to answer *)
(* takes the call.  The users share one gateway account, whose engine      *)
(* keeps one call per user (tg/calls.py), calls of their own among them.   *)
(*                                                                         *)
(* One user's side of a ring, with its lock, is the matter of UserCalls.   *)
(***************************************************************************)
EXTENDS Integers, FiniteSets

CONSTANTS
    Owners,       \* users of the extension
    Callers,      \* calls from the PBX
    MaxCalls,     \* telegram.max_calls
    MaxOwn        \* bound: calls the users begin themselves

ASSUME RingAssumption ==
    MaxCalls \in Nat /\ MaxOwn \in Nat /\ "own" \notin Callers /\ "none" \notin Callers \cup Owners

VARIABLES
    pending,      \* UserState.tg_pending
    tg,           \* UserState.tg: the caller they talk to, "own" or "none"
    engine,       \* TgCallEngine.calls: whose call the user has, and is it up?
    task,         \* the tasks of a ring: "no", "wait", "up", "failed"
    ring,         \* where _ring_users is; users still to be told; the winner
    caller,       \* the SIP call: "ringing", "up", "down"
    owns          \* calls of their own so far

ringVars == <<pending, tg, engine, task, ring, caller, owns>>

NoCall == [of |-> "none", up |-> FALSE]

RingInit ==
    /\ pending = [u \in Owners |-> FALSE] /\ tg = [u \in Owners |-> "none"]
    /\ engine = [u \in Owners |-> NoCall]
    /\ task = [c \in Callers |-> [u \in Owners |-> "no"]]
    /\ ring = [c \in Callers |-> [pc |-> "new", todo |-> {}, winner |-> "none"]]
    /\ caller = [c \in Callers |-> "ringing"]
    /\ owns = 0

UserBusy(u) == pending[u] \/ tg[u] # "none"
Free == Cardinality({u \in Owners : engine[u] # NoCall}) < MaxCalls

\* A call of the engine ends: engine.call of one that still rang fails; the caller put through to one
\* that was up is hung up, before another call is placed (_tg_ended).
Failing(u) == [c \in Callers |-> [task[c] EXCEPT ![u] = IF engine[u] = [of |-> c, up |-> FALSE] THEN "failed" ELSE @]]
LeftAlone(u) == [c \in Callers |-> IF tg[u] = c THEN "down" ELSE caller[c]]

-----------------------------------------------------------------------------
(* The users' own calls, dialled or to the gateway *)

\* Of the calls a user makes to the gateway none is refused for the gateway's capacity.
OwnBegins(u) ==
    /\ owns < MaxOwn /\ ~UserBusy(u) /\ engine[u] = NoCall
    /\ owns' = owns + 1
    /\ engine' = [engine EXCEPT ![u].of = "own"] /\ pending' = [pending EXCEPT ![u] = TRUE]
    /\ UNCHANGED <<tg, task, ring, caller>>

OwnUp(u) ==
    /\ engine[u] = [of |-> "own", up |-> FALSE]
    /\ engine' = [engine EXCEPT ![u].up = TRUE]
    /\ pending' = [pending EXCEPT ![u] = FALSE] /\ tg' = [tg EXCEPT ![u] = "own"]
    /\ UNCHANGED <<task, ring, caller, owns>>

OwnEnds(u) ==
    /\ engine[u].of = "own"
    /\ engine' = [engine EXCEPT ![u] = NoCall]
    /\ pending' = IF engine[u].up THEN pending ELSE [pending EXCEPT ![u] = FALSE]
    /\ tg' = [tg EXCEPT ![u] = "none"]
    /\ UNCHANGED <<task, ring, caller, owns>>

-----------------------------------------------------------------------------
(* _ring_users *)

\* The free users are chosen, and the capacity is looked at, before the first await.
SipIncoming(c) ==
    /\ ring[c].pc = "new"
    /\ LET idle == {u \in Owners : ~UserBusy(u)}
       IN IF idle # {} /\ Free
          THEN ring' = [ring EXCEPT ![c].pc = "tell", ![c].todo = idle] /\ UNCHANGED caller
          ELSE ring' = [ring EXCEPT ![c].pc = "done"] /\ caller' = [caller EXCEPT ![c] = "down"]
    /\ UNCHANGED <<pending, tg, engine, task, owns>>

\* One user after the other is marked and told; what they do in between is not noticed.
Tell(c) ==
    /\ ring[c].pc = "tell"
    /\ \E u \in ring[c].todo :
        /\ pending' = [pending EXCEPT ![u] = TRUE]
        /\ ring' = [ring EXCEPT ![c].todo = @ \ {u}, ![c].pc = IF @ = "tell" /\ ring[c].todo = {u} THEN "place" ELSE @]
        /\ task' = [task EXCEPT ![c][u] = "wait"]
    /\ UNCHANGED <<tg, engine, caller, owns>>

\* All are called at once; the engine refuses those who have a call by now.
Place(c) ==
    /\ ring[c].pc = "place"
    /\ LET called == {u \in Owners : task[c][u] = "wait" /\ engine[u] = NoCall}
       IN /\ engine' = [u \in Owners |-> IF u \in called THEN [of |-> c, up |-> FALSE] ELSE engine[u]]
          /\ task' = [task EXCEPT ![c] = [u \in Owners |-> IF @[u] = "wait" /\ u \notin called THEN "failed" ELSE @[u]]]
    /\ ring' = [ring EXCEPT ![c].pc = "ring"]
    /\ UNCHANGED <<pending, tg, caller, owns>>

\* engine.call returns once there is media.
Answers(u) ==
    /\ engine[u].of \in Callers /\ ~engine[u].up
    /\ engine' = [engine EXCEPT ![u].up = TRUE]
    /\ task' = [task EXCEPT ![engine[u].of][u] = "up"]
    /\ UNCHANGED <<pending, tg, ring, caller, owns>>

\* Declined, not answered or refused; or, when it was up, over.
TgEnds(u) ==
    /\ engine[u].of \in Callers
    /\ engine' = [engine EXCEPT ![u] = NoCall] /\ task' = Failing(u)
    /\ tg' = [tg EXCEPT ![u] = "none"] /\ caller' = LeftAlone(u)
    /\ UNCHANGED <<pending, ring, owns>>

\* The loop of asyncio.wait takes a result up: a failed call is done with, the first answer wins,
\* and a caller who has gone or nobody left to wait for ends it.
Failed(c) ==
    /\ ring[c].pc = "ring"
    /\ \E u \in Owners : /\ task[c][u] = "failed"
                         /\ task' = [task EXCEPT ![c][u] = "no"]
                         /\ pending' = [pending EXCEPT ![u] = FALSE]
    /\ UNCHANGED <<tg, engine, ring, caller, owns>>

Wins(c) ==
    /\ ring[c].pc = "ring"
    /\ \E u \in Owners : /\ task[c][u] = "up"
                         /\ task' = [task EXCEPT ![c][u] = "no"]
                         /\ ring' = [ring EXCEPT ![c].pc = "cancel", ![c].winner = u]
    /\ UNCHANGED <<pending, tg, engine, caller, owns>>

NobodyWins(c) ==
    /\ ring[c].pc = "ring"
    /\ caller[c] = "down" \/ \A u \in Owners : task[c][u] = "no"
    /\ ring' = [ring EXCEPT ![c].pc = "cancel"]
    /\ UNCHANGED <<pending, tg, engine, task, caller, owns>>

\* Mutant: only a call that still rings is cancelled.
CancelLoserMutant(c) ==
    /\ ring[c].pc = "cancel"
    /\ \E u \in Owners :
        /\ task[c][u] # "no" /\ task' = [Failing(u) EXCEPT ![c][u] = "no"]
        /\ pending' = [pending EXCEPT ![u] = FALSE]
        /\ IF engine[u].up THEN UNCHANGED <<engine, tg, caller>>
           ELSE engine' = [engine EXCEPT ![u] = NoCall] /\ tg' = [tg EXCEPT ![u] = "none"] /\ caller' = LeftAlone(u)
    /\ UNCHANGED <<ring, owns>>

\* The others' calls are cancelled one after the other, by the user they are to: whichever call the
\* engine has of that user ends, that of another caller or their own included.
CancelLoser(c) ==
    /\ ring[c].pc = "cancel"
    /\ \E u \in Owners :
        /\ task[c][u] # "no" /\ task' = [Failing(u) EXCEPT ![c][u] = "no"]
        /\ engine' = [engine EXCEPT ![u] = NoCall]
        /\ tg' = [tg EXCEPT ![u] = "none"] /\ caller' = LeftAlone(u)
        /\ pending' = [pending EXCEPT ![u] = FALSE]
    /\ UNCHANGED <<ring, owns>>

\* The caller is put through; or the winner's call ends, when the caller has gone; or the winner has
\* gone, which ends the caller's; or there is none.
Settled(c) ==
    /\ ring[c].pc = "cancel" /\ \A u \in Owners : task[c][u] = "no"
    /\ ring' = [ring EXCEPT ![c].pc = "done"]
    /\ LET w == ring[c].winner
       IN IF w = "none"
          THEN caller' = [caller EXCEPT ![c] = "down"] /\ UNCHANGED <<pending, tg, engine>>
          ELSE /\ pending' = [pending EXCEPT ![w] = FALSE]
               /\ IF caller[c] = "down"
                  THEN /\ engine' = IF engine[w].of = c THEN [engine EXCEPT ![w] = NoCall] ELSE engine
                       /\ UNCHANGED <<tg, caller>>
                  ELSE IF engine[w].of # c
                  THEN caller' = [caller EXCEPT ![c] = "down"] /\ UNCHANGED <<tg, engine>>
                  ELSE /\ tg' = [tg EXCEPT ![w] = c] /\ caller' = [caller EXCEPT ![c] = "up"]
                       /\ UNCHANGED engine
    /\ UNCHANGED <<task, owns>>

-----------------------------------------------------------------------------
CallerGone(c) ==
    /\ caller[c] \in {"ringing", "up"} /\ ring[c].pc # "new" /\ caller' = [caller EXCEPT ![c] = "down"]
    /\ UNCHANGED <<pending, tg, engine, task, ring, owns>>

\* _leg_ended: the caller takes the Telegram call along.
TalkEnds(u) ==
    /\ tg[u] \in Callers /\ caller[tg[u]] = "down"
    /\ engine' = [engine EXCEPT ![u] = NoCall] /\ tg' = [tg EXCEPT ![u] = "none"]
    /\ UNCHANGED <<pending, task, ring, caller, owns>>

RingNext ==
    \/ \E u \in Owners : OwnBegins(u) \/ OwnUp(u) \/ OwnEnds(u) \/ Answers(u) \/ TgEnds(u) \/ TalkEnds(u)
    \/ \E c \in Callers :
        \/ SipIncoming(c) \/ Tell(c) \/ Place(c) \/ Failed(c) \/ Wins(c) \/ NobodyWins(c)
        \/ CancelLoser(c) \/ Settled(c) \/ CallerGone(c)

RingSpec == RingInit /\ [][RingNext]_ringVars

-----------------------------------------------------------------------------
(* Properties *)

\* The first to answer takes the call, alone: nobody else talks to the caller, and once the ring is
\* over nobody else is still being called, or connected, for it.  A caller put through has somebody.
OneAnswers ==
    \A c \in Callers :
        /\ Cardinality({u \in Owners : tg[u] = c}) <= 1
        /\ ring[c].pc = "done" => \A u \in Owners : engine[u].of = c => tg[u] = c
        /\ caller[c] = "up" => \E u \in Owners : tg[u] = c

=============================================================================
