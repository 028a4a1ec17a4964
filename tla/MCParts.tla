------------------------------ MODULE MCParts -------------------------------
(***************************************************************************)
(* The smaller components on small instances.  They have no state in       *)
(* common: a behaviour is one of `part`, a component of Parts, while the   *)
(* others rest in their initial states; the line rests as a stopped one,   *)
(* of which nothing more is expected.                                      *)
(***************************************************************************)
EXTENDS RtcpStats, RtpDtmf, AudioBridge, Screening, StateFile, ApiGuard, Line, GroupCalls, RingAll

CONSTANT Parts
VARIABLE part

\* "1", "12" and "1" again, of which the last two share a digit at the border.
SomeKeys == <<<<1, 1>>, <<1, 2>>>>

\* Each window alone; the lists, with and without a window; users before and after one that is
\* not to be called.
Windows == [first : {0, 3, 6}, last : Week, start : Instants, end : Instants]
NoRules == [black |-> FALSE, white |-> "none", work |-> {}, quiet |-> {}, forward |-> FALSE]
Black == [NoRules EXCEPT !.black = TRUE, !.forward = TRUE]
Lunch == [first |-> 0, last |-> 4, start |-> 1, end |-> 1]
Clocks == {[NoRules EXCEPT !.work = {w}] : w \in Windows} \cup {[NoRules EXCEPT !.quiet = {w, Lunch}] : w \in Windows}
Lists == [black : BOOLEAN, white : {"none", "listed", "unlisted"}, work : {{}, {Lunch}}, quiet : {{}, {Lunch}},
          forward : {FALSE}]
SomeRules == {<<r, Black>> : r \in Clocks} \cup {<<Black, r>> : r \in Lists} \cup {<<r, NoRules>> : r \in Lists}

LineRests ==
    /\ reg = [pc |-> "off", left |-> 0, expires |-> Asked]
    /\ registered = FALSE /\ lease = 0 /\ conn = "down" /\ reach = TRUE /\ faults = 0 /\ stopping = TRUE
    /\ alert = [down |-> FALSE, timer |-> "none", reported |-> FALSE, ok |-> FALSE]
    /\ news = "none"

Init ==
    /\ part \in Parts
    /\ RtcpInit /\ RtpInit /\ AudioInit /\ ScreenInit /\ ApiInit /\ GroupInit /\ RingInit
    /\ FileInit /\ (part # "file" => file = "history")
    /\ IF part = "line" THEN LineInit ELSE LineRests

OthersRest ==
    /\ UNCHANGED part
    /\ IF part = "rtcp" THEN TRUE ELSE UNCHANGED rtcpVars
    /\ IF part = "dtmf" THEN TRUE ELSE UNCHANGED rtpVars
    /\ IF part = "audio" THEN TRUE ELSE UNCHANGED audioVars
    /\ IF part = "screen" THEN TRUE ELSE UNCHANGED screenVars
    /\ IF part = "file" THEN TRUE ELSE UNCHANGED fileVars
    /\ IF part = "api" THEN TRUE ELSE UNCHANGED apiVars
    /\ IF part = "line" THEN TRUE ELSE UNCHANGED lineVars
    /\ IF part = "group" THEN TRUE ELSE UNCHANGED groupVars
    /\ IF part = "ring" THEN TRUE ELSE UNCHANGED ringVars

Next ==
    \/ part = "rtcp" /\ RtcpNext /\ OthersRest
    \/ part = "dtmf" /\ RtpNext /\ OthersRest
    \/ part = "audio" /\ AudioNext /\ OthersRest
    \/ part = "screen" /\ ScreenNext /\ OthersRest
    \/ part = "file" /\ FileNext /\ OthersRest
    \/ part = "api" /\ ApiNext /\ OthersRest
    \/ part = "line" /\ LineNext /\ OthersRest
    \/ part = "group" /\ GroupNext /\ OthersRest
    \/ part = "ring" /\ RingNext /\ OthersRest

allVars == <<part, rtcpVars, rtpVars, audioVars, screenVars, fileVars, apiVars, lineVars, groupVars, ringVars>>

Spec == Init /\ [][Next]_allVars /\ LineFairness

=============================================================================
