----------------------------- MODULE Screening ------------------------------
(***************************************************************************)
(* Which users an incoming call may ring (schedule.py, and _screen of      *)
(* manager.py): lists of numbers, and windows of days and hours that may   *)
(* run over midnight and over the end of the week.                         *)
(*                                                                         *)
(* A day has DayLen instants, the last of which is what 24:00 is parsed    *)
(* to.  Whether a number is on a list is given with the call; the          *)
(* wildcards of the lists are not modelled.                                *)
(***************************************************************************)
EXTENDS Integers, Sequences, FiniteSets

CONSTANTS
    DayLen,       \* instants of a day
    RuleSets      \* the rules of the users of the called account, in order, one sequence per case

VARIABLE screened \* the call being screened and what became of it, or idle

screenVars == <<screened>>

Week == 0 .. 6
Instants == 0 .. DayLen - 1

\* What the rules of a user are parsed to: lists, and windows of the working and the quiet hours.
AnyWindow == [first : Week, last : Week, start : Instants, end : Instants]
AnyRules == [black : BOOLEAN, white : {"none", "listed", "unlisted"}, work : SUBSET AnyWindow,
             quiet : SUBSET AnyWindow, forward : BOOLEAN]

ASSUME ScreenAssumption ==
    DayLen \in Nat \ {0} /\ \A rules \in RuleSets : \A u \in DOMAIN rules : rules[u] \in AnyRules

IdleCall == [state |-> "idle"]

-----------------------------------------------------------------------------
(* schedule.py *)

\* `fri-mon` goes over the end of the week.
ParseDays(first, last) == {(first + i) % 7 : i \in 0 .. ((last - first) % 7)}

\* Mutant: the hours after midnight count for the day they are in.
WindowContainsMutant(w, day, now) ==
    LET days == ParseDays(w.first, w.last) IN
    IF w.start <= w.end THEN day \in days /\ w.start <= now /\ now <= w.end
    ELSE day \in days /\ (now >= w.start \/ now <= w.end)

WindowContains(w, day, now) ==
    LET days == ParseDays(w.first, w.last) IN
    IF w.start <= w.end THEN day \in days /\ w.start <= now /\ now <= w.end
    ELSE (day \in days /\ now >= w.start) \/ (((day - 1) % 7) \in days /\ now <= w.end)

Matches(windows, day, now) == \E w \in windows : WindowContains(w, day, now)

TimeClosed(r, day, now) ==
    IF r.work # {} /\ ~Matches(r.work, day, now) THEN "off_hours"
    ELSE IF Matches(r.quiet, day, now) THEN "quiet" ELSE "open"

\* The whitelist wins over the clock, the blacklist over the whitelist.
Screen(r, day, now) ==
    IF r.black THEN "blacklist"
    ELSE IF r.white = "listed" THEN "open"
    ELSE IF r.white = "unlisted" THEN "whitelist"
    ELSE TimeClosed(r, day, now)

-----------------------------------------------------------------------------
ScreenInit == screened = IdleCall

\* The users whose rules let the call through are rung; if there is none, the rule of the first
\* user answers it.
ScreenCall(rules, day, now) ==
    /\ screened = IdleCall
    /\ LET open == {u \in DOMAIN rules : Screen(rules[u], day, now) = "open"}
       IN screened' = [state |-> "done", rules |-> rules, day |-> day, now |-> now, rung |-> open,
                       answer |-> IF open # {} THEN "none"
                                  ELSE IF rules[1].forward THEN "redirect" ELSE "reject"]

NextCall == screened # IdleCall /\ screened' = IdleCall

ScreenNext ==
    \/ \E rules \in RuleSets, day \in Week, now \in Instants : ScreenCall(rules, day, now)
    \/ NextCall

ScreenSpec == ScreenInit /\ [][ScreenNext]_screenVars

-----------------------------------------------------------------------------
(* Properties *)

\* The days a range names, walked one by one, and the instants of the week a window covers.
DaysWalked(first, last) ==
    LET steps == CHOOSE k \in Week : (first + k) % 7 = last IN {d \in Week : \E i \in 0 .. steps : d = (first + i) % 7}
Covered(w) ==
    LET length == IF w.start <= w.end THEN w.end - w.start ELSE DayLen - w.start + w.end
    IN {(d * DayLen + w.start + k) % (7 * DayLen) : d \in DaysWalked(w.first, w.last), k \in 0 .. length}
InSome(windows, instant) == \E w \in windows : instant \in Covered(w)

\* A call rings a user exactly when the lists and the hours of that user, read as intervals of
\* the week, allow it, whatever the other users' rules say; and one that rings nobody is answered.
ScreenTrue == screened # IdleCall =>
    LET instant == screened.day * DayLen + screened.now IN
    /\ \A u \in DOMAIN screened.rules :
          LET r == screened.rules[u] IN
          u \in screened.rung <=>
              /\ ~r.black
              /\ \/ r.white = "listed"
                 \/ /\ r.white = "none"
                    /\ r.work = {} \/ InSome(r.work, instant)
                    /\ ~InSome(r.quiet, instant)
    /\ screened.rung = {} <=> screened.answer # "none"

=============================================================================
