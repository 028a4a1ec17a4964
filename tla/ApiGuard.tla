------------------------------ MODULE ApiGuard ------------------------------
(***************************************************************************)
(* The guard of the HTTP API (api.py, _guard): the address list, the       *)
(* token, and a rate limit per peer over a sliding minute.  Time is        *)
(* counted in steps of which Minute make 60 seconds.                       *)
(***************************************************************************)
EXTENDS Integers, Sequences, FiniteSets

CONSTANTS
    Peers,        \* addresses
    Allowed,      \* those on api.allow
    RateLimit,    \* requests per minute; 0 is no limit
    Minute,       \* steps of a minute
    MaxNow,       \* bound: the clock
    MaxRequests   \* bound: requests a peer has accepted

ASSUME ApiAssumption == RateLimit \in Nat /\ Minute \in Nat \ {0} /\ MaxNow \in Nat

VARIABLES
    now,          \* time.monotonic()
    hits,         \* per peer, the times of the requests counted
    accepted,     \* per peer, the times of all requests that passed the guard
    answer        \* the last request: its peer and its outcome

apiVars == <<now, hits, accepted, answer>>

ApiInit ==
    /\ now = 0
    /\ hits = [p \in Peers |-> <<>>]
    /\ accepted = [p \in Peers |-> <<>>]
    /\ answer = [peer |-> "none", status |-> 0]

\* How many hits popleft takes: as long as the first one is older than a minute.
Outdated(q, age) ==
    CHOOSE n \in 0 .. Len(q) : (\A i \in 1 .. n : now - q[i] > age) /\ (n < Len(q) => now - q[n + 1] <= age)

\* Mutant: hits that are still of the last minute are forgotten.
RecentMutant(q) == SubSeq(q, Outdated(q, Minute - 2) + 1, Len(q))

Recent(q) == SubSeq(q, Outdated(q, Minute) + 1, Len(q))

Status(p, token) ==
    IF p \notin Allowed THEN 403
    ELSE IF ~token THEN 401
    ELSE IF RateLimit > 0 /\ Len(Recent(hits[p])) >= RateLimit THEN 429 ELSE 200

\* Only a request that has shown an allowed address and the token counts.
Request(p, token) ==
    /\ Len(accepted[p]) < MaxRequests
    /\ LET status == Status(p, token) IN
       /\ answer' = [peer |-> p, status |-> status]
       /\ accepted' = IF status = 200 THEN [accepted EXCEPT ![p] = Append(@, now)] ELSE accepted
       /\ hits' = IF status = 200 /\ RateLimit > 0 THEN [hits EXCEPT ![p] = Append(Recent(@), now)]
                  ELSE IF status = 429 THEN [hits EXCEPT ![p] = Recent(@)] ELSE hits
    /\ UNCHANGED now

\* /api/health passes without any of it.
Health(p) ==
    /\ answer' = [peer |-> p, status |-> 0]
    /\ UNCHANGED <<now, hits, accepted>>

ApiTick ==
    /\ now < MaxNow /\ now' = now + 1
    /\ answer' = [answer EXCEPT !.status = 0]
    /\ UNCHANGED <<hits, accepted>>

ApiNext == (\E p \in Peers : Health(p) \/ \E token \in BOOLEAN : Request(p, token)) \/ ApiTick

ApiSpec == ApiInit /\ [][ApiNext]_apiVars

-----------------------------------------------------------------------------
(* Properties *)

Within(p, from, to) == {i \in DOMAIN accepted[p] : from <= accepted[p][i] /\ accepted[p][i] <= to}

\* No minute sees more requests of a peer accepted than the limit, and a peer is refused for its
\* rate only at the end of a minute that is full.
RateTrue == RateLimit > 0 =>
    /\ \A p \in Peers, t \in 0 .. now : Cardinality(Within(p, t - Minute, t)) <= RateLimit
    /\ answer.status = 429 => Cardinality(Within(answer.peer, now - Minute, now)) = RateLimit

=============================================================================
