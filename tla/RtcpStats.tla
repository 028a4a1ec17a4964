----------------------------- MODULE RtcpStats ------------------------------
(***************************************************************************)
(* The statistics of a received RTP stream and the RTCP reports made from  *)
(* them (sip/rtcp.py), fed by a network that loses, repeats and reorders.  *)
(*                                                                         *)
(* A packet is known by its number in its stream; the wire carries that    *)
(* number modulo SeqSpace (2^16 in the code).  Jitter and the times of the   *)
(* reports are left out: no property is about them.  Init, Next and vars   *)
(* carry a prefix because MCParts runs several components at once.         *)
(***************************************************************************)
EXTENDS Integers, FiniteSets

CONSTANTS
    SeqSpace,       \* the sequence numbers are 0 .. SeqSpace - 1
    Starts,       \* numbers the far end's stream may start at
    Packets,      \* bound: packets sent by the far end
    Window,       \* bound: how many packets one may be late
    Fractions,    \* fractions lost the far end may report
    MaxReports    \* bound: reports made

ASSUME RtcpAssumption ==
    /\ SeqSpace \in Nat \ {0} /\ Starts \subseteq 0 .. SeqSpace - 1
    /\ Packets \in Nat /\ Window \in Nat /\ MaxReports \in Nat

VARIABLES
    rtcp,         \* the session: its state, is the far end's address known, the loss reported to us
    rx,           \* InboundStats
    stream,       \* the far end: its SSRC, its next packet, how many it has sent
    wire,         \* <<ssrc, number>> under way
    heard,        \* what arrived of the stream being counted: the first, the others, repeats
    sent          \* reports made; of the last one the fraction, the packets expected in its interval,
                  \* what was missing, and how much of it is new

rtcpVars == <<rtcp, rx, stream, wire, heard, sent>>

NoSsrc == 0
MaxOf(S) == CHOOSE n \in S : \A m \in S : m <= n
AtLeast0(n) == IF n < 0 THEN 0 ELSE n

-----------------------------------------------------------------------------
(* InboundStats *)

Fresh(ssrc, seq) == [ssrc |-> ssrc, base |-> seq, max |-> seq, cycles |-> 0, received |-> 0,
                     expPrior |-> 0, recPrior |-> 0]

\* The same stream goes on: the cycle is counted on both sides of the comparison.
Follow(s, seq) ==
    LET c == IF seq < s.max /\ s.max - seq > SeqSpace \div 2 THEN s.cycles + SeqSpace ELSE s.cycles
    IN [s EXCEPT !.cycles = c, !.max = IF seq + c > @ + c THEN seq ELSE @]

\* Mutant: a stream with another SSRC goes on with the counts of the last one.
OnPacketMutant(s, seq, ssrc) ==
    LET t == IF ssrc # s.ssrc THEN [s EXCEPT !.ssrc = ssrc, !.base = seq, !.max = seq] ELSE Follow(s, seq)
    IN [t EXCEPT !.received = @ + 1]

OnPacket(s, seq, ssrc) ==
    LET t == IF ssrc # s.ssrc THEN Fresh(ssrc, seq) ELSE Follow(s, seq)
    IN [t EXCEPT !.received = @ + 1]

Expected(s) == s.cycles + s.max - s.base + 1

\* The cumulative loss of report_block, and the fraction of the interval in 1/256.
Lost(s) == AtLeast0(Expected(s) - s.received)
Fraction(s) ==
    LET expected == Expected(s) - s.expPrior
        lost == expected - (s.received - s.recPrior)
    IN IF expected <= 0 \/ lost <= 0 THEN 0
       ELSE IF lost >= expected THEN 255 ELSE (lost * 256) \div expected
Reported(s) == [s EXCEPT !.expPrior = Expected(s), !.recPrior = s.received]

-----------------------------------------------------------------------------
RtcpInit ==
    /\ rtcp = [state |-> "idle", remote |-> FALSE, farLoss |-> 0]
    /\ rx = Fresh(NoSsrc, 0)
    /\ stream \in {[ssrc |-> 1, next |-> n, count |-> 0] : n \in Starts}
    /\ wire = {}
    /\ heard = [first |-> 0, rest |-> {}, repeats |-> 0]
    /\ sent = [count |-> 0, fraction |-> 0, interval |-> 0, missed |-> 0, fresh |-> 0, exact |-> TRUE]

\* The numbers the stream being counted has not delivered, between its first and its last one.
Missing == IF rx.ssrc = NoSsrc THEN {}
           ELSE (heard.first .. MaxOf(heard.rest)) \ heard.rest
\* A repeated packet, or one older than the first, is received without being expected.
Exact == heard.repeats = 0 /\ \A n \in heard.rest : n >= heard.first

FarSend ==
    /\ rtcp.state = "open" /\ stream.count < Packets
    /\ \A p \in wire : p[1] = stream.ssrc => p[2] > stream.next - Window
    /\ wire' = wire \cup {<<stream.ssrc, stream.next>>}
    /\ stream' = [stream EXCEPT !.next = @ + 1, !.count = @ + 1]
    /\ UNCHANGED <<rtcp, rx, heard, sent>>

\* The far end starts its stream again under a new SSRC.
FarRestart(n) ==
    /\ rtcp.state = "open" /\ stream.ssrc = 1 /\ stream.count > 0
    /\ stream' = [stream EXCEPT !.ssrc = 2, !.next = n]
    /\ UNCHANGED <<rtcp, rx, wire, heard, sent>>

PacketLost(p) == rtcp.state = "open" /\ wire' = wire \ {p} /\ UNCHANGED <<rtcp, rx, stream, heard, sent>>

\* A packet arrives, for the last time or not.
PacketArrives(p, again) ==
    /\ rtcp.state = "open"
    /\ again => heard.repeats = 0
    /\ rx' = OnPacket(rx, p[2] % SeqSpace, p[1])
    /\ heard' = IF p[1] # rx.ssrc THEN [first |-> p[2], rest |-> {p[2]}, repeats |-> 0]
                ELSE [heard EXCEPT !.rest = @ \cup {p[2]},
                                   !.repeats = IF p[2] \in heard.rest THEN @ + 1 ELSE @]
    /\ wire' = IF again THEN wire ELSE wire \ {p}
    /\ sent' = IF p[1] # rx.ssrc THEN [sent EXCEPT !.missed = 0] ELSE sent
    /\ UNCHANGED <<rtcp, stream>>

RtcpStart == rtcp.state = "idle" /\ rtcp' = [rtcp EXCEPT !.state = "open"] /\ UNCHANGED <<rx, stream, wire, heard, sent>>
RtcpSetRemote == ~rtcp.remote /\ rtcp' = [rtcp EXCEPT !.remote = TRUE] /\ UNCHANGED <<rx, stream, wire, heard, sent>>

\* A report block is made, and with it the interval it covers ends.
MakeReport ==
    /\ rx' = IF rx.ssrc = NoSsrc THEN rx ELSE Reported(rx)
    /\ sent' = IF rx.ssrc = NoSsrc THEN [sent EXCEPT !.count = @ + 1]
               ELSE [count |-> sent.count + 1, fraction |-> Fraction(rx), exact |-> Exact,
                     interval |-> Expected(rx) - rx.expPrior, missed |-> Cardinality(Missing), fresh |-> Cardinality(Missing) - sent.missed]

\* Every five seconds.
RtcpReport ==
    /\ rtcp.state = "open" /\ rtcp.remote /\ sent.count < MaxReports
    /\ MakeReport
    /\ UNCHANGED <<rtcp, stream, wire, heard>>

\* The task ends; a last report goes out with the BYE.
RtcpClose ==
    /\ rtcp.state = "open" /\ rtcp' = [rtcp EXCEPT !.state = "closed"]
    /\ IF rtcp.remote THEN MakeReport ELSE UNCHANGED <<rx, sent>>
    /\ UNCHANGED <<stream, wire, heard>>

\* The last block of a compound packet that reports on our stream counts.
FarReport(fraction) ==
    /\ rtcp.state = "open" /\ rtcp' = [rtcp EXCEPT !.farLoss = fraction]
    /\ UNCHANGED <<rx, stream, wire, heard, sent>>

RtcpNext ==
    \/ FarSend
    \/ \E n \in Starts : FarRestart(n)
    \/ \E p \in wire : PacketLost(p) \/ \E again \in BOOLEAN : PacketArrives(p, again)
    \/ RtcpStart \/ RtcpSetRemote \/ RtcpReport \/ RtcpClose
    \/ \E fraction \in Fractions : FarReport(fraction)

RtcpSpec == RtcpInit /\ [][RtcpNext]_rtcpVars

-----------------------------------------------------------------------------
(* Properties *)

\* What the gateway reports as lost has been lost: the running count is exactly the packets of
\* the stream that have not come, through restarts of the far end and unless repeats or a late
\* first packet hide some; and a report speaks of loss just when its interval has new loss, of at
\* least one packet in 256.
LossTrue ==
    /\ rx.ssrc # NoSsrc => /\ Lost(rx) <= Cardinality(Missing)
                          /\ (Exact => Lost(rx) = Cardinality(Missing))
    /\ sent.exact => (sent.fraction > 0 <=> sent.fresh > 0 /\ sent.interval <= 256 * sent.fresh)

=============================================================================
