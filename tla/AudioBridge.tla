---------------------------- MODULE AudioBridge -----------------------------
(***************************************************************************)
(* The audio of one conversation (bridge.py, CallBridge; audio/buffer.py): *)
(* Telegram pushes PCM into a bounded FIFO, a tick every 20 ms pulls a     *)
(* frame for the PBX once the jitter buffer is primed, and the PBX's audio *)
(* goes to Telegram in frames of 10 ms.                                    *)
(*                                                                         *)
(* The unit of audio is 10 ms, and what Telegram sends is numbered, so     *)
(* that what the PBX gets can be compared with it.  A tick that comes late *)
(* pumps several times, which is several steps here.                       *)
(***************************************************************************)
EXTENDS Integers, Sequences, SequencesExt

CONSTANTS
    JitterLen,    \* units held before the audio starts
    MaxPcm,       \* bound: units Telegram sends
    MaxFar,       \* bound: audio the PBX sends, in 5 ms
    RateChanges   \* bound: changes of the Telegram sample rate

ASSUME AudioAssumption == JitterLen \in Nat \ {0, 1} /\ MaxPcm \in Nat /\ MaxFar \in Nat

VARIABLES
    bridge,       \* its state, primed, ringback still to be heard, state of the SIP call, rate changes
    pcm,          \* PcmBuffer: what it holds, and the pushed and dropped counts
    tgPcm,        \* the last unit Telegram has sent, and the first one pushed into this buffer
    toSip,        \* the units the PBX has got from this buffer
    toTg          \* from the PBX, in 5 ms: received, in the carry; and frames sent on

audioVars == <<bridge, pcm, tgPcm, toSip, toTg>>

MaxBytes == 4 * JitterLen
EmptyBuffer == [held |-> <<>>, pushed |-> 0, dropped |-> 0]

-----------------------------------------------------------------------------
(* PcmBuffer *)

\* The oldest audio makes room for the newest.
Push(b, unit) ==
    LET all == Append(b.held, unit)
        over == IF Len(all) > MaxBytes THEN Len(all) - MaxBytes ELSE 0
    IN [held |-> SubSeq(all, over + 1, Len(all)), pushed |-> b.pushed + 1, dropped |-> b.dropped + over]

\* A frame is two units, the missing ones silence.
Frame(b) == SubSeq(b.held, 1, IF Len(b.held) < 2 THEN Len(b.held) ELSE 2)
\* Mutant: a frame that is not whole is left in the buffer.
PullMutant(b) == [b EXCEPT !.held = IF Len(@) < 2 THEN @ ELSE SubSeq(@, 3, Len(@))]

Pull(b) == [b EXCEPT !.held = SubSeq(@, Len(Frame(b)) + 1, Len(@))]

-----------------------------------------------------------------------------
AudioInit ==
    /\ bridge = [state |-> "new", primed |-> FALSE, ringback |-> TRUE, media |-> "no", changes |-> 0]
    /\ pcm = EmptyBuffer
    /\ tgPcm = [last |-> 0, first |-> 1]
    /\ toSip = <<>>
    /\ toTg = [got |-> 0, carry |-> 0, out |-> 0]

BridgeStart ==
    /\ bridge.state = "new" /\ bridge' = [bridge EXCEPT !.state = "running"]
    /\ UNCHANGED <<pcm, tgPcm, toSip, toTg>>

\* The hooks are taken off; a Telegram call that goes on is not heard until the next bridge.
BridgeStop ==
    /\ bridge.state = "running" /\ bridge' = [bridge EXCEPT !.state = "stopped"]
    /\ UNCHANGED <<pcm, tgPcm, toSip, toTg>>

\* on_audio of the Telegram call: PcmBuffer.push while the bridge runs.
TgAudio ==
    /\ tgPcm.last < MaxPcm /\ bridge.state = "running"
    /\ tgPcm' = [tgPcm EXCEPT !.last = @ + 1]
    /\ pcm' = Push(pcm, tgPcm.last + 1)
    /\ UNCHANGED <<bridge, toSip, toTg>>

\* The SIP call reaches EARLY or CONNECTED, or ends.
MediaChanges ==
    /\ bridge.state = "running" /\ bridge.media # "over"
    /\ bridge' = [bridge EXCEPT !.media = IF @ = "no" THEN "yes" ELSE "over"]
    /\ UNCHANGED <<pcm, tgPcm, toSip, toTg>>

\* Telegram negotiates another sample rate: a new buffer, nothing carried over.
UpdateRate ==
    /\ bridge.state = "running" /\ bridge.changes < RateChanges
    /\ bridge' = [bridge EXCEPT !.primed = FALSE, !.changes = @ + 1]
    /\ pcm' = EmptyBuffer
    /\ tgPcm' = [tgPcm EXCEPT !.first = tgPcm.last + 1]
    /\ toSip' = <<>>
    /\ toTg' = [toTg EXCEPT !.carry = 0]

\* One frame of the pump, past the ringback and the wait for the jitter buffer.
Pump ==
    /\ bridge.state = "running" /\ bridge.media = "yes"
    /\ bridge.primed \/ Len(pcm.held) >= JitterLen
    /\ IF pcm.held = <<>>
       THEN bridge' = [bridge EXCEPT !.primed = FALSE] /\ UNCHANGED <<pcm, toSip>>
       ELSE /\ bridge' = [bridge EXCEPT !.primed = TRUE]
            /\ toSip' = toSip \o Frame(pcm)
            /\ pcm' = Pull(pcm)
    /\ UNCHANGED <<tgPcm, toTg>>

\* _from_sip: a packet of 5 to 15 ms; the first one ends the ringback, whole frames go on.
FromSip(n) ==
    /\ bridge.state = "running" /\ toTg.got + n <= MaxFar
    /\ bridge' = [bridge EXCEPT !.ringback = FALSE]
    /\ LET halves == toTg.carry + n
       IN toTg' = [got |-> toTg.got + n, carry |-> halves % 2, out |-> toTg.out + halves \div 2]
    /\ UNCHANGED <<pcm, tgPcm, toSip>>

AudioNext ==
    \/ BridgeStart \/ BridgeStop \/ TgAudio \/ MediaChanges \/ UpdateRate \/ Pump
    \/ \E n \in 1 .. 3 : FromSip(n)

AudioSpec == AudioInit /\ [][AudioNext]_audioVars

-----------------------------------------------------------------------------
(* Properties *)

\* The PBX hears what Telegram sent, in its order and nothing twice; what it has not got is held,
\* not older than the buffer, or was dropped as the oldest when the buffer was full.
HeardInOrder ==
    /\ Len(pcm.held) <= MaxBytes
    /\ \A i, j \in DOMAIN (toSip \o pcm.held) : i < j => (toSip \o pcm.held)[i] < (toSip \o pcm.held)[j]
    /\ pcm.held # <<>> => Last(pcm.held) = tgPcm.last
    /\ tgPcm.last - tgPcm.first + 1 = Len(toSip) + Len(pcm.held) + pcm.dropped

=============================================================================
