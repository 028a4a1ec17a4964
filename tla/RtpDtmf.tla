------------------------------ MODULE RtpDtmf -------------------------------
(***************************************************************************)
(* Keypad digits in an RTP stream (sip/rtp.py, SipCall.send_dtmf): each    *)
(* request is a task that waits for the one before it; a digit is a run of *)
(* event packets with three end packets, and the receiver hears a digit    *)
(* once however many of the three come through.  The audio of the call     *)
(* shares the timestamp with the digits and is muted by dtmf_busy.         *)
(*                                                                         *)
(* Time advances in steps of one event packet, which is one audio frame.   *)
(* The path keeps the order of packets and loses at most MaxLost of them.  *)
(***************************************************************************)
EXTENDS Integers, Sequences, SequencesExt

CONSTANTS
    Keys,         \* the digits of each request, in the order of the requests
    Total,        \* packets a digit lasts
    MaxFrames,    \* bound: audio frames sent
    MaxLost       \* bound: end packets lost

\* The places of the digits in DTMF_CHARS.
Digits == 0 .. 15

ASSUME RtpAssumption ==
    /\ Keys \in Seq(Seq(Digits) \ {<<>>})
    /\ Total \in Nat \ {0} /\ MaxFrames \in Nat /\ MaxLost \in Nat

VARIABLES
    rtp,          \* the sending session: open, timestamp, dtmf_busy, audio frames sent
    job,          \* the request's task: where it is, its digit, the packets sent, its timestamp
    link,         \* end packets under way
    ear           \* the receiver: the last event, the digits heard, packets lost on the way to it

rtpVars == <<rtp, job, link, ear>>

Jobs == 1 .. Len(Keys)
Pressed == FlattenSeq(Keys)

RtpInit ==
    /\ rtp = [open |-> TRUE, ts |-> 0, busy |-> FALSE, frames |-> 0]
    /\ job = [j \in Jobs |-> [pc |-> "idle", digit |-> 1, elapsed |-> 0, start |-> 0]]
    /\ link = <<>>
    /\ ear = [last |-> <<>>, heard |-> <<>>, lost |-> 0]

\* SipCall.send_dtmf: the audio is muted and the task created.
SendDtmf(j) ==
    /\ rtp.open /\ job[j].pc = "idle"
    /\ j > 1 => job[j - 1].pc # "idle"
    /\ rtp' = [rtp EXCEPT !.busy = TRUE]
    /\ job' = [job EXCEPT ![j].pc = "wait"]
    /\ UNCHANGED <<link, ear>>

\* Mutant: the worker does not wait for the digits before its own.
DtmfBeginMutant(j) ==
    /\ job[j].pc = "wait"
    /\ job' = [job EXCEPT ![j].pc = "tone", ![j].start = rtp.ts]
    /\ UNCHANGED <<rtp, link, ear>>

DtmfBegin(j) ==
    /\ job[j].pc = "wait"
    /\ j > 1 => job[j - 1].pc = "done"
    /\ job' = [job EXCEPT ![j].pc = "tone", ![j].start = rtp.ts]
    /\ UNCHANGED <<rtp, link, ear>>

DtmfEvent(j) ==
    /\ job[j].pc = "tone" /\ job[j].elapsed < Total
    /\ job' = [job EXCEPT ![j].elapsed = @ + 1]
    /\ UNCHANGED <<rtp, link, ear>>

\* Three end packets; the clock is set to the end of the event.
DtmfEnd(j) ==
    /\ job[j].pc = "tone" /\ job[j].elapsed = Total
    /\ link' = link \o [n \in 1 .. 3 |-> <<job[j].start, Keys[j][job[j].digit]>>]
    /\ rtp' = [rtp EXCEPT !.ts = job[j].start + Total]
    /\ job' = [job EXCEPT ![j].pc = "gap"]
    /\ UNCHANGED ear

\* After the gap the next digit, or the end of the task and with it the end of send_dtmf.
DtmfGap(j) ==
    /\ job[j].pc = "gap"
    /\ IF job[j].digit < Len(Keys[j])
       THEN /\ job' = [job EXCEPT ![j] = [pc |-> "tone", digit |-> @.digit + 1, elapsed |-> 0, start |-> rtp.ts]]
            /\ UNCHANGED rtp
       ELSE /\ job' = [job EXCEPT ![j].pc = "done"]
            /\ rtp' = [rtp EXCEPT !.busy = FALSE]
    /\ UNCHANGED <<link, ear>>

\* send_pcm and send_silence.
SendAudio ==
    /\ rtp.open /\ ~rtp.busy /\ rtp.frames < MaxFrames
    /\ rtp' = [rtp EXCEPT !.ts = @ + 1, !.frames = @ + 1]
    /\ UNCHANGED <<job, link, ear>>

\* The call ends: the last task is cancelled, and through it those it waits for.
RtpClose ==
    /\ rtp.open /\ rtp' = [rtp EXCEPT !.open = FALSE, !.busy = FALSE]
    /\ job' = [j \in Jobs |-> [job[j] EXCEPT !.pc = "done"]]
    /\ UNCHANGED <<link, ear>>

\* _handle_dtmf
EndArrives ==
    /\ link # <<>> /\ link' = Tail(link)
    /\ ear' = IF Head(link) = ear.last THEN ear
              ELSE [ear EXCEPT !.last = Head(link), !.heard = Append(@, Head(link)[2])]
    /\ UNCHANGED <<rtp, job>>

EndLost ==
    /\ link # <<>> /\ link' = Tail(link)
    /\ ear.lost < MaxLost /\ ear' = [ear EXCEPT !.lost = @ + 1]
    /\ UNCHANGED <<rtp, job>>

RtpNext ==
    \/ \E j \in Jobs : SendDtmf(j) \/ DtmfBegin(j) \/ DtmfEvent(j) \/ DtmfEnd(j) \/ DtmfGap(j)
    \/ SendAudio \/ RtpClose \/ EndArrives \/ EndLost

RtpSpec == RtpInit /\ [][RtpNext]_rtpVars

-----------------------------------------------------------------------------
(* Properties *)

\* The digits are heard in the order they were pressed, each once, repeated digits and digits of
\* two requests included; when every packet is out and the call went on, all of them are.
DigitsHeard ==
    /\ IsPrefix(ear.heard, Pressed)
    /\ (link = <<>> /\ rtp.open /\ \A j \in Jobs : job[j].pc = "done") => ear.heard = Pressed

=============================================================================
