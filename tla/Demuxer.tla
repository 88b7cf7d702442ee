------------------------------- MODULE Demuxer -------------------------------
(***************************************************************************)
(* The goroutines of the MPEG-TS demuxer and the pipe between them         *)
(* (src/multiplexer/demuxer.go, src/multiplexer/syncBuffer.go).            *)
(*                                                                         *)
(* The feeder moves packets from the Haven's channel into the syncBuffer;  *)
(* the parser reads them from there, makes frames of them and sends these  *)
(* to a channel it closes when it ends.  The consumer is the Haven's       *)
(* writer.  A packet is one unit of the stream, a video picture or a group *)
(* of audio frames, and is known by its number.                            *)
(*                                                                         *)
(* A parser that finds the syncBuffer empty sleeps on its condition        *)
(* variable until someone broadcasts.                                      *)
(***************************************************************************)
EXTENDS Naturals, Sequences

CONSTANTS
  PktCap,      (* capacity of the channel of packets                       *)
  FrameCap,    (* OutputBufferCap: capacity of the channel of frames       *)
  MaxSplit,    (* bound of the model: frames in a packet                   *)
  MaxPackets   (* bound of the model: packets received                     *)

ASSUME CapAssumption == PktCap \in Nat \ {0} /\ FrameCap \in Nat \ {0}
ASSUME BoundAssumption == MaxSplit \in Nat \ {0} /\ MaxPackets \in Nat

VARIABLES
  packets,     (* packets the publisher has sent                           *)
  pktChan,     (* the channel from the Haven's reader                      *)
  feeder,      (* the feeder: "loop", "ended", or "hold" with a packet     *)
  held,        (* the packet it holds                                      *)
  pipe,        (* what is in the syncBuffer                                *)
  err,         (* the syncBuffer's error: "none", "eof", "parse"           *)
  parser,      (* "loop", "read", "sleep", "send" or "ended"               *)
  toSend,      (* the frames the parser has yet to send                    *)
  frames,      (* all the frames ever accepted by the channel of frames    *)
  received,    (* how many of them the consumer has received               *)
  errChan,     (* the channel of errors holds one                          *)
  consumer,    (* "loop", "closed" (saw the channel close), "failed", or   *)
               (* "left" (with the Haven)                                  *)
  havenDone,   (* h.ctx is done                                            *)
  ctxDone,     (* d.ctx is done                                            *)
  closing      (* where Close is: "no", "cancelled", "wait", "closed"      *)

feederVars == <<pktChan, feeder, held, errChan>>
pipeVars == <<pipe, err>>
parserVars == <<parser, toSend, frames>>
consumerVars == <<received, consumer, havenDone>>
vars == <<packets, feederVars, pipeVars, parserVars, consumerVars, ctxDone,
          closing>>

FrameLen == Len(frames) - received

Init ==
  /\ packets = 0
  /\ pktChan = <<>>
  /\ feeder = "loop"
  /\ held = 0
  /\ pipe = <<>>
  /\ err = "none"
  /\ parser = "loop"
  /\ toSend = <<>>
  /\ frames = <<>>
  /\ received = 0
  /\ errChan = FALSE
  /\ consumer = "loop"
  /\ havenDone = FALSE
  /\ ctxDone = FALSE
  /\ closing = "no"

(* Broadcast wakes the parser.                                              *)
Woken(pc) == IF pc = "sleep" THEN "read" ELSE pc

-----------------------------------------------------------------------------

(* The Haven's reader offers a packet; a full channel drops it.             *)
Packet ==
  /\ packets < MaxPackets
  /\ packets' = packets + 1
  /\ pktChan' = IF Len(pktChan) < PktCap THEN Append(pktChan, packets + 1)
                                         ELSE pktChan
  /\ UNCHANGED <<feeder, held, errChan, pipeVars, parserVars, consumerVars,
                 ctxDone, closing>>

(* The publisher's context, which d.ctx derives from, is done.              *)
UpstreamDone ==
  /\ ~ctxDone
  /\ ctxDone' = TRUE
  /\ UNCHANGED <<packets, feederVars, pipeVars, parserVars, consumerVars, closing>>

(* The feeder takes a packet ...                                            *)
TakePacket ==
  /\ feeder = "loop"
  /\ pktChan # <<>>
  /\ held' = Head(pktChan)
  /\ pktChan' = Tail(pktChan)
  /\ feeder' = "hold"
  /\ UNCHANGED <<packets, errChan, pipeVars, parserVars, consumerVars, ctxDone,
                 closing>>

(* Mutant of WritePacket: the sleeper is not woken.                         *)
WriteSilently ==
  /\ feeder = "hold"
  /\ \/ /\ err = "none"
        /\ pipe' = Append(pipe, held)
        /\ feeder' = "loop"
        /\ UNCHANGED errChan
     \/ /\ feeder' = "ended"
        /\ errChan' = TRUE
        /\ UNCHANGED pipe
  /\ UNCHANGED <<packets, pktChan, held, err, parserVars, consumerVars,
                 ctxDone, closing>>

(* ... and writes it to the syncBuffer.  A packet that is no transport      *)
(* stream, or an error in the syncBuffer, ends the feeder with an error.    *)
WritePacket ==
  /\ feeder = "hold"
  /\ \/ /\ err = "none"
        /\ pipe' = Append(pipe, held)
        /\ feeder' = "loop"
        /\ parser' = Woken(parser)
        /\ UNCHANGED errChan
     \/ /\ feeder' = "ended"
        /\ errChan' = TRUE
        /\ parser' = IF err = "none" THEN parser ELSE Woken(parser)
        /\ UNCHANGED pipe
  /\ UNCHANGED <<packets, pktChan, held, err, toSend, frames, consumerVars,
                 ctxDone, closing>>

EndFeeder ==
  /\ feeder = "loop"
  /\ ctxDone
  /\ feeder' = "ended"
  /\ UNCHANGED <<packets, pktChan, held, errChan, pipeVars, parserVars,
                 consumerVars, ctxDone, closing>>

-----------------------------------------------------------------------------
(* The parser.                                                              *)

(* The parser ends: its error, if it has one, becomes the syncBuffer's, and *)
(* the channel of frames is closed.                                         *)
FailParser ==
  /\ parser' = "ended"
  /\ toSend' = <<>>
  /\ err' = IF err = "none" THEN "parse" ELSE err
  /\ UNCHANGED <<pipe, frames>>

StartNext ==
  /\ parser = "loop"
  /\ \/ ctxDone /\ parser' = "ended"
     \/ ~ctxDone /\ parser' = "read"
  /\ UNCHANGED <<packets, feederVars, pipeVars, toSend, frames, consumerVars,
                 ctxDone, closing>>

(* NextData reads the syncBuffer, and sleeps when there is nothing in it.   *)
(* It also looks at the context.                                            *)
ReadPipe ==
  /\ parser = "read"
  /\ \/ /\ err # "none" \/ ctxDone
        /\ FailParser
     \/ /\ err = "none"
        /\ pipe = <<>>
        /\ parser' = "sleep"
        /\ UNCHANGED <<pipeVars, toSend, frames>>
     \/ /\ err = "none"
        /\ pipe # <<>>
        /\ pipe' = Tail(pipe)
        /\ \E n \in 0 .. MaxSplit :
             toSend' = [i \in 1 .. n |-> <<Head(pipe), i>>]
        /\ parser' = "send"
        /\ UNCHANGED <<err, frames>>
  /\ UNCHANGED <<packets, feederVars, consumerVars, ctxDone, closing>>

(* The stream cannot be parsed: no timestamp, or a codec nobody knows.      *)
RejectPacket ==
  /\ parser = "read"
  /\ err = "none"
  /\ pipe # <<>>
  /\ parser' = "ended"
  /\ err' = "parse"
  /\ pipe' = Tail(pipe)
  /\ UNCHANGED <<packets, feederVars, toSend, frames, consumerVars, ctxDone,
                 closing>>

(* Mutant of SendFrame: the frames of a packet are sent last first.         *)
SendLast ==
  /\ parser = "send"
  /\ toSend # <<>>
  /\ FrameLen < FrameCap
  /\ frames' = Append(frames, toSend[Len(toSend)])
  /\ toSend' = SubSeq(toSend, 1, Len(toSend) - 1)
  /\ UNCHANGED <<packets, feederVars, pipeVars, parser, consumerVars, ctxDone,
                 closing>>

(* One turn of the send loop: the frame is accepted; or dropped as the      *)
(* context is done; or the channel is full, and the parser ends with an     *)
(* error.                                                                   *)
SendFrame ==
  /\ parser = "send"
  /\ toSend # <<>>
  /\ \/ /\ FrameLen < FrameCap
        /\ frames' = Append(frames, Head(toSend))
        /\ toSend' = Tail(toSend)
        /\ UNCHANGED <<pipeVars, parser>>
     \/ /\ ctxDone
        /\ toSend' = Tail(toSend)
        /\ UNCHANGED <<pipeVars, parser, frames>>
     \/ /\ FrameLen >= FrameCap
        /\ ~ctxDone
        /\ FailParser
  /\ UNCHANGED <<packets, feederVars, consumerVars, ctxDone, closing>>

FramesSent ==
  /\ parser = "send"
  /\ toSend = <<>>
  /\ parser' = "loop"
  /\ UNCHANGED <<packets, feederVars, pipeVars, toSend, frames, consumerVars,
                 ctxDone, closing>>

-----------------------------------------------------------------------------
(* The Haven's writer: it ends with the Haven, with an error or with the    *)
(* channel.                                                                 *)

(* The Haven is closed, or the program's context is done.                   *)
HavenEnds ==
  /\ ~havenDone
  /\ havenDone' = TRUE
  /\ UNCHANGED <<packets, feederVars, pipeVars, parserVars, received, consumer,
                 ctxDone, closing>>

LeaveWithHaven ==
  /\ consumer = "loop"
  /\ havenDone
  /\ consumer' = "left"
  /\ UNCHANGED <<packets, feederVars, pipeVars, parserVars, received, havenDone,
                 ctxDone, closing>>

Receive ==
  /\ consumer = "loop"
  /\ FrameLen > 0
  /\ received' = received + 1
  /\ UNCHANGED <<packets, feederVars, pipeVars, parserVars, consumer, havenDone,
                 ctxDone, closing>>

ReceiveError ==
  /\ consumer = "loop"
  /\ errChan
  /\ errChan' = FALSE
  /\ consumer' = "failed"
  /\ UNCHANGED <<packets, pktChan, feeder, held, pipeVars, parserVars, received,
                 havenDone, ctxDone, closing>>

(* Mutant of ReceiveClosed: the frames left in the channel are forgotten.   *)
ReceiveClosedAtOnce ==
  /\ consumer = "loop"
  /\ parser = "ended"
  /\ consumer' = "closed"
  /\ UNCHANGED <<packets, feederVars, pipeVars, parserVars, received, havenDone,
                 ctxDone, closing>>

ReceiveClosed ==
  /\ consumer = "loop"
  /\ parser = "ended"
  /\ FrameLen = 0
  /\ consumer' = "closed"
  /\ UNCHANGED <<packets, feederVars, pipeVars, parserVars, received, havenDone,
                 ctxDone, closing>>

-----------------------------------------------------------------------------
(* Close.                                                                   *)

CancelCtx ==
  /\ closing = "no"
  /\ closing' = "cancelled"
  /\ ctxDone' = TRUE
  /\ UNCHANGED <<packets, feederVars, pipeVars, parserVars, consumerVars>>

(* Mutant of CloseBuffer: the sleeper is not woken.                         *)
CloseSilently ==
  /\ closing = "cancelled"
  /\ closing' = "wait"
  /\ err' = IF err = "none" THEN "eof" ELSE err
  /\ UNCHANGED <<packets, feederVars, pipe, parserVars, consumerVars, ctxDone>>

CloseBuffer ==
  /\ closing = "cancelled"
  /\ closing' = "wait"
  /\ \/ err # "none" /\ UNCHANGED <<err, parser>>
     \/ err = "none" /\ err' = "eof" /\ parser' = Woken(parser)
  /\ UNCHANGED <<packets, feederVars, pipe, toSend, frames, consumerVars, ctxDone>>

WaitDone ==
  /\ closing = "wait"
  /\ feeder = "ended" /\ parser = "ended"
  /\ closing' = "closed"
  /\ UNCHANGED <<packets, feederVars, pipeVars, parserVars, consumerVars, ctxDone>>

-----------------------------------------------------------------------------

Feeder == TakePacket \/ WritePacket \/ EndFeeder
Parser == StartNext \/ ReadPipe \/ SendFrame \/ FramesSent
Consumer == LeaveWithHaven \/ Receive \/ ReceiveError \/ ReceiveClosed

Next ==
  \/ Packet
  \/ UpstreamDone \/ HavenEnds
  \/ Feeder
  \/ Parser \/ RejectPacket
  \/ Consumer
  \/ CancelCtx \/ CloseBuffer \/ WaitDone

(* The goroutines run, and the selects of the feeder and of the consumer do *)
(* not pass over a context that is done for ever.  Nobody need send packets *)
(* or call Close, and the Haven need not end.                               *)
Fairness ==
  /\ WF_vars(Feeder)
  /\ SF_vars(EndFeeder)
  /\ WF_vars(Parser)
  /\ WF_vars(Consumer)
  /\ WF_vars(LeaveWithHaven)
  /\ WF_vars(CloseBuffer)
  /\ WF_vars(WaitDone)

Spec == Init /\ [][Next]_vars

FairSpec == Spec /\ Fairness

-----------------------------------------------------------------------------

Numbers == 1 .. MaxPackets
Frames == Numbers \X (1 .. MaxSplit)

(* Every variable has the values the code can give it; the two channels     *)
(* keep within their capacity.                                              *)
TypeOK ==
  /\ packets \in 0 .. MaxPackets
  /\ pktChan \in Seq(Numbers) /\ Len(pktChan) <= PktCap
  /\ feeder \in {"loop", "hold", "ended"}
  /\ held \in {0} \cup Numbers /\ (feeder = "hold" => held # 0)
  /\ pipe \in Seq(Numbers)
  /\ err \in {"none", "eof", "parse"}
  /\ parser \in {"loop", "read", "sleep", "send", "ended"}
  /\ toSend \in Seq(Frames)
  /\ frames \in Seq(Frames)
  /\ received \in 0 .. Len(frames) /\ FrameLen <= FrameCap
  /\ errChan \in BOOLEAN
  /\ consumer \in {"loop", "closed", "failed", "left"}
  /\ havenDone \in BOOLEAN
  /\ ctxDone \in BOOLEAN
  /\ closing \in {"no", "cancelled", "wait", "closed"}

Before(a, b) == a[1] < b[1] \/ (a[1] = b[1] /\ a[2] < b[2])

(* Frames come out in the order of the stream, none twice, whatever packets *)
(* and frames were dropped on the way.                                      *)
FramesInOrder ==
  \A i, j \in 1 .. Len(frames) : i < j => Before(frames[i], frames[j])

(* No wake-up is lost: a parser asleep has nothing to read and no error to  *)
(* return.                                                                  *)
SleepsOnEmptyPipe == parser = "sleep" => pipe = <<>> /\ err = "none"

(* Close returns: both goroutines end, a parser asleep included.            *)
CloseReturns == (closing = "cancelled") ~> (closing = "closed")

(* When the parser or the Haven has ended, the consumer ends too.  One that *)
(* saw the channel close has received every frame of it: only an error or   *)
(* the end of the Haven takes a consumer away from frames that are left.    *)
ConsumerEnds ==
  (parser = "ended" \/ havenDone) ~>
    \/ consumer = "failed"
    \/ consumer = "left" /\ havenDone
    \/ consumer = "closed" /\ received = Len(frames)
=============================================================================
