---------------------------- MODULE DemuxerProofs ----------------------------
(***************************************************************************)
(* Proofs about the demuxer, for channels of any capacity and any number   *)
(* of packets and of frames in a packet: its type invariant, that no       *)
(* wake-up is lost, and that frames come out in order.                     *)
(***************************************************************************)
EXTENDS Demuxer, TLAPS

Increasing(s) == \A i, j \in 1 .. Len(s) : i < j => s[i] < s[j]
Ordered(s) == \A i, j \in 1 .. Len(s) : i < j => Before(s[i], s[j])

(* Packets on their way are in the order they were sent: those of the       *)
(* channel after the one the feeder holds, and this after those of the      *)
(* pipe.                                                                    *)
PacketsInOrder ==
  /\ Increasing(pktChan) /\ Increasing(pipe)
  /\ \A i \in 1 .. Len(pktChan) : pktChan[i] <= packets
  /\ \A i \in 1 .. Len(pipe) : pipe[i] <= packets
  /\ feeder = "hold" => held \in 1 .. packets
  /\ \A i \in 1 .. Len(pipe), j \in 1 .. Len(pktChan) : pipe[i] < pktChan[j]
  /\ feeder = "hold" => \A i \in 1 .. Len(pipe) : pipe[i] < held
  /\ feeder = "hold" => \A i \in 1 .. Len(pktChan) : held < pktChan[i]

(* The frames made of packets: accepted by the channel, or yet to be sent.  *)
Made == {frames[i] : i \in 1 .. Len(frames)} \cup {toSend[i] : i \in 1 .. Len(toSend)}

(* A frame that was made is of a packet before all those on their way.      *)
MadeBefore(f) ==
  /\ f[1] <= packets
  /\ \A i \in 1 .. Len(pipe) : f[1] < pipe[i]
  /\ \A i \in 1 .. Len(pktChan) : f[1] < pktChan[i]
  /\ feeder = "hold" => f[1] < held

(* The inductive strengthening of FramesInOrder: frames to send come after  *)
(* all those accepted, and both before what is still in packets.            *)
OrderInv ==
  /\ PacketsInOrder
  /\ Ordered(frames) /\ Ordered(toSend)
  /\ \A f \in Made : MadeBefore(f)
  /\ \A i \in 1 .. Len(frames), j \in 1 .. Len(toSend) :
       Before(frames[i], toSend[j])

-----------------------------------------------------------------------------
(* Sequences: what is left of one, and one that has grown.                  *)

LEMMA TailElements ==
  ASSUME NEW S, NEW s \in Seq(S), s # <<>>
  PROVE  /\ Tail(s) \in Seq(S) /\ Head(s) \in S
         /\ Len(s) \in Nat /\ Len(s) >= 1 /\ Len(Tail(s)) = Len(s) - 1
         /\ Head(s) = s[1]
         /\ \A i \in 1 .. Len(Tail(s)) : Tail(s)[i] = s[i + 1] /\ i + 1 \in 1 .. Len(s)
  OBVIOUS

LEMMA AppendElements ==
  ASSUME NEW S, NEW s \in Seq(S), NEW e \in S
  PROVE  /\ Append(s, e) \in Seq(S) /\ Len(s) \in Nat
         /\ Len(Append(s, e)) = Len(s) + 1
         /\ Append(s, e)[Len(s) + 1] = e
         /\ \A i \in 1 .. Len(s) : Append(s, e)[i] = s[i]
  OBVIOUS

LEMMA TailIncreasing ==
  ASSUME NEW s \in Seq(Nat), s # <<>>, Increasing(s)
  PROVE  /\ Increasing(Tail(s))
         /\ \A i \in 1 .. Len(Tail(s)) : Head(s) < Tail(s)[i]
  BY TailElements DEF Increasing

LEMMA AppendIncreasing ==
  ASSUME NEW s \in Seq(Nat), NEW e \in Nat, Increasing(s),
         \A i \in 1 .. Len(s) : s[i] < e
  PROVE  Increasing(Append(s, e))
<1> DEFINE t == Append(s, e)
<1> HIDE DEF t
<1>1. /\ Len(s) \in Nat /\ Len(t) = Len(s) + 1 /\ t[Len(s) + 1] = e
      /\ \A i \in 1 .. Len(s) : t[i] = s[i]
  BY AppendElements DEF t
<1>2. ASSUME NEW i \in 1 .. Len(t), NEW j \in 1 .. Len(t), i < j PROVE t[i] < t[j]
  <2>1. i \in 1 .. Len(s)
    BY <1>1, <1>2
  <2>2. CASE j = Len(s) + 1
    BY <1>1, <2>1, <2>2
  <2>3. CASE j \in 1 .. Len(s)
    BY <1>1, <1>2, <2>1, <2>3 DEF Increasing
  <2> QED BY <1>1, <2>2, <2>3
<1> QED BY <1>2 DEF Increasing, t

LEMMA TailOrdered ==
  ASSUME NEW s \in Seq(Frames), s # <<>>, Ordered(s)
  PROVE  /\ Ordered(Tail(s))
         /\ \A i \in 1 .. Len(Tail(s)) : Before(Head(s), Tail(s)[i])
  BY TailElements DEF Ordered

LEMMA AppendOrdered ==
  ASSUME NEW s \in Seq(Frames), NEW e \in Frames, Ordered(s),
         \A i \in 1 .. Len(s) : Before(s[i], e)
  PROVE  Ordered(Append(s, e))
<1> DEFINE t == Append(s, e)
<1> HIDE DEF t
<1>1. /\ Len(s) \in Nat /\ Len(t) = Len(s) + 1 /\ t[Len(s) + 1] = e
      /\ \A i \in 1 .. Len(s) : t[i] = s[i]
  BY AppendElements DEF t
<1>2. ASSUME NEW i \in 1 .. Len(t), NEW j \in 1 .. Len(t), i < j
      PROVE  Before(t[i], t[j])
  <2>1. i \in 1 .. Len(s)
    BY <1>1, <1>2
  <2>2. CASE j = Len(s) + 1
    BY <1>1, <2>1, <2>2
  <2>3. CASE j \in 1 .. Len(s)
    BY <1>1, <1>2, <2>1, <2>3 DEF Ordered
  <2> QED BY <1>1, <2>2, <2>3
<1> QED BY <1>2 DEF Ordered, t

-----------------------------------------------------------------------------
(* Types and the sleeping parser.                                           *)

LEMMA InitInv == Init => TypeOK /\ SleepsOnEmptyPipe /\ OrderInv
<1> SUFFICES ASSUME Init PROVE TypeOK /\ SleepsOnEmptyPipe /\ OrderInv
  OBVIOUS
<1>1. TypeOK
  <2>1. Len(frames) = 0 /\ Len(pktChan) = 0
    BY DEF Init
  <2>2. received \in 0 .. Len(frames) /\ FrameLen <= FrameCap
    BY <2>1, CapAssumption DEF Init, FrameLen
  <2>3. packets \in 0 .. MaxPackets /\ Len(pktChan) <= PktCap
    BY <2>1, CapAssumption, BoundAssumption DEF Init
  <2>4. /\ pktChan \in Seq(Numbers) /\ pipe \in Seq(Numbers)
        /\ toSend \in Seq(Frames) /\ frames \in Seq(Frames)
    BY DEF Init
  <2>5. errChan \in BOOLEAN /\ ctxDone \in BOOLEAN /\ havenDone \in BOOLEAN
    BY DEF Init
  <2> QED BY <2>2, <2>3, <2>4, <2>5 DEF Init, TypeOK
<1>2. SleepsOnEmptyPipe
  BY DEF Init, SleepsOnEmptyPipe
<1>3. OrderInv
  BY DEF Init, OrderInv, PacketsInOrder, Increasing, Ordered, Made
<1> QED BY <1>1, <1>2, <1>3

LEMMA SleepStep == SleepsOnEmptyPipe /\ [Next]_vars => SleepsOnEmptyPipe'
<1> SUFFICES ASSUME SleepsOnEmptyPipe, [Next]_vars PROVE SleepsOnEmptyPipe'
  OBVIOUS
<1> USE DEF SleepsOnEmptyPipe, Woken, FailParser, feederVars, pipeVars, parserVars,
            consumerVars
<1>1. CASE Packet \/ UpstreamDone \/ HavenEnds
  BY <1>1 DEF Packet, UpstreamDone, HavenEnds
<1>2. CASE Feeder
  BY <1>2 DEF Feeder, TakePacket, WritePacket, EndFeeder
<1>3. CASE Parser \/ RejectPacket
  BY <1>3 DEF Parser, StartNext, ReadPipe, SendFrame, FramesSent, RejectPacket
<1>4. CASE Consumer
  BY <1>4 DEF Consumer, LeaveWithHaven, Receive, ReceiveError, ReceiveClosed
<1>5. CASE CancelCtx \/ CloseBuffer \/ WaitDone
  BY <1>5 DEF CancelCtx, CloseBuffer, WaitDone
<1>6. CASE UNCHANGED vars
  BY <1>6 DEF vars
<1> QED BY <1>1, <1>2, <1>3, <1>4, <1>5, <1>6 DEF Next

LEMMA TypeStep == TypeOK /\ [Next]_vars => TypeOK'
<1> SUFFICES ASSUME TypeOK, [Next]_vars PROVE TypeOK'
  OBVIOUS
<1> USE DEF feederVars, pipeVars, parserVars, consumerVars
<1>1. CASE Packet
  <2>1. packets' \in 0 .. MaxPackets /\ packets + 1 \in Numbers
    BY <1>1, BoundAssumption DEF Packet, TypeOK, Numbers
  <2>2. pktChan' \in Seq(Numbers) /\ Len(pktChan') <= PktCap
    BY <1>1, <2>1, CapAssumption, AppendElements DEF Packet, TypeOK
  <2> QED BY <1>1, <2>1, <2>2 DEF Packet, TypeOK, FrameLen
<1>2. CASE UpstreamDone \/ HavenEnds
  <2>1. CASE UpstreamDone
    BY <2>1 DEF UpstreamDone, TypeOK, FrameLen
  <2>2. CASE HavenEnds
    BY <2>2 DEF HavenEnds, TypeOK, FrameLen
  <2> QED BY <1>2, <2>1, <2>2
<1>3. CASE TakePacket
  <2>1. /\ pktChan' \in Seq(Numbers) /\ Len(pktChan') <= PktCap
        /\ held' \in Numbers
    BY <1>3, CapAssumption, TailElements DEF TakePacket, TypeOK
  <2>2. held' # 0
    BY <2>1, BoundAssumption DEF Numbers
  <2> QED BY <1>3, <2>1, <2>2 DEF TakePacket, TypeOK, FrameLen
<1>4. CASE WritePacket
  <2>1. parser' \in {"loop", "read", "sleep", "send", "ended"}
    BY <1>4 DEF WritePacket, TypeOK, Woken
  <2>2. pipe' \in Seq(Numbers)
    <3>1. held \in Numbers
      BY <1>4 DEF WritePacket, TypeOK
    <3>2. pipe \in Seq(Numbers) /\ Append(pipe, held) \in Seq(Numbers)
      BY <3>1, AppendElements DEF TypeOK
    <3>3. pipe' \in {pipe, Append(pipe, held)}
      BY <1>4 DEF WritePacket
    <3> QED BY <3>2, <3>3
  <2> QED BY <1>4, <2>1, <2>2 DEF WritePacket, TypeOK, FrameLen
<1>5. CASE EndFeeder
  BY <1>5 DEF EndFeeder, TypeOK, FrameLen
<1>6. CASE StartNext \/ FramesSent
  BY <1>6 DEF StartNext, FramesSent, TypeOK, FrameLen
<1>7. CASE ReadPipe
  <2>1. CASE FailParser /\ pktChan' = pktChan
    <3>1. toSend' \in Seq(Frames)
      BY <2>1 DEF FailParser
    <3> QED BY <1>7, <2>1, <3>1 DEF ReadPipe, FailParser, TypeOK, FrameLen
  <2>2. CASE parser' = "sleep" /\ UNCHANGED <<pipeVars, toSend, frames>>
    BY <1>7, <2>2 DEF ReadPipe, TypeOK, FrameLen
  <2>3. CASE /\ pipe # <<>> /\ pipe' = Tail(pipe)
             /\ \E n \in 0 .. MaxSplit :
                  toSend' = [i \in 1 .. n |-> <<Head(pipe), i>>]
             /\ parser' = "send" /\ UNCHANGED <<err, frames>>
    <3>1. pipe' \in Seq(Numbers) /\ Head(pipe) \in Numbers
      BY <2>3, TailElements DEF TypeOK
    <3>2. toSend' \in Seq(Frames)
      <4>1. PICK n \in 0 .. MaxSplit : toSend' = [i \in 1 .. n |-> <<Head(pipe), i>>]
        BY <2>3
      <4>2. \A i \in 1 .. n : <<Head(pipe), i>> \in Frames
        BY <3>1, <4>1, BoundAssumption DEF Frames
      <4> QED BY <4>1, <4>2, BoundAssumption
    <3> QED BY <1>7, <2>3, <3>1, <3>2 DEF ReadPipe, TypeOK, FrameLen
  <2> QED BY <1>7, <2>1, <2>2, <2>3 DEF ReadPipe
<1>8. CASE RejectPacket
  <2>1. pipe' \in Seq(Numbers)
    BY <1>8, TailElements DEF RejectPacket, TypeOK
  <2> QED BY <1>8, <2>1 DEF RejectPacket, TypeOK, FrameLen
<1>9. CASE SendFrame
  <2>1. Head(toSend) \in Frames /\ Tail(toSend) \in Seq(Frames) /\ <<>> \in Seq(Frames)
    BY <1>9, TailElements DEF SendFrame, TypeOK
  <2>2. CASE FrameLen < FrameCap /\ frames' = Append(frames, Head(toSend))
             /\ toSend' = Tail(toSend) /\ UNCHANGED <<pipeVars, parser>>
    <3>1. frames' \in Seq(Frames) /\ Len(frames') = Len(frames) + 1 /\ Len(frames) \in Nat
      BY <2>1, <2>2, AppendElements DEF TypeOK
    <3>2. received \in 0 .. Len(frames') /\ Len(frames') - received <= FrameCap
      BY <2>2, <3>1, CapAssumption, SMTT(30) DEF TypeOK, FrameLen
    <3> QED BY <1>9, <2>1, <2>2, <3>1, <3>2 DEF SendFrame, TypeOK, FrameLen
  <2>3. CASE toSend' = Tail(toSend) /\ UNCHANGED <<pipeVars, parser, frames>>
    BY <1>9, <2>1, <2>3 DEF SendFrame, TypeOK, FrameLen
  <2>4. CASE FailParser
    BY <1>9, <2>1, <2>4 DEF SendFrame, FailParser, TypeOK, FrameLen
  <2> QED BY <1>9, <2>2, <2>3, <2>4 DEF SendFrame
<1>10. CASE Receive
  <2>1. received' \in 0 .. Len(frames) /\ Len(frames) - received' <= FrameCap
    BY <1>10, CapAssumption DEF Receive, TypeOK, FrameLen
  <2> QED BY <1>10, <2>1 DEF Receive, TypeOK, FrameLen
<1>11. CASE ReceiveError \/ ReceiveClosed \/ LeaveWithHaven
  <2>1. CASE ReceiveError
    <3>1. /\ errChan' \in BOOLEAN /\ consumer' = "failed"
          /\ UNCHANGED <<packets, pktChan, feeder, held, pipe, err, parser, toSend,
                         frames, received, havenDone, ctxDone, closing>>
      BY <2>1 DEF ReceiveError
    <3>2. FrameLen' = FrameLen
      BY <3>1 DEF FrameLen
    <3> QED BY <3>1, <3>2 DEF TypeOK
  <2>2. CASE ReceiveClosed \/ LeaveWithHaven
    BY <2>2 DEF ReceiveClosed, LeaveWithHaven, TypeOK, FrameLen
  <2> QED BY <1>11, <2>1, <2>2
<1>12. CASE CancelCtx \/ CloseBuffer \/ WaitDone
  <2>1. CASE CancelCtx
    BY <2>1 DEF CancelCtx, TypeOK, FrameLen
  <2>2. CASE CloseBuffer
    BY <2>2 DEF CloseBuffer, TypeOK, FrameLen, Woken
  <2>3. CASE WaitDone
    BY <2>3 DEF WaitDone, TypeOK, FrameLen
  <2> QED BY <1>12, <2>1, <2>2, <2>3
<1>13. CASE UNCHANGED vars
  BY <1>13 DEF vars, TypeOK, FrameLen
<1> QED
  BY <1>1, <1>2, <1>3, <1>4, <1>5, <1>6, <1>7, <1>8, <1>9, <1>10, <1>11, <1>12, <1>13
  DEF Next, Feeder, Parser, Consumer

(* The channels of packets and frames keep within their capacity, and every *)
(* variable within its type, at every step of StartDemuxer's goroutines and *)
(* of Close.                                                                *)
THEOREM TypeCorrect == Spec => []TypeOK
<1>1. Init => TypeOK
  BY InitInv
<1> QED BY <1>1, TypeStep, PTL DEF Spec

(* The parser never sleeps on a packet or an error: read, write, setError   *)
(* and Close of syncBuffer lose no wake-up.                                 *)
THEOREM NoLostWakeUp == Spec => []SleepsOnEmptyPipe
<1>1. Init => SleepsOnEmptyPipe
  BY InitInv
<1> QED BY <1>1, SleepStep, PTL DEF Spec

-----------------------------------------------------------------------------
(* The order of the frames.                                                 *)

LEMMA NumbersAreNat ==
  /\ Seq(Numbers) \subseteq Seq(Nat)
  /\ \A f \in Frames : f[1] \in Nat /\ f[2] \in Nat
<1>1. Numbers \subseteq Nat
  BY BoundAssumption DEF Numbers
<1>2. ASSUME NEW s \in Seq(Numbers) PROVE s \in Seq(Nat)
  <2>1. Len(s) \in Nat /\ s = [i \in 1 .. Len(s) |-> s[i]]
    OBVIOUS
  <2>2. \A i \in 1 .. Len(s) : s[i] \in Numbers
    OBVIOUS
  <2> QED BY <1>1, <2>1, <2>2
<1>3. \A f \in Frames : f[1] \in Nat /\ f[2] \in Nat
  BY BoundAssumption DEF Frames, Numbers
<1> QED BY <1>2, <1>3

(* What the order speaks of keeps its types.                                *)
LEMMA OrderTypes ==
  ASSUME TypeOK
  PROVE  /\ packets \in Nat /\ held \in Nat
         /\ pktChan \in Seq(Nat) /\ pipe \in Seq(Nat)
         /\ Len(pktChan) \in Nat /\ Len(pipe) \in Nat
         /\ frames \in Seq(Frames) /\ Len(frames) \in Nat
         /\ toSend \in Seq(Frames) /\ Len(toSend) \in Nat
         /\ \A i \in 1 .. Len(pktChan) : pktChan[i] \in Nat
         /\ \A i \in 1 .. Len(pipe) : pipe[i] \in Nat
         /\ \A i \in 1 .. Len(frames) : frames[i][1] \in Nat /\ frames[i][2] \in Nat
         /\ \A i \in 1 .. Len(toSend) : toSend[i][1] \in Nat /\ toSend[i][2] \in Nat
<1>1. /\ packets \in Nat /\ held \in Nat
  BY BoundAssumption DEF TypeOK, Numbers
<1>2. pktChan \in Seq(Nat) /\ pipe \in Seq(Nat)
  BY NumbersAreNat DEF TypeOK
<1>3. /\ frames \in Seq(Frames) /\ toSend \in Seq(Frames)
      /\ \A i \in 1 .. Len(frames) : frames[i] \in Frames
      /\ \A i \in 1 .. Len(toSend) : toSend[i] \in Frames
  BY DEF TypeOK
<1> QED BY <1>1, <1>2, <1>3, NumbersAreNat

(* Frames stay before the packets when packets leave the pipe or the        *)
(* channel, when one comes to them that is after the frames, and when the   *)
(* feeder takes one.                                                        *)
LEMMA MadeBeforeStep ==
  ASSUME NEW f \in Frames, MadeBefore(f), TypeOK,
         packets' \in Nat, packets <= packets',
         \A i \in 1 .. Len(pipe') :
           \/ \E j \in 1 .. Len(pipe) : pipe'[i] = pipe[j]
           \/ feeder = "hold" /\ pipe'[i] = held,
         \A i \in 1 .. Len(pktChan') :
           \/ \E j \in 1 .. Len(pktChan) : pktChan'[i] = pktChan[j]
           \/ pktChan'[i] = packets + 1,
         feeder' = "hold" => \/ feeder = "hold" /\ held' = held
                             \/ \E j \in 1 .. Len(pktChan) : held' = pktChan[j]
  PROVE  MadeBefore(f)'
<1>1. f[1] \in Nat /\ packets \in Nat /\ f[1] <= packets
  BY OrderTypes, NumbersAreNat DEF MadeBefore
<1>2. f[1] <= packets' /\ f[1] < packets + 1
  BY <1>1
<1>3. \A i \in 1 .. Len(pipe') : f[1] < pipe'[i]
  BY DEF MadeBefore
<1>4. \A i \in 1 .. Len(pktChan') : f[1] < pktChan'[i]
  BY <1>2 DEF MadeBefore
<1>5. feeder' = "hold" => f[1] < held'
  BY DEF MadeBefore
<1> QED BY <1>2, <1>3, <1>4, <1>5 DEF MadeBefore

(* A step that makes no frame keeps the frames in order, when it keeps      *)
(* those that were made before the packets.                                 *)
LEMMA FramesKept ==
  ASSUME TypeOK, OrderInv, frames' = frames, toSend' = toSend, PacketsInOrder',
         \A f \in Frames : MadeBefore(f) => MadeBefore(f)'
  PROVE  OrderInv'
<1>1. Made' = Made /\ Made \subseteq Frames
  BY DEF Made, TypeOK
<1>2. \A f \in Made' : MadeBefore(f)'
  BY <1>1 DEF OrderInv
<1> QED BY <1>2 DEF OrderInv, Ordered

LEMMA PacketOrder == TypeOK /\ OrderInv /\ Packet => OrderInv'
<1> SUFFICES ASSUME TypeOK, OrderInv, Packet PROVE OrderInv'
  OBVIOUS
<1>1. /\ packets' = packets + 1 /\ pipe' = pipe /\ feeder' = feeder /\ held' = held
      /\ frames' = frames /\ toSend' = toSend
  BY DEF Packet, pipeVars, parserVars
<1>2. packets \in Nat /\ packets + 1 \in Nat /\ Len(pktChan) \in Nat
  BY OrderTypes
<1>3. /\ Increasing(pktChan') /\ Len(pktChan') \in Nat
      /\ \A i \in 1 .. Len(pktChan') :
           \/ i \in 1 .. Len(pktChan) /\ pktChan'[i] = pktChan[i]
           \/ pktChan'[i] = packets + 1
  <2>1. CASE pktChan' = pktChan
    BY <1>2, <2>1 DEF OrderInv, PacketsInOrder
  <2>2. CASE pktChan' = Append(pktChan, packets + 1)
    <3>1. \A i \in 1 .. Len(pktChan) : pktChan[i] < packets + 1
      <4> TAKE i \in 1 .. Len(pktChan)
      <4>1. pktChan[i] \in Nat /\ pktChan[i] <= packets
        BY OrderTypes DEF OrderInv, PacketsInOrder
      <4> QED BY <1>2, <4>1
    <3>2. pktChan \in Seq(Nat) /\ Increasing(pktChan)
      BY OrderTypes DEF OrderInv, PacketsInOrder
    <3>3. Increasing(pktChan')
      BY <1>2, <2>2, <3>1, <3>2, AppendIncreasing
    <3> QED BY <1>2, <2>2, <3>2, <3>3, AppendElements
  <2> QED BY <2>1, <2>2 DEF Packet
<1>4. PacketsInOrder'
  <2>1. \A i \in 1 .. Len(pktChan') : pktChan'[i] <= packets'
    <3>1. \A i \in 1 .. Len(pktChan) : pktChan[i] \in Nat /\ pktChan[i] <= packets
      BY OrderTypes DEF OrderInv, PacketsInOrder
    <3> QED BY <1>1, <1>2, <1>3, <3>1
  <2>2. /\ \A i \in 1 .. Len(pipe) : pipe[i] \in Nat /\ pipe[i] <= packets
        /\ held \in Nat /\ (feeder = "hold" => held \in 1 .. packets)
    BY OrderTypes DEF OrderInv, PacketsInOrder
  <2>3. \A i \in 1 .. Len(pipe), j \in 1 .. Len(pktChan') : pipe[i] < pktChan'[j]
    BY <1>2, <1>3, <2>2 DEF OrderInv, PacketsInOrder
  <2>4. feeder = "hold" => \A i \in 1 .. Len(pktChan') : held < pktChan'[i]
    BY <1>2, <1>3, <2>2 DEF OrderInv, PacketsInOrder
  <2>5. \A i \in 1 .. Len(pipe) : pipe[i] <= packets'
    BY <1>1, <1>2, <2>2
  <2> QED BY <1>1, <1>2, <1>3, <2>1, <2>2, <2>3, <2>4, <2>5 DEF OrderInv, PacketsInOrder
<1>5. \A f \in Frames : MadeBefore(f) => MadeBefore(f)'
  BY <1>1, <1>2, <1>3, MadeBeforeStep
<1> QED BY <1>1, <1>4, <1>5, FramesKept

LEMMA FeederOrder == TypeOK /\ OrderInv /\ Feeder => OrderInv'
<1> SUFFICES ASSUME TypeOK, OrderInv, Feeder PROVE OrderInv'
  OBVIOUS
<1>0. packets \in Nat /\ held \in Nat /\ pktChan \in Seq(Nat) /\ pipe \in Seq(Nat)
  BY OrderTypes
<1>1. CASE TakePacket
  <2>1. /\ packets' = packets /\ pipe' = pipe /\ frames' = frames /\ toSend' = toSend
        /\ pktChan # <<>> /\ pktChan' = Tail(pktChan) /\ held' = pktChan[1]
        /\ feeder' = "hold" /\ 1 \in 1 .. Len(pktChan)
    BY <1>0, <1>1, TailElements DEF TakePacket, pipeVars, parserVars
  <2>2. /\ Increasing(pktChan') /\ Len(pktChan') \in Nat
        /\ \A i \in 1 .. Len(pktChan') :
             /\ i + 1 \in 1 .. Len(pktChan) /\ pktChan'[i] = pktChan[i + 1]
             /\ held' < pktChan'[i]
    BY <1>0, <2>1, TailElements, TailIncreasing DEF OrderInv, PacketsInOrder
  <2>3. held' \in 1 .. packets
    <3>1. held' \in Nat /\ held' >= 1
      BY <2>1, BoundAssumption DEF TypeOK, Numbers
    <3> QED BY <1>0, <2>1, <3>1 DEF OrderInv, PacketsInOrder
  <2>4. PacketsInOrder'
    BY <2>1, <2>2, <2>3 DEF OrderInv, PacketsInOrder
  <2>5. \A f \in Frames : MadeBefore(f) => MadeBefore(f)'
    BY <1>0, <2>1, <2>2, MadeBeforeStep, SMTT(30)
  <2> QED BY <2>1, <2>4, <2>5, FramesKept
<1>2. CASE WritePacket
  <2>1. /\ packets' = packets /\ pktChan' = pktChan /\ feeder = "hold" /\ feeder' # "hold"
        /\ frames' = frames /\ toSend' = toSend
    BY <1>2 DEF WritePacket
  <2>2. /\ Increasing(pipe') /\ Len(pipe') \in Nat
        /\ \A i \in 1 .. Len(pipe') :
             \/ i \in 1 .. Len(pipe) /\ pipe'[i] = pipe[i]
             \/ pipe'[i] = held
    <3>1. CASE pipe' = pipe
      BY <1>0, <3>1 DEF OrderInv, PacketsInOrder
    <3>2. CASE pipe' = Append(pipe, held)
      <4>1. Increasing(pipe) /\ \A i \in 1 .. Len(pipe) : pipe[i] < held
        BY <2>1 DEF OrderInv, PacketsInOrder
      <4>2. Increasing(pipe')
        BY <1>0, <3>2, <4>1, AppendIncreasing
      <4> QED BY <1>0, <3>2, <4>2, AppendElements
    <3> QED BY <1>2, <3>1, <3>2 DEF WritePacket
  <2>3. PacketsInOrder'
    <3>1. \A i \in 1 .. Len(pipe') : pipe'[i] <= packets'
      BY <1>0, <2>1, <2>2 DEF OrderInv, PacketsInOrder
    <3>2. \A i \in 1 .. Len(pipe'), j \in 1 .. Len(pktChan') : pipe'[i] < pktChan'[j]
      BY <2>1, <2>2 DEF OrderInv, PacketsInOrder
    <3> QED BY <2>1, <2>2, <3>1, <3>2 DEF OrderInv, PacketsInOrder
  <2>4. \A f \in Frames : MadeBefore(f) => MadeBefore(f)'
    BY <1>0, <2>1, <2>2, MadeBeforeStep
  <2> QED BY <2>1, <2>3, <2>4, FramesKept
<1>3. CASE EndFeeder
  <2>1. /\ UNCHANGED <<packets, pktChan, pipe, frames, toSend>> /\ feeder' # "hold"
    BY <1>3 DEF EndFeeder, pipeVars, parserVars
  <2>2. PacketsInOrder'
    BY <2>1 DEF OrderInv, PacketsInOrder
  <2>3. \A f \in Frames : MadeBefore(f) => MadeBefore(f)'
    BY <2>1 DEF MadeBefore
  <2> QED BY <2>1, <2>2, <2>3, FramesKept
<1> QED BY <1>1, <1>2, <1>3 DEF Feeder

(* What is taken from the pipe leaves the packets in order, and after the   *)
(* frames made before.                                                      *)
LEMMA PipeTail ==
  ASSUME TypeOK, OrderInv, pipe # <<>>, pipe' = Tail(pipe),
         UNCHANGED <<packets, pktChan, feeder, held>>
  PROVE  /\ PacketsInOrder'
         /\ \A f \in Frames : MadeBefore(f) => MadeBefore(f)'
         /\ 1 \in 1 .. Len(pipe) /\ Head(pipe) = pipe[1] /\ Head(pipe) \in Nat
         /\ \A f \in Frames : f[1] = Head(pipe) => MadeBefore(f)'
<1>1. /\ Increasing(pipe') /\ Len(pipe') \in Nat
      /\ 1 \in 1 .. Len(pipe) /\ Head(pipe) = pipe[1] /\ Head(pipe) \in Nat
      /\ \A i \in 1 .. Len(pipe') :
           /\ i + 1 \in 1 .. Len(pipe) /\ pipe'[i] = pipe[i + 1]
           /\ Head(pipe) < pipe'[i]
  BY OrderTypes, TailElements, TailIncreasing DEF OrderInv, PacketsInOrder
<1>2. PacketsInOrder'
  BY <1>1, OrderTypes DEF OrderInv, PacketsInOrder
<1>3. \A f \in Frames : MadeBefore(f) => MadeBefore(f)'
  BY <1>1, OrderTypes, NumbersAreNat DEF MadeBefore
<1>4. \A f \in Frames : f[1] = Head(pipe) => MadeBefore(f)'
  BY <1>1, OrderTypes, NumbersAreNat DEF MadeBefore, OrderInv, PacketsInOrder
<1> QED BY <1>1, <1>2, <1>3, <1>4

LEMMA ReadOrder == TypeOK /\ OrderInv /\ (ReadPipe \/ RejectPacket) => OrderInv'
<1> SUFFICES ASSUME TypeOK, OrderInv, ReadPipe \/ RejectPacket PROVE OrderInv'
  OBVIOUS
<1>0. /\ UNCHANGED <<packets, pktChan, feeder, held>> /\ frames' = frames
      /\ \A i \in 1 .. Len(frames) : frames[i] \in Frames /\ frames[i] \in Made
      /\ Made \subseteq Frames
  BY SMTT(30) DEF ReadPipe, RejectPacket, FailParser, feederVars, TypeOK, Made
<1>1. CASE pipe' = pipe /\ toSend' = <<>>
  <2>1. PacketsInOrder' /\ \A f \in Frames : MadeBefore(f) => MadeBefore(f)'
    BY <1>0, <1>1 DEF OrderInv, PacketsInOrder, MadeBefore
  <2>2. Made' \subseteq Made
    BY <1>0, <1>1 DEF Made
  <2> QED BY <1>0, <1>1, <2>1, <2>2 DEF OrderInv, Ordered
<1>2. CASE pipe' = pipe /\ toSend' = toSend
  <2>1. PacketsInOrder' /\ \A f \in Frames : MadeBefore(f) => MadeBefore(f)'
    BY <1>0, <1>2 DEF OrderInv, PacketsInOrder, MadeBefore
  <2> QED BY <1>0, <1>2, <2>1, FramesKept
<1>3. CASE pipe # <<>> /\ pipe' = Tail(pipe) /\ toSend' = toSend
  <2>1. PacketsInOrder' /\ \A f \in Frames : MadeBefore(f) => MadeBefore(f)'
    BY <1>0, <1>3, PipeTail
  <2> QED BY <1>0, <1>3, <2>1, FramesKept
<1>4. CASE /\ pipe # <<>> /\ pipe' = Tail(pipe)
           /\ \E n \in 0 .. MaxSplit : toSend' = [i \in 1 .. n |-> <<Head(pipe), i>>]
  <2>1. PICK n \in 0 .. MaxSplit : toSend' = [i \in 1 .. n |-> <<Head(pipe), i>>]
    BY <1>4
  <2>2. /\ Len(toSend') = n /\ n \in Nat
        /\ \A i \in 1 .. n : toSend'[i] = <<Head(pipe), i>>
    BY <2>1, BoundAssumption
  <2>3. Head(pipe) \in Numbers
    BY <1>4, TailElements DEF TypeOK
  <2>4. \A i \in 1 .. n : toSend'[i] \in Frames /\ toSend'[i][1] = Head(pipe)
    <3> TAKE i \in 1 .. n
    <3>1. i \in 1 .. MaxSplit
      BY BoundAssumption
    <3>2. toSend'[i] = <<Head(pipe), i>>
      BY <2>2
    <3>3. <<Head(pipe), i>> \in Frames
      BY <2>3, <3>1 DEF Frames
    <3> QED BY <3>2, <3>3
  <2>5. /\ PacketsInOrder' /\ 1 \in 1 .. Len(pipe) /\ Head(pipe) = pipe[1]
        /\ \A f \in Frames : MadeBefore(f) \/ f[1] = Head(pipe) => MadeBefore(f)'
    BY <1>0, <1>4, PipeTail
  <2>6. \A f \in Made' : MadeBefore(f)'
    <3>1. \A f \in Made' : f \in Made \/ \E i \in 1 .. n : f = toSend'[i]
      BY <1>0, <2>2 DEF Made
    <3>2. \A f \in Made : MadeBefore(f)'
      BY <1>0, <2>5 DEF OrderInv
    <3>3. \A i \in 1 .. n : \A f \in Frames : f = toSend'[i] => MadeBefore(f)'
      BY <2>4, <2>5
    <3> QED BY <2>4, <3>1, <3>2, <3>3
  <2>7. Ordered(toSend')
    BY <2>2 DEF Ordered, Before
  <2>8. \A i \in 1 .. Len(frames), j \in 1 .. n : Before(frames[i], toSend'[j])
    <3> TAKE i \in 1 .. Len(frames), j \in 1 .. n
    <3>1. frames[i][1] < pipe[1]
      BY <1>0, <2>5 DEF OrderInv, MadeBefore
    <3> QED BY <2>4, <2>5, <3>1 DEF Before
  <2> QED BY <1>0, <2>2, <2>5, <2>6, <2>7, <2>8 DEF OrderInv
<1> QED BY <1>1, <1>2, <1>3, <1>4 DEF ReadPipe, RejectPacket, FailParser, pipeVars

LEMMA SendOrder == TypeOK /\ OrderInv /\ SendFrame => OrderInv'
<1> SUFFICES ASSUME TypeOK, OrderInv, SendFrame PROVE OrderInv'
  OBVIOUS
<1>1. UNCHANGED <<packets, pktChan, feeder, held, pipe>>
  BY DEF SendFrame, FailParser, feederVars, pipeVars
<1>2. PacketsInOrder' /\ \A f \in Frames : MadeBefore(f) => MadeBefore(f)'
  BY <1>1 DEF OrderInv, PacketsInOrder, MadeBefore
<1>3. /\ Head(toSend) \in Frames /\ Head(toSend) = toSend[1] /\ 1 \in 1 .. Len(toSend)
      /\ Len(Tail(toSend)) \in Nat /\ Ordered(Tail(toSend))
      /\ \A i \in 1 .. Len(Tail(toSend)) :
           /\ i + 1 \in 1 .. Len(toSend) /\ Tail(toSend)[i] = toSend[i + 1]
           /\ Before(Head(toSend), Tail(toSend)[i])
  BY OrderTypes, TailElements, TailOrdered DEF SendFrame, OrderInv
<1>4. /\ frames' \in {frames, Append(frames, Head(toSend))}
      /\ toSend' \in {<<>>, Tail(toSend)}
      /\ frames' # frames => toSend' = Tail(toSend)
  BY DEF SendFrame, FailParser
<1>5. /\ Len(frames) \in Nat /\ Len(frames') \in Nat
      /\ \A i \in 1 .. Len(frames') :
           \/ i \in 1 .. Len(frames) /\ frames'[i] = frames[i]
           \/ frames'[i] = toSend[1] /\ toSend' = Tail(toSend)
      /\ Ordered(frames')
  <2>1. CASE frames' = frames
    BY <2>1, OrderTypes DEF OrderInv
  <2>2. CASE frames' = Append(frames, Head(toSend)) /\ toSend' = Tail(toSend)
    <3>1. \A i \in 1 .. Len(frames) : Before(frames[i], Head(toSend))
      BY <1>3 DEF OrderInv
    <3>2. Ordered(frames')
      BY <1>3, <2>2, <3>1, OrderTypes, AppendOrdered DEF OrderInv
    <3> QED BY <1>3, <2>2, <3>2, OrderTypes, AppendElements
  <2> QED BY <1>4, <2>1, <2>2
<1>6. \A i \in 1 .. Len(toSend') :
        i + 1 \in 1 .. Len(toSend) /\ toSend'[i] = toSend[i + 1] /\ toSend' = Tail(toSend)
  BY <1>3, <1>4
<1>7. Ordered(toSend')
  <2>1. CASE toSend' = <<>>
    BY <2>1 DEF Ordered
  <2>2. CASE toSend' = Tail(toSend)
    BY <1>3, <2>2
  <2> QED BY <1>4, <2>1, <2>2
<1>8. Made' \subseteq Made /\ Made \subseteq Frames
  <2>1. \A i \in 1 .. Len(frames') : frames'[i] \in Made
    BY <1>3, <1>5 DEF Made
  <2>2. \A i \in 1 .. Len(toSend') : toSend'[i] \in Made
    BY <1>6 DEF Made
  <2>3. \A f \in Made' : f \in Made
    BY <2>1, <2>2 DEF Made
  <2>4. Made \subseteq Frames
    BY DEF Made, TypeOK
  <2> QED BY <2>3, <2>4
<1>9. \A i \in 1 .. Len(frames'), j \in 1 .. Len(toSend') : Before(frames'[i], toSend'[j])
  BY <1>3, <1>5, <1>6 DEF OrderInv
<1> QED BY <1>2, <1>5, <1>7, <1>8, <1>9 DEF OrderInv

LEMMA OrderStep == TypeOK /\ OrderInv /\ [Next]_vars => OrderInv'
<1> SUFFICES ASSUME TypeOK, OrderInv, [Next]_vars PROVE OrderInv'
  OBVIOUS
<1>1. CASE UNCHANGED <<packets, pktChan, feeder, held, pipe, toSend, frames>>
  <2>1. PacketsInOrder' /\ \A f \in Frames : MadeBefore(f) => MadeBefore(f)'
    BY <1>1 DEF OrderInv, PacketsInOrder, MadeBefore
  <2> QED BY <1>1, <2>1, FramesKept
<1>2. CASE UpstreamDone \/ HavenEnds \/ StartNext \/ FramesSent \/ Consumer
           \/ CancelCtx \/ CloseBuffer \/ WaitDone \/ UNCHANGED vars
  BY <1>1, <1>2
  DEF UpstreamDone, HavenEnds, StartNext, FramesSent, Consumer, LeaveWithHaven,
      Receive, ReceiveError, ReceiveClosed, CancelCtx, CloseBuffer, WaitDone, vars, feederVars, pipeVars,
      parserVars
<1> QED
  BY <1>2, PacketOrder, FeederOrder, ReadOrder, SendOrder DEF Next, Parser

(* Frames come out in the order of the stream, none twice: the feeder, the  *)
(* pipe, the loop of sends and the channel of frames are all first in first *)
(* out, and what each drops makes no other overtake.                        *)
THEOREM OrderKept == Spec => []FramesInOrder
<1>1. Init => TypeOK /\ OrderInv
  BY InitInv
<1>2. TypeOK /\ OrderInv /\ [Next]_vars => (TypeOK /\ OrderInv)'
  BY TypeStep, OrderStep
<1>3. OrderInv => FramesInOrder
  BY DEF OrderInv, Ordered, FramesInOrder
<1> QED BY <1>1, <1>2, <1>3, PTL DEF Spec
=============================================================================
