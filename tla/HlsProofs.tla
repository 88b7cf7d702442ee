------------------------------ MODULE HlsProofs ------------------------------
(***************************************************************************)
(* Proofs about HLS: the connection that feeds the muxer, for channels of  *)
(* any capacity and any number of frames, and the server that shares it,   *)
(* for any number of requests and sessions.                                *)
(***************************************************************************)
EXTENDS HlsConnection, HlsServer, FiniteSetTheorems, SequenceTheorems, TLAPS

-----------------------------------------------------------------------------
(* The connection: its invariant.                                           *)

(* The relay does not run before Write starts it, and what it sends is a    *)
(* frame it has taken.                                                      *)
RelayInv ==
  /\ write = "idle" => relay = "none"
  /\ \A t \in Tracks : relay = t => got[t] > 0

ConnInv == ConnTypeOK /\ RelayInv /\ NothingSkipped

Number == Nat \ {0}

FirstFrames(n) == [i \in 1 .. n |-> i]

-----------------------------------------------------------------------------
(* Sequences.                                                               *)

(* A frame that goes from the head of a channel to the end of the muxer's   *)
(* leaves the two together as they were (MuxFrame).                         *)
LEMMA MovedAcross ==
  ASSUME NEW s \in Seq(Number), NEW c \in Seq(Number), c # <<>>,
         NEW r \in Seq(Number)
  PROVE  /\ Append(s, Head(c)) \o Tail(c) \o r = s \o c \o r
         /\ Append(s, Head(c)) \in Seq(Number)
         /\ Tail(c) \in Seq(Number)
         /\ Len(Tail(c)) = Len(c) - 1
<1>1. Head(c) \in Number /\ Tail(c) \in Seq(Number) /\ Len(Tail(c)) = Len(c) - 1
  BY HeadTailProperties
<1>2. Append(s, Head(c)) \in Seq(Number)
  BY <1>1, AppendProperties
<1>3. Append(s, Head(c)) \o Tail(c) = s \o c
  BY <1>1
<1> QED
  BY <1>1, <1>2, <1>3

(* A frame sent goes from the relay to the end of the channel (SendFrame).  *)
LEMMA MovedIn ==
  ASSUME NEW s \in Seq(Number), NEW c \in Seq(Number), NEW x \in Number
  PROVE  /\ s \o Append(c, x) \o << >> = s \o c \o <<x>>
         /\ Append(c, x) \in Seq(Number)
         /\ Len(Append(c, x)) = Len(c) + 1
<1>1. Append(c, x) \in Seq(Number) /\ Len(Append(c, x)) = Len(c) + 1
  BY AppendProperties
<1>2. s \o Append(c, x) \o << >> = s \o c \o <<x>>
  OBVIOUS
<1> QED
  BY <1>1, <1>2

(* The next frame completes what was complete (TakeFrame).                  *)
LEMMA OneMore ==
  ASSUME NEW s \in Seq(Number), NEW c \in Seq(Number), NEW n \in Nat,
         s \o c \o << >> = FirstFrames(n)
  PROVE  s \o c \o <<n + 1>> = FirstFrames(n + 1)
<1> USE DEF FirstFrames
<1> DEFINE q == s \o c
<1>1. q \in Seq(Number)
  BY ConcatProperties
<1>2. q = [i \in 1 .. n |-> i]
  BY <1>1
<1>3. Len(q) = n
  BY <1>2
<1> HIDE DEF q
<1>4. q \o <<n + 1>> = [i \in 1 .. n + 1 |-> i]
  BY <1>1, <1>2, <1>3
<1> QED
  BY <1>4 DEF q

-----------------------------------------------------------------------------
(* The invariant.                                                           *)

LEMMA ConnInitHolds == ConnInit => ConnInv
<1> SUFFICES ASSUME ConnInit PROVE ConnInv
  OBVIOUS
<1>1. << >> \in Seq(Nat \ {0}) /\ Len(<< >>) = 0
  OBVIOUS
<1>2. ConnTypeOK
  <2>1. /\ channel \in [Tracks -> Seq(Nat \ {0})]
        /\ muxed \in [Tracks -> Seq(Nat \ {0})]
    BY <1>1 DEF ConnInit
  <2>2. \A t \in Tracks : Len(channel[t]) <= ChCap
    BY <1>1, ChannelAssumption DEF ConnInit
  <2>3. waiting \in [Tracks -> 0 .. ChCap] /\ got \in [Tracks -> Nat]
    BY ChannelAssumption DEF ConnInit
  <2> QED
    BY <2>1, <2>2, <2>3 DEF ConnInit, ConnTypeOK
<1>3. RelayInv
  BY DEF ConnInit, RelayInv, Tracks
<1>4. << >> \o << >> \o << >> = [i \in 1 .. 0 |-> i]
  OBVIOUS
<1>5. NothingSkipped
  BY <1>4 DEF ConnInit, NothingSkipped, Tracks
<1> QED
  BY <1>2, <1>3, <1>5 DEF ConnInv

(* What the relay is sending of track t.                                    *)
InHand(t) == IF relay = t THEN <<got[t]>> ELSE << >>

LEMMA TakeFrameInv ==
  ASSUME ConnInv, NEW t \in Tracks, TakeFrame(t)
  PROVE  ConnInv'
<1> USE DEF ConnInv, TakeFrame
<1>1. waiting[t] - 1 \in 0 .. ChCap /\ got[t] + 1 \in Number
  BY ChannelAssumption DEF ConnTypeOK, Number
<1>2. ConnTypeOK'
  BY <1>1 DEF ConnTypeOK, Number
<1>3. RelayInv'
  BY <1>1 DEF RelayInv, ConnTypeOK, Number, Tracks
<1>4. ASSUME NEW u \in Tracks
      PROVE  muxed'[u] \o channel'[u] \o InHand(u)' = [i \in 1 .. got'[u] |-> i]
  <2>1. InHand(u) = << >> /\ muxed[u] \o channel[u] \o << >> = [i \in 1 .. got[u] |-> i]
    BY DEF InHand, NothingSkipped, Tracks
  <2>2. CASE u = t
    <3>1. InHand(u)' = <<got[u] + 1>> /\ got'[u] = got[u] + 1
      BY <2>2 DEF InHand, ConnTypeOK
    <3>2. muxed[u] \in Seq(Number) /\ channel[u] \in Seq(Number) /\ got[u] \in Nat
      BY DEF ConnTypeOK, Number
    <3>3. muxed[u] \o channel[u] \o <<got[u] + 1>> = [i \in 1 .. got[u] + 1 |-> i]
      <4>1. muxed[u] \o channel[u] \o << >> = FirstFrames(got[u])
        BY <2>1 DEF FirstFrames
      <4>2. muxed[u] \o channel[u] \o <<got[u] + 1>> = FirstFrames(got[u] + 1)
        BY <4>1, <3>2, OneMore
      <4> QED
        BY <4>2 DEF FirstFrames
    <3> QED
      BY <3>1, <3>3
  <2>3. CASE u # t
    <3>1. InHand(u)' = << >> /\ got'[u] = got[u]
      BY <2>3 DEF InHand, ConnTypeOK
    <3> QED
      BY <2>1, <3>1
  <2> QED
    BY <2>2, <2>3
<1> QED
  BY <1>2, <1>3, <1>4 DEF NothingSkipped, InHand

LEMMA SendFrameInv ==
  ASSUME ConnInv, NEW t \in Tracks, SendFrame(t)
  PROVE  ConnInv'
<1> USE DEF ConnInv, SendFrame
<1>1. muxed[t] \in Seq(Number) /\ channel[t] \in Seq(Number) /\ got[t] \in Number
  BY DEF ConnTypeOK, RelayInv, Number
<1>2. /\ Append(channel[t], got[t]) \in Seq(Number)
      /\ Len(Append(channel[t], got[t])) <= ChCap
  <2>1. Len(channel[t]) + 1 <= ChCap
    BY <1>1, LenProperties, ChannelAssumption
  <2> QED
    BY <1>1, <2>1, MovedIn
<1>3. ConnTypeOK'
  <2>1. channel' \in [Tracks -> Seq(Nat \ {0})]
    BY <1>2 DEF ConnTypeOK, Number
  <2>2. \A u \in Tracks : Len(channel'[u]) <= ChCap
    BY <1>2 DEF ConnTypeOK
  <2> QED
    BY <2>1, <2>2 DEF ConnTypeOK, upstream
<1>4. RelayInv'
  BY DEF RelayInv, Tracks
<1>5. ASSUME NEW u \in Tracks
      PROVE  muxed'[u] \o channel'[u] \o InHand(u)' = [i \in 1 .. got'[u] |-> i]
  <2>1. InHand(u)' = << >> /\ UNCHANGED <<muxed, got>>
    BY DEF InHand, Tracks
  <2>2. muxed[u] \o channel[u] \o InHand(u) = [i \in 1 .. got[u] |-> i]
    BY DEF InHand, NothingSkipped
  <2>3. CASE u = t
    <3>1. channel'[u] = Append(channel[u], got[u]) /\ InHand(u) = <<got[u]>>
      BY <2>3 DEF InHand, ConnTypeOK
    <3>2. muxed[u] \o Append(channel[u], got[u]) \o << >>
            = muxed[u] \o channel[u] \o <<got[u]>>
      BY <1>1, <2>3, MovedIn
    <3> QED
      BY <2>1, <2>2, <3>1, <3>2
  <2>4. CASE u # t
    BY <2>1, <2>2, <2>4 DEF InHand, ConnTypeOK
  <2> QED
    BY <2>3, <2>4
<1> QED
  BY <1>3, <1>4, <1>5 DEF NothingSkipped, InHand

LEMMA MuxFrameInv ==
  ASSUME ConnInv, NEW t \in Tracks, MuxFrame(t)
  PROVE  ConnInv'
<1> USE DEF ConnInv, MuxFrame
<1>1. /\ muxed[t] \in Seq(Number) /\ channel[t] \in Seq(Number)
      /\ channel[t] # << >>
      /\ InHand(t) \in Seq(Number)
  <2>1. muxed[t] \in Seq(Number) /\ channel[t] \in Seq(Number)
    BY DEF ConnTypeOK, Number
  <2>2. relay = t => got[t] \in Number
    BY DEF ConnTypeOK, RelayInv, Number
  <2>3. InHand(t) \in Seq(Number)
    BY <2>2 DEF InHand
  <2> QED
    BY <2>1, <2>3
<1>2. /\ Append(muxed[t], Head(channel[t])) \in Seq(Number)
      /\ Tail(channel[t]) \in Seq(Number)
      /\ Len(Tail(channel[t])) <= ChCap
  <2>1. Len(channel[t]) <= ChCap /\ Len(channel[t]) \in Nat
    BY <1>1, LenProperties DEF ConnTypeOK
  <2> QED
    BY <1>1, <2>1, MovedAcross, ChannelAssumption
<1>3. ConnTypeOK'
  <2>1. /\ channel' \in [Tracks -> Seq(Nat \ {0})]
        /\ muxed' \in [Tracks -> Seq(Nat \ {0})]
    BY <1>2 DEF ConnTypeOK, Number
  <2>2. \A u \in Tracks : Len(channel'[u]) <= ChCap
    BY <1>2 DEF ConnTypeOK
  <2> QED
    BY <2>1, <2>2 DEF ConnTypeOK, upstream
<1>4. RelayInv'
  BY DEF RelayInv
<1>5. ASSUME NEW u \in Tracks
      PROVE  muxed'[u] \o channel'[u] \o InHand(u)' = [i \in 1 .. got'[u] |-> i]
  <2>1. InHand(u)' = InHand(u) /\ got'[u] = got[u]
    BY DEF InHand
  <2>2. muxed[u] \o channel[u] \o InHand(u) = [i \in 1 .. got[u] |-> i]
    BY DEF InHand, NothingSkipped
  <2>3. CASE u = t
    <3>1. /\ muxed'[u] = Append(muxed[u], Head(channel[u]))
          /\ channel'[u] = Tail(channel[u])
      BY <2>3 DEF ConnTypeOK
    <3>2. Append(muxed[u], Head(channel[u])) \o Tail(channel[u]) \o InHand(u)
            = muxed[u] \o channel[u] \o InHand(u)
      <4> DEFINE s == muxed[u]
                 c == channel[u]
                 r == InHand(u)
      <4>1. s \in Seq(Number) /\ c \in Seq(Number) /\ c # << >> /\ r \in Seq(Number)
        BY <1>1, <2>3
      <4> HIDE DEF s, c, r, ConnInv, MuxFrame
      <4>2. Append(s, Head(c)) \o Tail(c) \o r = s \o c \o r
        BY <4>1, MovedAcross
      <4> QED BY <4>2 DEF s, c, r
    <3> QED
      BY <2>1, <2>2, <3>1, <3>2
  <2>4. CASE u # t
    BY <2>1, <2>2, <2>4 DEF ConnTypeOK
  <2> QED
    BY <2>3, <2>4
<1> QED
  BY <1>3, <1>4, <1>5 DEF NothingSkipped, InHand

(* The other steps touch no frame that was taken.                           *)
LEMMA ConnNextHolds == ConnInv /\ [ConnNext]_connVars => ConnInv'
<1> SUFFICES ASSUME ConnInv, [ConnNext]_connVars PROVE ConnInv'
  OBVIOUS
<1> DEFINE Kept == UNCHANGED <<got, channel, muxed>>
<1>1. ASSUME Kept, relay' = relay \/ (relay \notin Tracks /\ relay' \notin Tracks)
      PROVE  NothingSkipped'
  BY <1>1 DEF ConnInv, NothingSkipped
<1>2. ASSUME NEW t \in Tracks, Feed(t) \/ EndFeed(t) \/ Drain(t)
      PROVE  ConnInv'
  <2>1. Kept /\ UNCHANGED <<relay, write>>
    BY <1>2 DEF Feed, EndFeed, Drain, relayVars
  <2>2. waiting' \in [Tracks -> 0 .. ChCap]
    <3>1. waiting \in [Tracks -> 0 .. ChCap] /\ waiting[t] \in 0 .. ChCap
      BY DEF ConnInv, ConnTypeOK
    <3>2. CASE Feed(t)
      <4>1. waiting[t] + 1 \in 0 .. ChCap
        BY <3>1, <3>2, ChannelAssumption DEF Feed
      <4> QED BY <3>1, <3>2, <4>1 DEF Feed
    <3>3. CASE Drain(t)
      <4>1. waiting[t] - 1 \in 0 .. ChCap
        BY <3>1, <3>3, ChannelAssumption DEF Drain
      <4> QED BY <3>1, <3>3, <4>1 DEF Drain
    <3> QED BY <1>2, <3>1, <3>2, <3>3 DEF EndFeed
  <2>3. ConnTypeOK'
    BY <1>2, <2>2 DEF ConnInv, ConnTypeOK, Feed, EndFeed, Drain, relayVars
  <2> QED
    BY <1>1, <2>1, <2>3 DEF ConnInv, RelayInv
<1>3. CASE UpstreamDone \/ CancelCtx \/ WaitDone \/ CloseMuxer
  <2>1. Kept /\ UNCHANGED <<relay, write>>
    BY <1>3 DEF UpstreamDone, CancelCtx, WaitDone, CloseMuxer, relayVars
  <2>2. ConnTypeOK'
    BY <1>3 DEF ConnInv, ConnTypeOK, UpstreamDone, CancelCtx, WaitDone, CloseMuxer,
                relayVars, upstream
  <2> QED
    BY <1>1, <2>1, <2>2 DEF ConnInv, RelayInv
<1>4. CASE EndRelay \/ StartWrite
  <2>1. Kept /\ relay \notin Tracks /\ relay' \notin Tracks
    BY <1>4 DEF EndRelay, StartWrite, ConnInv, RelayInv, Tracks
  <2>2. ConnTypeOK'
    BY <1>4 DEF ConnInv, ConnTypeOK, EndRelay, StartWrite, upstream
  <2>3. RelayInv'
    BY <1>4, <2>1 DEF ConnInv, RelayInv, EndRelay, StartWrite
  <2> QED
    BY <1>1, <2>1, <2>2, <2>3 DEF ConnInv
<1>5. CASE MetadataReceived \/ GiveUp \/ PrimeMuxer \/ StartPumps
  <2>1. Kept /\ UNCHANGED relay /\ write' # "idle"
    BY <1>5 DEF MetadataReceived, GiveUp, PrimeMuxer, StartPumps, relayVars
  <2>2. ConnTypeOK'
    BY <1>5 DEF ConnInv, ConnTypeOK, MetadataReceived, GiveUp, PrimeMuxer, StartPumps,
                relayVars, upstream
  <2> QED
    BY <1>1, <2>1, <2>2 DEF ConnInv, RelayInv
<1>6. ASSUME NEW t \in Tracks, EndPump(t)
      PROVE  ConnInv'
  <2>1. Kept /\ UNCHANGED <<relay, write>>
    BY <1>6 DEF EndPump, relayVars
  <2>2. ConnTypeOK'
    BY <1>6 DEF ConnInv, ConnTypeOK, EndPump, relayVars, upstream
  <2> QED
    BY <1>1, <2>1, <2>2 DEF ConnInv, RelayInv
<1>7. CASE UNCHANGED connVars
  BY <1>7 DEF connVars, upstream, relayVars, ConnInv, ConnTypeOK, RelayInv, NothingSkipped
<1> QED
  BY <1>2, <1>3, <1>4, <1>5, <1>6, <1>7, TakeFrameInv, SendFrameInv, MuxFrameInv
     DEF ConnNext, Write

-----------------------------------------------------------------------------

LEMMA ConnAlwaysHolds == ConnSpec => []ConnInv
BY ConnInitHolds, ConnNextHolds, PTL DEF ConnSpec

(* Channels keep within their capacity, and every variable has the values   *)
(* the code can give it.                                                    *)
THEOREM ConnTypeCorrect == ConnSpec => []ConnTypeOK
<1>1. ConnInv => ConnTypeOK
  BY DEF ConnInv
<1> QED
  BY <1>1, ConnAlwaysHolds, PTL

(* The search for the metadata costs no frame and changes no order, however *)
(* the relay, the pumps, the publisher and Close interleave.                *)
THEOREM NoFrameSkipped == ConnSpec => []NothingSkipped
<1>1. ConnInv => NothingSkipped
  BY DEF ConnInv
<1> QED
  BY <1>1, ConnAlwaysHolds, PTL

(* A Close that waits for a relay which nobody will make room for waits for *)
(* ever: the alternative of CloseEnds is final.                             *)
THEOREM AbandonedForGood == ConnSpec => [](Abandoned => []Abandoned)
<1>1. ConnTypeOK /\ Abandoned /\ [ConnNext]_connVars => Abandoned'
  <2> SUFFICES ASSUME ConnTypeOK, Abandoned, [ConnNext]_connVars PROVE Abandoned'
    OBVIOUS
  <2>0. /\ relay \in Tracks /\ Len(channel[relay]) = ChCap /\ pump[relay] # "loop"
        /\ write \in {"returned", "failed", "panicked"} /\ close = "wait"
        /\ ~(Len(channel[relay]) < ChCap) /\ "select" \notin Tracks /\ "ended" \notin Tracks
        /\ "none" \notin Tracks
    BY ChannelAssumption DEF Abandoned, Tracks
  <2>1. ASSUME UNCHANGED <<relay, channel, write, close>>,
               pump'[relay] = pump[relay] \/ pump'[relay] = "ended"
        PROVE  Abandoned'
    BY <2>0, <2>1 DEF Abandoned
  <2>2. ASSUME NEW t \in Tracks, Feed(t) \/ EndFeed(t) \/ Drain(t)
        PROVE  Abandoned'
    BY <2>1, <2>2 DEF Feed, EndFeed, Drain, relayVars
  <2>3. ASSUME NEW t \in Tracks, TakeFrame(t) \/ SendFrame(t)
        PROVE  FALSE
    BY <2>0, <2>3 DEF TakeFrame, SendFrame
  <2>4. CASE EndRelay \/ Write \/ WaitDone \/ CancelCtx \/ CloseMuxer
    BY <2>0, <2>4
    DEF EndRelay, Write, StartWrite, MetadataReceived, GiveUp, PrimeMuxer, StartPumps,
        WaitDone, GoroutinesEnded, CancelCtx, CloseMuxer
  <2>5. ASSUME NEW t \in Tracks, MuxFrame(t)
        PROVE  Abandoned'
    <3>1. t # relay /\ channel'[relay] = channel[relay]
      BY <2>0, <2>5 DEF MuxFrame, ConnTypeOK
    <3> QED BY <2>0, <2>5, <3>1 DEF MuxFrame, Abandoned
  <2>6. ASSUME NEW t \in Tracks, EndPump(t)
        PROVE  Abandoned'
    <3>1. pump'[relay] = pump[relay] \/ pump'[relay] = "ended"
      BY <2>0, <2>6 DEF EndPump, ConnTypeOK
    <3> QED BY <2>1, <2>6, <3>1 DEF EndPump, relayVars
  <2>7. CASE UpstreamDone \/ UNCHANGED connVars
    BY <2>1, <2>7 DEF UpstreamDone, connVars, relayVars, upstream
  <2> QED BY <2>2, <2>3, <2>4, <2>5, <2>6, <2>7 DEF ConnNext
<1> QED BY <1>1, ConnTypeCorrect, PTL DEF ConnSpec

-----------------------------------------------------------------------------
(* The server: its invariant.                                               *)

(* A request that makes a connection holds connMtx until it hands it over,  *)
(* and there is no other connection meanwhile.                              *)
MakerAlone ==
  \A r \in Requests : req[r] \in Holding => connMtx = r /\ connection = None

(* Whoever is watched is the server's connection.                           *)
WatchedIsHeld == \A c \in Requests : monitor[c] = "wait" => connection = c

(* A connection the Haven has listed is closed when the session's viewers   *)
(* are, or was listed too late for that.                                    *)
Listed ==
  \A r \in Requests :
    req[r] = "subscribe" =>
      \/ r \in connDone \cup overdue
      \/ r \in viewers /\ stage # "viewersClosed"

(* So it is when it is subscribed, and the server's.                        *)
Subscribed ==
  \A r \in Requests :
    req[r] = "write" \/ connection = r =>
      \/ r \in connDone \cup overdue
      \/ r \in viewers /\ feed[r] = session /\ stage \in {"live", "clearing"}

(* A connection that clearPublisher waits for was cancelled, and both its   *)
(* locks are held.                                                          *)
VictimHeld == victim # None => victim \in connDone /\ stage = "clearing"

IInv == TypeOK /\ MakerAlone /\ WatchedIsHeld /\ Listed /\ Subscribed /\ VictimHeld

LEMMA InitHolds == Init => IInv
BY NoneAssumption, SessionAssumption
DEF Init, IInv, TypeOK, MakerAlone, WatchedIsHeld, Listed, Subscribed, VictimHeld, Holding

(* The steps of the Haven touch no request and no lock.                     *)
LEMMA HavenHolds ==
  ASSUME IInv, StartSession \/ StartClear \/ Clear
  PROVE  IInv'
<1> USE SessionAssumption DEF IInv, TypeOK, ClearSteps
<1>0. UNCHANGED <<req, serverVars>>
  BY DEF StartSession, StartClear, Clear, CloseViewers, CloseBuffer
<1>1. MakerAlone' /\ WatchedIsHeld'
  BY <1>0 DEF serverVars, MakerAlone, WatchedIsHeld
<1> USE DEF VictimHeld
<1>2. CASE StartSession
  <2>1. session' \in 0 .. MaxSessions
    BY <1>2 DEF StartSession
  <2> QED BY <1>0, <1>1, <1>2, <2>1
          DEF StartSession, serverVars, viewerVars, Listed, Subscribed
<1>3. CASE StartClear
  BY <1>0, <1>1, <1>3 DEF StartClear, serverVars, viewerVars, Listed, Subscribed
<1>4. CASE CloseViewers
  <2>1. UNCHANGED <<session, feed, hung, overdue>> /\ stage = "clearing"
    BY <1>4 DEF CloseViewers
  <2>2. CASE CloseNext
    BY <1>0, <1>1, <2>1, <2>2 DEF CloseNext, serverVars, Listed, Subscribed
  <2>3. CASE NextClosed
    BY <1>0, <1>1, <2>1, <2>3 DEF NextClosed, serverVars, Listed, Subscribed
  <2>4. CASE UnlockViewers
    BY <1>0, <1>1, <2>1, <2>4 DEF UnlockViewers, serverVars, Listed, Subscribed
  <2> QED BY <1>4, <2>2, <2>3, <2>4 DEF CloseViewers
<1>5. CASE CloseBuffer
  BY <1>0, <1>1, <1>5 DEF CloseBuffer, serverVars, viewerVars, Listed, Subscribed
<1> QED BY <1>2, <1>3, <1>4, <1>5 DEF Clear

(* A request that does not hold connMtx gets it only when nobody does.      *)
LEMMA OutsideHolds ==
  ASSUME IInv, NEW r \in Requests, Arrive(r) \/ Route(r) \/ Lock(r) \/ Use(r)
  PROVE  IInv'
<1> USE DEF IInv, TypeOK, Goes, Holding, Final, serverVars, havenVars, viewerVars,
            VictimHeld
<1>1. CASE Arrive(r)
  BY <1>1 DEF Arrive, MakerAlone, WatchedIsHeld, Listed, Subscribed
<1>2. CASE Route(r)
  BY <1>2 DEF Route, MakerAlone, WatchedIsHeld, Listed, Subscribed
<1>3. CASE Use(r)
  BY <1>3 DEF Use, MakerAlone, WatchedIsHeld, Listed, Subscribed
<1>4. CASE Lock(r)
  <2>0. TypeOK'
    BY <1>4 DEF Lock
  <2>1. \A q \in Requests : req[q] \notin Holding
    BY <1>4, NoneAssumption DEF Lock, MakerAlone
  <2>2. CASE connection # None /\ Goes(r, "lock", "use") /\ UNCHANGED connMtx
    BY <1>4, <2>0, <2>1, <2>2 DEF Lock, MakerAlone, WatchedIsHeld, Listed, Subscribed
  <2>3. CASE connection = None /\ Goes(r, "lock", "check") /\ connMtx' = r
    BY <1>4, <2>0, <2>1, <2>3 DEF Lock, MakerAlone, WatchedIsHeld, Listed, Subscribed
  <2> QED BY <1>4, <2>2, <2>3 DEF Lock
<1> QED BY <1>1, <1>2, <1>3, <1>4

(* The one that holds it is followed through addViewer.                     *)
LEMMA MakerHolds ==
  ASSUME IInv, NEW r \in Requests, AddConnection(r)
  PROVE  IInv'
<1> USE DEF IInv, TypeOK, Goes, Final, serverVars, havenVars, viewerVars, Refuse, Panic,
            VictimHeld
<1>0. /\ req[r] \in Holding
      /\ \A q \in Requests : q # r => req[q] \notin Holding
      /\ connection = None
  BY DEF AddConnection, CheckPublisher, ListViewer, Subscribe, WriteFails, Hook,
         Holding, MakerAlone
<1>1. CASE CheckPublisher(r)
  BY <1>0, <1>1
  DEF CheckPublisher, Holding, MakerAlone, WatchedIsHeld, Listed, Subscribed
<1>2. CASE ListViewer(r)
  BY <1>0, <1>2
  DEF ListViewer, Holding, MakerAlone, WatchedIsHeld, Listed, Subscribed
<1>3. CASE Subscribe(r)
  BY <1>0, <1>3
  DEF Subscribe, Holding, MakerAlone, WatchedIsHeld, Listed, Subscribed, ClearSteps
<1>4. CASE WriteFails(r)
  BY <1>0, <1>4
  DEF WriteFails, Holding, MakerAlone, WatchedIsHeld, Listed, Subscribed
<1>5. CASE Hook(r)
  <2>1. \A c \in Requests : monitor[c] # "wait"
    BY <1>0, NoneAssumption DEF WatchedIsHeld
  <2>2. TypeOK' /\ MakerAlone'
    BY <1>0, <1>5 DEF Hook, Holding, MakerAlone
  <2>3. WatchedIsHeld'
    BY <1>5, <2>1 DEF Hook, WatchedIsHeld
  <2>4. Listed'
    BY <1>5 DEF Hook, Listed
  <2>5. Subscribed'
    BY <1>5 DEF Hook, Subscribed
  <2>6. VictimHeld'
    BY <1>5 DEF Hook
  <2> QED BY <2>2, <2>3, <2>4, <2>5, <2>6
<1> QED BY <1>1, <1>2, <1>3, <1>4, <1>5 DEF AddConnection

(* A connection is forgotten with its goroutine.                            *)
LEMMA ForgetHolds ==
  ASSUME IInv, NEW c \in Requests, Forget(c)
  PROVE  IInv'
<1> USE DEF IInv, TypeOK, Forget, havenVars, viewerVars, VictimHeld
<1>1. connection = c
  BY DEF WatchedIsHeld
<1>2. TypeOK'
  OBVIOUS
<1>3. MakerAlone'
  BY NoneAssumption DEF MakerAlone
<1>4. WatchedIsHeld'
  BY <1>1 DEF WatchedIsHeld
<1>5. Listed' /\ Subscribed'
  BY NoneAssumption DEF Listed, Subscribed
<1> QED BY <1>2, <1>3, <1>4, <1>5

LEMMA StepHolds ==
  ASSUME IInv, [Next]_vars
  PROVE  IInv'
<1>1. CASE Close
  BY <1>1 DEF Close, IInv, TypeOK, havenVars, viewerVars, MakerAlone, WatchedIsHeld,
              Listed, Subscribed, VictimHeld
<1>2. CASE UNCHANGED vars
  BY <1>2 DEF vars, IInv, TypeOK, serverVars, havenVars, viewerVars, MakerAlone,
              WatchedIsHeld, Listed, Subscribed, VictimHeld
<1>3. ASSUME NEW c \in Requests, RelayHangs(c) PROVE IInv'
  BY <1>3 DEF RelayHangs, IInv, TypeOK, serverVars, havenVars, MakerAlone, WatchedIsHeld,
              Listed, Subscribed, VictimHeld
<1> QED BY <1>1, <1>2, <1>3, HavenHolds, OutsideHolds, MakerHolds, ForgetHolds DEF Next

LEMMA AlwaysHolds == Spec => []IInv
<1>1. Init => IInv
  BY InitHolds
<1>2. IInv /\ [Next]_vars => IInv'
  BY StepHolds
<1> QED BY <1>1, <1>2, PTL DEF Spec

(* Every variable has the values the code can give it.                      *)
THEOREM TypeCorrect == Spec => []TypeOK
<1>1. IInv => TypeOK
  BY DEF IInv
<1> QED BY <1>1, AlwaysHolds, PTL

(* The viewers share one connection, however many requests arrive at once.  *)
THEOREM ConnectionIsOne == Spec => []OneConnection
<1>1. ASSUME IInv PROVE OneConnection
  <2> DEFINE S == {c \in Requests : monitor[c] = "wait" /\ ~Done(c)}
  <2>1. S \subseteq {connection}
    BY <1>1 DEF IInv, WatchedIsHeld
  <2>2. IsFiniteSet({connection}) /\ Cardinality({connection}) = 1
    BY FS_Singleton
  <2>3. Cardinality(S) <= 1
    BY <2>1, <2>2, FS_Subset
  <2> QED BY <2>3 DEF OneConnection
<1> QED BY <1>1, AlwaysHolds, PTL

(* The connection the requests are handed to reads the session there is, or *)
(* is done, or came too late to be closed with its session.                 *)
THEOREM ConnectionIsFed == Spec => []FedOrDone
<1>1. ASSUME IInv PROVE FedOrDone
  <2> SUFFICES ASSUME connection # None
               PROVE  \/ Done(connection)
                      \/ feed[connection] = session /\ stage \in {"live"} \cup ClearSteps
                      \/ connection \in overdue
    BY DEF FedOrDone
  <2>1. connection \in Requests
    BY <1>1 DEF IInv, TypeOK
  <2> QED BY <1>1, <2>1 DEF IInv, Subscribed, Done, ClearSteps
<1> QED BY <1>1, AlwaysHolds, PTL

(* When Close has waited for the requests there are none, and it returns    *)
(* with connMtx free.                                                       *)
ShutDown ==
  /\ closing \in {"waiting", "locking", "closed"} => InFlight = {}
  /\ closing = "closed" => connMtx = None

(* Requests that wait for connMtx.                                          *)
Waiting == {r \in Requests : req[r] = "lock"}

LEMMA ShutDownHolds == IInv /\ ShutDown /\ [Next]_vars => ShutDown'
<1> SUFFICES ASSUME IInv, ShutDown, [Next]_vars PROVE ShutDown'
  OBVIOUS
<1> DEFINE Ends == {"waiting", "locking", "closed"}
<1>0. closing \in Ends => \A r \in Requests : req[r] \in {"idle", "stuck"} \cup Final
  BY DEF ShutDown, InFlight
<1>1. CASE UNCHANGED <<req, connMtx, closing>>
  BY <1>1 DEF ShutDown, InFlight
<1>2. ASSUME NEW r \in Requests, Arrive(r) \/ Route(r) \/ Lock(r) \/ Use(r) \/ AddConnection(r)
      PROVE  ShutDown'
  <2>1. closing' = closing
    BY <1>2 DEF Arrive, Route, Lock, Use, AddConnection, CheckPublisher, ListViewer,
                Subscribe, WriteFails, Hook, serverVars
  <2>2. closing \notin Ends
    BY <1>0, <1>2
    DEF Arrive, Route, Lock, Use, AddConnection, CheckPublisher, ListViewer, Subscribe,
        WriteFails, Hook, Goes, Refuse, Panic, Final
  <2> QED BY <2>1, <2>2 DEF ShutDown
<1>3. CASE StartSession \/ StartClear \/ Clear
  BY <1>1, <1>3 DEF StartSession, StartClear, Clear, CloseViewers, CloseBuffer, serverVars
<1>4. ASSUME NEW c \in Requests, Forget(c) \/ RelayHangs(c)
      PROVE  ShutDown'
  BY <1>1, <1>4 DEF Forget, RelayHangs, serverVars
<1>5. CASE Close
  <2>1. UNCHANGED <<req, connMtx>> /\ InFlight' = InFlight
    BY <1>5 DEF Close, InFlight
  <2> QED BY <1>5, <2>1 DEF Close, ShutDown
<1>6. CASE UNCHANGED vars
  BY <1>1, <1>6 DEF vars, serverVars
<1> QED BY <1>2, <1>3, <1>4, <1>5, <1>6 DEF Next

(* Nobody but its holder releases connMtx, and a request that has panicked  *)
(* does nothing any more.                                                   *)
LEMMA LockStaysLost ==
  ASSUME IInv, [Next]_vars, LockLost
  PROVE  LockLost' /\ Waiting \subseteq Waiting'
<1>0. /\ connMtx \in Requests /\ connMtx # None /\ req[connMtx] = "stuck"
      /\ \A q \in Requests : q # connMtx => req[q] \notin Holding
  BY DEF LockLost, IInv, TypeOK, MakerAlone, Holding
<1>1. CASE UNCHANGED <<req, connMtx>>
  BY <1>0, <1>1 DEF LockLost, Waiting
<1>2. ASSUME NEW r \in Requests, Arrive(r) \/ Route(r) \/ Use(r)
      PROVE  LockLost' /\ Waiting \subseteq Waiting'
  <2>1. /\ connMtx' = connMtx /\ req[r] \in {"idle", "route", "use"}
        /\ req' = [req EXCEPT ![r] = req'[r]]
    BY <1>2 DEF Arrive, Route, Use, Goes, serverVars, IInv, TypeOK
  <2>2. \A q \in Requests : q # r => req'[q] = req[q]
    BY <2>1 DEF IInv, TypeOK
  <2> QED BY <1>0, <2>1, <2>2 DEF LockLost, Waiting
<1>3. ASSUME NEW r \in Requests, Lock(r) \/ AddConnection(r)
      PROVE  FALSE
  <2>1. ~Lock(r)
    BY <1>0 DEF Lock
  <2>2. req[r] \in Holding /\ req[r] # "stuck"
    BY <1>3, <2>1
    DEF AddConnection, CheckPublisher, ListViewer, Subscribe, WriteFails, Hook, Goes,
        Refuse, Panic, Holding
  <2> QED BY <1>0, <2>2
<1>4. CASE StartSession \/ StartClear \/ Clear
  BY <1>1, <1>4 DEF StartSession, StartClear, Clear, CloseViewers, CloseBuffer, serverVars
<1>5. ASSUME NEW c \in Requests, Forget(c)
      PROVE  FALSE
  BY <1>0, <1>5 DEF Forget
<1>6. CASE Close \/ UNCHANGED vars
  BY <1>1, <1>6 DEF Close, vars, serverVars
<1>7. ASSUME NEW c \in Requests, RelayHangs(c)
      PROVE  LockLost' /\ Waiting \subseteq Waiting'
  BY <1>1, <1>7 DEF RelayHangs, serverVars
<1> QED BY <1>2, <1>3, <1>4, <1>5, <1>6, <1>7 DEF Next

(* After a panic in AddConnection no request gets connMtx again, those that *)
(* wait for it wait for ever, and Close does not return: this alternative   *)
(* of Answered and of CloseReturns is final.                                *)
THEOREM LostForGood ==
  Spec => /\ [](LockLost => [](LockLost /\ closing # "closed"))
          /\ [][LockLost => Waiting \subseteq Waiting']_vars
<1> DEFINE Open == closing # "closed"
<1>1. Init => ShutDown
  BY DEF Init, ShutDown
<1>2. IInv /\ ShutDown /\ [Next]_vars => ShutDown'
  BY ShutDownHolds
<1>3. ShutDown /\ LockLost => Open
  BY DEF ShutDown, LockLost
<1>4. IInv /\ [Next]_vars /\ LockLost => LockLost'
  BY LockStaysLost
<1>5. IInv /\ [Next]_vars => [LockLost => Waiting \subseteq Waiting']_vars
  BY LockStaysLost
<1> QED BY <1>1, <1>2, <1>3, <1>4, <1>5, AlwaysHolds, PTL DEF Spec

(* Requests that wait in addViewer for publisherMtx or viewersMtx.          *)
Asking == {r \in Requests : req[r] \in {"check", "list"}}

LEMMA HangStays ==
  ASSUME IInv, [Next]_vars, ClearHangs
  PROVE  ClearHangs' /\ Asking \subseteq Asking'
<1>0. victim # None /\ victim \in hung /\ stage = "clearing"
  BY NoneAssumption DEF IInv, TypeOK, VictimHeld, ClearHangs
<1>1. ASSUME UNCHANGED <<req, victim>>, hung \subseteq hung'
      PROVE  ClearHangs' /\ Asking \subseteq Asking'
  BY <1>0, <1>1 DEF ClearHangs, Asking
<1>2. ASSUME NEW r \in Requests, Arrive(r) \/ Route(r) \/ Lock(r) \/ Use(r)
      PROVE  ClearHangs' /\ Asking \subseteq Asking'
  <2>1. req[r] \in {"idle", "route", "lock", "use"} /\ req' = [req EXCEPT ![r] = req'[r]]
    BY <1>2 DEF Arrive, Route, Lock, Use, Goes, IInv, TypeOK
  <2>2. UNCHANGED <<victim, hung>>
    BY <1>2 DEF Arrive, Route, Lock, Use, viewerVars
  <2>3. \A q \in Requests : q # r => req'[q] = req[q]
    BY <2>1 DEF IInv, TypeOK
  <2> QED BY <1>0, <2>1, <2>2, <2>3 DEF ClearHangs, Asking
<1>3. ASSUME NEW r \in Requests, AddConnection(r)
      PROVE  ClearHangs' /\ Asking \subseteq Asking'
  <2>1. ~CheckPublisher(r) /\ ~ListViewer(r)
    BY <1>0 DEF CheckPublisher, ListViewer, PublisherMtxFree
  <2>2. req[r] \in {"subscribe", "write"} /\ req' = [req EXCEPT ![r] = req'[r]]
    BY <1>3, <2>1 DEF AddConnection, Subscribe, WriteFails, Hook, Refuse, Panic, Goes, IInv,
       TypeOK
  <2>3. UNCHANGED <<victim, hung>>
    BY <1>3, <2>1 DEF AddConnection, Subscribe, WriteFails, Hook, viewerVars
  <2>4. \A q \in Requests : q # r => req'[q] = req[q]
    BY <2>2 DEF IInv, TypeOK
  <2> QED BY <1>0, <2>2, <2>3, <2>4 DEF ClearHangs, Asking
<1>4. ~StartSession /\ ~StartClear /\ ~Clear
  BY <1>0 DEF StartSession, StartClear, Clear, CloseViewers, CloseNext, NextClosed,
     UnlockViewers, CloseBuffer
<1>5. ASSUME NEW c \in Requests, Forget(c) \/ RelayHangs(c)
      PROVE  ClearHangs' /\ Asking \subseteq Asking'
  BY <1>1, <1>5 DEF Forget, RelayHangs, viewerVars
<1>6. CASE Close \/ UNCHANGED vars
  BY <1>1, <1>6 DEF Close, vars, viewerVars
<1> QED BY <1>2, <1>3, <1>4, <1>5, <1>6 DEF Next

(* A clearing that meets a connection whose relay hangs keeps publisherMtx  *)
(* for good; a request that asks the Haven for its publisher meanwhile      *)
(* waits for ever, and Close with it: this alternative of Answered and of   *)
(* CloseReturns is final too.                                               *)
THEOREM HangsForGood ==
  Spec => /\ [](ClearHangs => [](ClearHangs /\ ~PublisherMtxFree))
          /\ [][ClearHangs => Asking \subseteq Asking']_vars
          /\ [](ClearHangs /\ Asking # {} => [](Asking # {} /\ closing # "closed"))
<1> DEFINE Hangs == ClearHangs /\ Asking # {}
<1>1. Init => ShutDown
  BY DEF Init, ShutDown
<1>2. IInv /\ ShutDown /\ [Next]_vars => ShutDown'
  BY ShutDownHolds
<1>3. IInv /\ ClearHangs => ~PublisherMtxFree
  BY NoneAssumption DEF IInv, TypeOK, VictimHeld, ClearHangs, PublisherMtxFree
<1>4. IInv /\ [Next]_vars /\ ClearHangs => ClearHangs'
  BY HangStays
<1>5. IInv /\ [Next]_vars => [ClearHangs => Asking \subseteq Asking']_vars
  BY HangStays
<1>6. IInv /\ [Next]_vars /\ Hangs => Hangs'
  BY HangStays
<1>7. ShutDown /\ Hangs => closing # "closed"
  BY DEF ShutDown, InFlight, Asking, Final
<1>8. Hangs <=> ClearHangs /\ Asking # {}
  OBVIOUS
<1> HIDE DEF Hangs
<1> QED BY <1>1, <1>2, <1>3, <1>4, <1>5, <1>6, <1>7, <1>8, AlwaysHolds, PTL DEF Spec
=============================================================================
