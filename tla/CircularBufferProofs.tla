------------------------ MODULE CircularBufferProofs ------------------------
(***************************************************************************)
(* Proofs about the ring of frames, for any set of subscribers and any     *)
(* capacities: its type invariant, and that nobody uses a closed channel;  *)
(* that the frames of a subscriber come in order, and none is missing that *)
(* was not skipped with a warning; and that the ring is a FrameFeed.       *)
(***************************************************************************)
EXTENDS CircularBuffer, TLAPS

(* A remainder by the capacity is a slot.                                   *)
LEMMA ModInSlots ==
  ASSUME NEW x \in Int
  PROVE  x % Cap \in Slots
  BY CapAssumption DEF Slots

(* A sequence of frames stays one when a frame is written.                  *)
LEMMA SeqGrows ==
  ASSUME NEW S, NEW T, S \subseteq T
  PROVE  Seq(S) \subseteq Seq(T)
<1> SUFFICES ASSUME NEW s \in Seq(S) PROVE s \in Seq(T)
  OBVIOUS
<1> QED
  OBVIOUS

(* The copy of the ring is a sequence of frames and nil slots.              *)
LEMMA HistoryType ==
  ASSUME TypeOK, NEW p \in Slots
  PROVE  HistoryFrom(p) \in Seq(Frame \cup {Nil})
<1> DEFINE n == (writePos - p + Cap) % Cap
<1>1. n \in Nat
  BY CapAssumption DEF TypeOK, Slots
<1>2. \A i \in 1 .. n : frames[(p + i - 1) % Cap] \in Frame \cup {Nil}
  <2> TAKE i \in 1 .. n
  <2>1. (p + i - 1) % Cap \in Slots
    BY ModInSlots DEF Slots
  <2> QED BY <2>1 DEF TypeOK
<1> QED BY <1>1, <1>2 DEF HistoryFrom

(* Writing a frame: what was a frame still is one.                          *)
LEMMA WriteType == TypeOK /\ Write => TypeOK'
<1> SUFFICES ASSUME TypeOK, Write PROVE TypeOK'
  OBVIOUS
<1>1. written' \in Nat /\ Frame \subseteq Frame' /\ written + 1 \in Frame'
  BY DEF TypeOK, Write, Frame
<1>2. frames' \in [Slots -> Frame' \cup {Nil}]
  BY <1>1 DEF TypeOK, Write
<1>3. writePos' \in Slots
  BY ModInSlots DEF TypeOK, Write, Slots
<1>4. /\ history' \in [Readers -> Seq(Frame' \cup {Nil})]
      /\ live' \in [Readers -> Seq(Frame')]
      /\ egress' \in [Readers -> Seq(Frame')]
  <2>1. Seq(Frame) \subseteq Seq(Frame')
    BY <1>1, SeqGrows
  <2>2. Seq(Frame \cup {Nil}) \subseteq Seq(Frame' \cup {Nil})
    <3>1. Frame \cup {Nil} \subseteq Frame' \cup {Nil}
      BY <1>1
    <3> QED BY <3>1, SeqGrows
  <2>3. history' = history /\ live' = live /\ egress' = egress
    BY DEF Write, chanVars
  <2> QED BY <2>1, <2>2, <2>3 DEF TypeOK
<1>5. skipped' \in [Readers -> SUBSET Frame']
  BY <1>1 DEF TypeOK, Write, chanVars
<1> QED
  BY <1>1, <1>2, <1>3, <1>4, <1>5
  DEF TypeOK, Write, chanVars, closeVars, LiveLen, EgressLen

(* One turn of the broadcast: the live channel keeps within its capacity.   *)
LEMMA OfferType ==
  ASSUME NEW r \in Readers
  PROVE  TypeOK /\ BroadcastInv /\ Offer(r) => TypeOK'
<1> SUFFICES ASSUME TypeOK, BroadcastInv, Offer(r) PROVE TypeOK'
  OBVIOUS
<1>1. written \in Frame /\ Frame' = Frame
  BY DEF TypeOK, BroadcastInv, Locked, Offer, Frame, ringVars
<1>2. /\ live' \in [Readers -> Seq(Frame)]
      /\ \A q \in Readers : Len(live'[q]) - taken[q] \in 0 .. LiveChCap
  <2>1. CASE LiveLen(r) < LiveChCap /\ live' = [live EXCEPT ![r] = Append(@, written)]
    <3>1. Append(live[r], written) \in Seq(Frame)
      BY <1>1 DEF TypeOK
    <3>2. Len(Append(live[r], written)) = Len(live[r]) + 1
      BY DEF TypeOK
    <3>3. LiveLen(r) \in 0 .. LiveChCap - 1
      BY <2>1, ChannelAssumption DEF TypeOK
    <3>4. Len(live[r]) \in Nat /\ taken[r] \in Nat
      BY DEF TypeOK
    <3>5. Len(live'[r]) - taken[r] \in 0 .. LiveChCap
      BY <2>1, <3>2, <3>3, <3>4, ChannelAssumption, SMTT(30) DEF TypeOK, LiveLen
    <3> QED BY <2>1, <3>1, <3>5 DEF TypeOK, LiveLen
  <2>2. CASE live' = live
    BY <2>2 DEF TypeOK, LiveLen
  <2> QED BY <2>1, <2>2 DEF Offer
<1>3. skipped' \in [Readers -> SUBSET Frame]
  <2>1. CASE skipped' = skipped
    BY <2>1 DEF TypeOK
  <2>2. CASE skipped' = [skipped EXCEPT ![r] = @ \cup {written}]
    BY <1>1, <2>2 DEF TypeOK
  <2> QED BY <2>1, <2>2 DEF Offer
<1>4. offers' \in SUBSET Readers
  BY DEF TypeOK, Offer
<1> QED
  BY <1>1, <1>2, <1>3, <1>4 DEF TypeOK, Offer, ringVars, closeVars, LiveLen, EgressLen

(* Forwarding a frame: the egress channel keeps within its capacity.        *)
LEMMA ForwardType ==
  ASSUME NEW r \in Readers, NEW f \in Frame, TypeOK, Forward(r, f)
  PROVE  /\ egress' \in [Readers -> Seq(Frame)]
         /\ skipped' \in [Readers -> SUBSET Frame]
         /\ \A q \in Readers : Len(egress'[q]) - received[q] \in 0 .. EgressChCap
<1>1. CASE EgressLen(r) < EgressChCap /\ egress' = [egress EXCEPT ![r] = Append(@, f)]
           /\ skipped' = skipped
  <2>1. Append(egress[r], f) \in Seq(Frame) /\ Len(Append(egress[r], f)) = Len(egress[r]) + 1
    BY DEF TypeOK
  <2>2. EgressLen(r) \in 0 .. EgressChCap - 1
    BY <1>1, ChannelAssumption DEF TypeOK
  <2>3. Len(egress[r]) \in Nat /\ received[r] \in Nat
    BY DEF TypeOK
  <2>4. Len(egress'[r]) - received[r] \in 0 .. EgressChCap
    BY <1>1, <2>1, <2>2, <2>3, ChannelAssumption, SMTT(30) DEF TypeOK, EgressLen
  <2> QED BY <1>1, <2>1, <2>4 DEF TypeOK, EgressLen
<1>2. CASE egress' = egress /\ skipped' = [skipped EXCEPT ![r] = @ \cup {f}]
  BY <1>2 DEF TypeOK, EgressLen
<1> QED BY <1>1, <1>2 DEF Forward

LEMMA SendHistoryType ==
  ASSUME NEW r \in Readers
  PROVE  TypeOK /\ SendHistory(r) => TypeOK'
<1> SUFFICES ASSUME TypeOK, SendHistory(r) PROVE TypeOK'
  OBVIOUS
<1> DEFINE f == history[r][sentHist[r] + 1]
<1>1. f \in Frame \cup {Nil}
  BY DEF TypeOK, SendHistory
<1>2. /\ egress' \in [Readers -> Seq(Frame)]
      /\ skipped' \in [Readers -> SUBSET Frame]
      /\ \A q \in Readers : Len(egress'[q]) - received[q] \in 0 .. EgressChCap
  <2>1. CASE f # Nil /\ Forward(r, f)
    BY <1>1, <2>1, ForwardType
  <2>2. CASE UNCHANGED <<egress, skipped>>
    BY <2>2 DEF TypeOK, EgressLen
  <2> QED BY <2>1, <2>2 DEF SendHistory
<1>3. sentHist' \in [Readers -> Nat] /\ \A q \in Readers : sentHist'[q] <= Len(history[q])
  BY DEF TypeOK, SendHistory
<1>4. Frame' = Frame
  BY DEF SendHistory, ringVars, Frame
<1> QED
  BY <1>2, <1>3, <1>4 DEF TypeOK, SendHistory, ringVars, closeVars, LiveLen, EgressLen

LEMMA SendLiveType ==
  ASSUME NEW r \in Readers
  PROVE  TypeOK /\ ForwardInv /\ SendLive(r) => TypeOK'
<1> SUFFICES ASSUME TypeOK, ForwardInv, SendLive(r) PROVE TypeOK'
  OBVIOUS
<1>1. live[r][taken[r]] \in Frame
  <2>1. taken[r] > 0
    BY DEF ForwardInv, SendLive
  <2>2. taken[r] \in Nat /\ live[r] \in Seq(Frame) /\ Len(live[r]) - taken[r] \in 0 .. LiveChCap
    BY DEF TypeOK, LiveLen
  <2>3. taken[r] \in 1 .. Len(live[r])
    BY <2>1, <2>2, ChannelAssumption
  <2> QED BY <2>2, <2>3
<1>2. /\ egress' \in [Readers -> Seq(Frame)]
      /\ skipped' \in [Readers -> SUBSET Frame]
      /\ \A q \in Readers : Len(egress'[q]) - received[q] \in 0 .. EgressChCap
  BY <1>1, ForwardType DEF SendLive
<1>3. pc' \in [Readers -> {"idle", "started", "history", "live", "forward",
                           "leaving", "ended"}]
  BY DEF TypeOK, SendLive
<1>4. Frame' = Frame
  BY DEF SendLive, ringVars, Frame
<1> QED
  BY <1>2, <1>3, <1>4 DEF TypeOK, SendLive, ringVars, closeVars, LiveLen, EgressLen

LEMMA SnapshotType ==
  ASSUME NEW r \in Readers
  PROVE  TypeOK /\ sentHist[r] = 0 /\ Snapshot(r) => TypeOK'
<1> SUFFICES ASSUME TypeOK, sentHist[r] = 0, Snapshot(r) PROVE TypeOK'
  OBVIOUS
<1>1. HistoryFrom(startPos[r]) \in Seq(Frame \cup {Nil})
  BY HistoryType DEF TypeOK
<1>2. Frame' = Frame
  BY DEF Snapshot, ringVars, Frame
<1>3. history' \in [Readers -> Seq(Frame \cup {Nil})]
  BY <1>1 DEF TypeOK, Snapshot
<1>4. ASSUME NEW q \in Readers PROVE sentHist[q] <= Len(history'[q])
  <2>1. CASE q = r
    <3>1. history'[r] = HistoryFrom(startPos[r])
      BY DEF TypeOK, Snapshot
    <3>2. Len(HistoryFrom(startPos[r])) \in Nat
      BY <1>1
    <3> QED BY <2>1, <3>1, <3>2
  <2>2. CASE q # r
    BY <2>2 DEF TypeOK, Snapshot
  <2> QED BY <2>1, <2>2
<1>5. pc' \in [Readers -> {"idle", "started", "history", "live", "forward",
                           "leaving", "ended"}]
  BY DEF TypeOK, Snapshot
<1> QED
  BY <1>2, <1>3, <1>4, <1>5 DEF TypeOK, Snapshot, ringVars, closeVars, LiveLen, EgressLen

PCs == {"idle", "started", "history", "live", "forward", "leaving", "ended"}

(* A step that moves one goroutine, and leaves what the type invariant says *)
(* of the ring and of the channels alone, keeps the types.                  *)
LEMMA MoveType ==
  ASSUME NEW r \in Readers, TypeOK, NEW c \in PCs,
         UNCHANGED <<ringVars, chanVars, cancelled>>,
         pc' = [pc EXCEPT ![r] = c],
         offers' \in SUBSET Readers, subs' \in SUBSET Readers,
         closing' \in {"no", "wait", "lock", "closed"},
         late' \in SUBSET Readers, upDone' \in SUBSET Readers,
         startPos' \in [Readers -> Slots], closedCh' \in SUBSET Readers
  PROVE  TypeOK'
<1>1. pc' \in [Readers -> PCs]
  BY DEF TypeOK, PCs
<1>2. Frame' = Frame
  BY DEF ringVars, Frame
<1> QED
  BY <1>1, <1>2 DEF TypeOK, PCs, ringVars, chanVars, LiveLen, EgressLen

(* A step of Close, or one that moves no goroutine and no frame.            *)
LEMMA StillType ==
  ASSUME TypeOK, UNCHANGED <<ringVars, chanVars, pc, startPos>>,
         offers' \in SUBSET Readers, subs' \in SUBSET Readers,
         cancelled' \in BOOLEAN,
         closing' \in {"no", "wait", "lock", "closed"},
         late' \in SUBSET Readers, upDone' \in SUBSET Readers,
         closedCh' \in SUBSET Readers
  PROVE  TypeOK'
<1>1. Frame' = Frame
  BY DEF ringVars, Frame
<1> QED
  BY <1>1 DEF TypeOK, ringVars, chanVars, LiveLen, EgressLen

LEMMA TakeLiveType ==
  ASSUME NEW r \in Readers
  PROVE  TypeOK /\ TakeLive(r) => TypeOK'
<1> SUFFICES ASSUME TypeOK, TakeLive(r) PROVE TypeOK'
  OBVIOUS
<1>1. taken' \in [Readers -> Nat]
  BY DEF TypeOK, TakeLive
<1>2. ASSUME NEW q \in Readers PROVE Len(live[q]) - taken'[q] \in 0 .. LiveChCap
  <2>1. Len(live[q]) \in Nat /\ taken[q] \in Nat /\ Len(live[q]) - taken[q] \in 0 .. LiveChCap
    BY DEF TypeOK, LiveLen
  <2>2. taken'[q] = taken[q] \/ (q = r /\ taken'[q] = taken[q] + 1)
    BY DEF TypeOK, TakeLive
  <2>3. q = r => Len(live[q]) - taken[q] > 0
    BY DEF TakeLive, LiveLen
  <2> QED BY <2>1, <2>2, <2>3, ChannelAssumption
<1>3. pc' \in [Readers -> PCs]
  BY DEF TypeOK, TakeLive, PCs
<1>4. Frame' = Frame
  BY DEF TakeLive, ringVars, Frame
<1> QED
  BY <1>1, <1>2, <1>3, <1>4
  DEF TypeOK, TakeLive, PCs, ringVars, closeVars, LiveLen, EgressLen

LEMMA ReceiveType ==
  ASSUME NEW r \in Readers
  PROVE  TypeOK /\ Receive(r) => TypeOK'
<1> SUFFICES ASSUME TypeOK, Receive(r) PROVE TypeOK'
  OBVIOUS
<1>1. received' \in [Readers -> Nat]
  BY DEF TypeOK, Receive
<1>2. ASSUME NEW q \in Readers PROVE Len(egress[q]) - received'[q] \in 0 .. EgressChCap
  <2>1. /\ Len(egress[q]) \in Nat /\ received[q] \in Nat
        /\ Len(egress[q]) - received[q] \in 0 .. EgressChCap
    BY DEF TypeOK, EgressLen
  <2>2. received'[q] = received[q] \/ (q = r /\ received'[q] = received[q] + 1)
    BY DEF TypeOK, Receive
  <2>3. q = r => Len(egress[q]) - received[q] > 0
    BY DEF Receive, EgressLen
  <2> QED BY <2>1, <2>2, <2>3, ChannelAssumption
<1>3. Frame' = Frame
  BY DEF Receive, ringVars, Frame
<1> QED
  BY <1>1, <1>2, <1>3 DEF TypeOK, Receive, ringVars, closeVars, LiveLen, EgressLen

LEMMA InitType == Init => TypeOK
<1> SUFFICES ASSUME Init PROVE TypeOK
  OBVIOUS
<1>1. 0 \in Slots
  BY CapAssumption DEF Slots
<1>2. /\ history \in [Readers -> Seq(Frame \cup {Nil})]
      /\ live \in [Readers -> Seq(Frame)]
      /\ egress \in [Readers -> Seq(Frame)]
  <2>1. \A S : <<>> \in Seq(S)
    OBVIOUS
  <2> QED BY <2>1 DEF Init
<1>3. \A r \in Readers : Len(history[r]) = 0 /\ Len(live[r]) = 0 /\ Len(egress[r]) = 0
  BY DEF Init
<1>4. \A r \in Readers : sentHist[r] = 0 /\ taken[r] = 0 /\ received[r] = 0
  BY DEF Init
<1>5. \A r \in Readers : /\ sentHist[r] <= Len(history[r])
                         /\ LiveLen(r) \in 0 .. LiveChCap
                         /\ EgressLen(r) \in 0 .. EgressChCap
  <2> TAKE r \in Readers
  <2>1. LiveLen(r) = 0 - 0 /\ EgressLen(r) = 0 - 0
    BY <1>3, <1>4 DEF LiveLen, EgressLen
  <2>2. 0 \in 0 .. LiveChCap /\ 0 \in 0 .. EgressChCap
    BY ChannelAssumption
  <2> QED BY <1>3, <1>4, <2>1, <2>2
<1>6. /\ written \in Nat
      /\ frames \in [Slots -> Frame \cup {Nil}]
      /\ skipped \in [Readers -> SUBSET Frame]
      /\ pc \in [Readers -> PCs]
  BY DEF Init, PCs
<1>7. /\ startPos \in [Readers -> Slots]
      /\ sentHist \in [Readers -> Nat]
      /\ taken \in [Readers -> Nat]
      /\ received \in [Readers -> Nat]
  BY <1>1 DEF Init
<1> QED
  BY <1>1, <1>2, <1>5, <1>6, <1>7 DEF Init, TypeOK, PCs

(* Every step keeps the types.                                              *)
LEMMA TypeStep == LifecycleInv /\ [Next]_vars => TypeOK'
<1> SUFFICES ASSUME LifecycleInv, [Next]_vars PROVE TypeOK'
  OBVIOUS
<1> USE DEF LifecycleInv
<1>1. CASE Write
  BY <1>1, WriteType
<1>2. CASE AbandonBroadcast
  BY <1>2, StillType DEF AbandonBroadcast, TypeOK, closeVars
<1>3. ASSUME NEW r \in Readers, Offer(r) PROVE TypeOK'
  BY <1>3, OfferType
<1>4. ASSUME NEW r \in Readers, NEW p \in Slots, ReadFromPos(r, p) PROVE TypeOK'
  <2>1. startPos' \in [Readers -> Slots] /\ late' \in SUBSET Readers
    BY <1>4 DEF ReadFromPos, TypeOK
  <2> QED BY <1>4, <2>1, MoveType DEF ReadFromPos, TypeOK, PCs
<1>5. ASSUME NEW r \in Readers, Snapshot(r) PROVE TypeOK'
  BY <1>5, SnapshotType DEF Snapshot, FreshInv
<1>6. ASSUME NEW r \in Readers, SendHistory(r) PROVE TypeOK'
  BY <1>6, SendHistoryType
<1>7. ASSUME NEW r \in Readers, HistorySent(r) PROVE TypeOK'
  BY <1>7, MoveType DEF HistorySent, TypeOK, PCs, closeVars
<1>8. ASSUME NEW r \in Readers, TakeLive(r) PROVE TypeOK'
  BY <1>8, TakeLiveType
<1>9. ASSUME NEW r \in Readers, SendLive(r) PROVE TypeOK'
  BY <1>9, SendLiveType
<1>10. ASSUME NEW r \in Readers, Leave(r) PROVE TypeOK'
  BY <1>10, MoveType DEF Leave, TypeOK, PCs, closeVars
<1>11. ASSUME NEW r \in Readers, RemoveSubscriber(r) PROVE TypeOK'
  BY <1>11, MoveType DEF RemoveSubscriber, TypeOK, PCs, closeVars
<1>12. ASSUME NEW r \in Readers, Receive(r) PROVE TypeOK'
  BY <1>12, ReceiveType
<1>13. ASSUME NEW r \in Readers, UpstreamDone(r) PROVE TypeOK'
  BY <1>13, StillType DEF UpstreamDone, TypeOK, closeVars
<1>14. CASE CloseCancel
  BY <1>14, StillType DEF CloseCancel, TypeOK
<1>15. CASE CloseWaited
  BY <1>15, StillType DEF CloseWaited, TypeOK
<1>16. CASE CloseFinish
  BY <1>16, StillType DEF CloseFinish, TypeOK
<1>17. CASE UNCHANGED vars
  BY <1>17, StillType DEF vars, TypeOK, closeVars
<1> QED
  BY <1>1, <1>2, <1>3, <1>4, <1>5, <1>6, <1>7, <1>8, <1>9, <1>10, <1>11,
     <1>12, <1>13, <1>14, <1>15, <1>16, <1>17
  DEF Next, Broadcast, Goroutine

(* Every step keeps what is said of the broadcast, of the goroutines and of *)
(* their channels.                                                          *)
LEMMA BroadcastStep == LifecycleInv /\ [Next]_vars => BroadcastInv'
<1> SUFFICES ASSUME LifecycleInv, [Next]_vars PROVE BroadcastInv'
  OBVIOUS
<1> USE DEF BroadcastInv, Locked, LifecycleInv
<1>1. CASE Write
  BY <1>1 DEF Write, TypeOK
<1>2. CASE Broadcast
  BY <1>2 DEF Broadcast, AbandonBroadcast, Offer, ringVars
<1>3. CASE \E r \in Readers : \E p \in Slots : ReadFromPos(r, p)
  BY <1>3 DEF ReadFromPos, ringVars
<1>4. ASSUME NEW r \in Readers, Goroutine(r) PROVE BroadcastInv'
  BY <1>4 DEF Goroutine, Snapshot, SendHistory, HistorySent, TakeLive, SendLive,
              Leave, RemoveSubscriber, ringVars
<1>5. ASSUME NEW r \in Readers, Receive(r) \/ UpstreamDone(r) PROVE BroadcastInv'
  BY <1>5 DEF Receive, UpstreamDone, ringVars
<1>6. CASE CloseCancel \/ CloseWaited \/ CloseFinish
  BY <1>6 DEF CloseCancel, CloseWaited, CloseFinish, ringVars
<1>7. CASE UNCHANGED vars
  BY <1>7 DEF vars, ringVars
<1> QED
  BY <1>1, <1>2, <1>3, <1>4, <1>5, <1>6, <1>7 DEF Next

LEMMA ForwardStep == LifecycleInv /\ [Next]_vars => ForwardInv'
<1> SUFFICES ASSUME LifecycleInv, [Next]_vars PROVE ForwardInv'
  OBVIOUS
<1> USE DEF ForwardInv, LifecycleInv, TypeOK
<1>1. CASE Write \/ Broadcast
  BY <1>1 DEF Write, Broadcast, AbandonBroadcast, Offer, chanVars
<1>2. CASE \E r \in Readers : \E p \in Slots : ReadFromPos(r, p)
  BY <1>2 DEF ReadFromPos, chanVars
<1>3. ASSUME NEW r \in Readers, Goroutine(r) PROVE ForwardInv'
  <2>1. CASE TakeLive(r)
    BY <2>1, SMTT(30) DEF TakeLive
  <2>2. CASE ~TakeLive(r)
    BY <1>3, <2>2 DEF Goroutine, Snapshot, SendHistory, HistorySent, SendLive,
                      Leave, RemoveSubscriber, chanVars
  <2> QED BY <2>1, <2>2
<1>4. ASSUME NEW r \in Readers, Receive(r) \/ UpstreamDone(r) PROVE ForwardInv'
  BY <1>4 DEF Receive, UpstreamDone, chanVars
<1>5. CASE CloseCancel \/ CloseWaited \/ CloseFinish
  BY <1>5 DEF CloseCancel, CloseWaited, CloseFinish, chanVars
<1>6. CASE UNCHANGED vars
  BY <1>6 DEF vars, chanVars
<1> QED
  BY <1>1, <1>2, <1>3, <1>4, <1>5, <1>6 DEF Next

LEMMA FreshStep == LifecycleInv /\ [Next]_vars => FreshInv'
<1> SUFFICES ASSUME LifecycleInv, [Next]_vars PROVE FreshInv'
  OBVIOUS
<1> USE DEF FreshInv, LifecycleInv, TypeOK
<1>1. CASE Write \/ Broadcast
  BY <1>1 DEF Write, Broadcast, AbandonBroadcast, Offer, chanVars
<1>2. CASE \E r \in Readers : \E p \in Slots : ReadFromPos(r, p)
  BY <1>2 DEF ReadFromPos, chanVars
<1>3. ASSUME NEW r \in Readers, Goroutine(r) PROVE FreshInv'
  BY <1>3 DEF Goroutine, Snapshot, SendHistory, HistorySent, TakeLive, SendLive,
              Leave, RemoveSubscriber, chanVars
<1>4. ASSUME NEW r \in Readers, Receive(r) \/ UpstreamDone(r) PROVE FreshInv'
  BY <1>4 DEF Receive, UpstreamDone, chanVars
<1>5. CASE CloseCancel \/ CloseWaited \/ CloseFinish
  BY <1>5 DEF CloseCancel, CloseWaited, CloseFinish, chanVars
<1>6. CASE UNCHANGED vars
  BY <1>6 DEF vars, chanVars
<1> QED
  BY <1>1, <1>2, <1>3, <1>4, <1>5, <1>6 DEF Next

(* The heart of it: a goroutine closes its channels when no broadcast is    *)
(* under way and ends with that; Close comes to the channels that are left  *)
(* when the goroutines it waited for have ended, so they belong to calls    *)
(* that came later.                                                         *)
LEMMA LifeStep == LifecycleInv /\ [Next]_vars => LifeInv'
<1> SUFFICES ASSUME LifecycleInv, [Next]_vars PROVE LifeInv'
  OBVIOUS
<1> USE DEF LifeInv, LifecycleInv, TypeOK, Active
<1>1. CASE Write \/ Broadcast
  BY <1>1 DEF Write, Broadcast, AbandonBroadcast, Offer, closeVars
<1>2. ASSUME NEW r \in Readers, NEW p \in Slots, ReadFromPos(r, p) PROVE LifeInv'
  BY <1>2 DEF ReadFromPos
<1>3. ASSUME NEW r \in Readers, Goroutine(r) PROVE LifeInv'
  <2>1. CASE Snapshot(r)
    BY <2>1 DEF Snapshot, closeVars
  <2>2. CASE SendHistory(r) \/ HistorySent(r) \/ TakeLive(r) \/ SendLive(r) \/ Leave(r)
    BY <2>2 DEF SendHistory, HistorySent, TakeLive, SendLive, Leave, closeVars
  <2>3. CASE RemoveSubscriber(r)
    BY <2>3 DEF RemoveSubscriber, closeVars
  <2> QED BY <1>3, <2>1, <2>2, <2>3 DEF Goroutine
<1>4. ASSUME NEW r \in Readers, Receive(r) \/ UpstreamDone(r) PROVE LifeInv'
  BY <1>4 DEF Receive, UpstreamDone, closeVars
<1>5. CASE CloseCancel \/ CloseWaited
  BY <1>5 DEF CloseCancel, CloseWaited
<1>6. CASE CloseFinish
  BY <1>6 DEF CloseFinish
<1>7. CASE UNCHANGED vars
  BY <1>7 DEF vars, closeVars
<1> QED
  BY <1>1, <1>2, <1>3, <1>4, <1>5, <1>6, <1>7 DEF Next

(* In every state that can be reached, the types are right, a broadcast     *)
(* goes to registered subscribers only, and a registered subscriber has a   *)
(* running goroutine and open channels.                                     *)
THEOREM LifecycleInvariant == Spec => []LifecycleInv
<1>1. Init => LifecycleInv
  <2> SUFFICES ASSUME Init PROVE LifecycleInv
    OBVIOUS
  <2>1. TypeOK
    BY InitType
  <2> QED
    BY <2>1 DEF Init, LifecycleInv, BroadcastInv, ForwardInv, FreshInv, LifeInv, Locked
<1>2. LifecycleInv /\ [Next]_vars => LifecycleInv'
  BY TypeStep, BroadcastStep, ForwardStep, FreshStep, LifeStep DEF LifecycleInv
<1> QED
  BY <1>1, <1>2, PTL DEF Spec

(* The channels stay within their capacity, and indices within their        *)
(* sequence, whatever the capacities are.                                   *)
THEOREM TypeCorrect == Spec => []TypeOK
<1>1. LifecycleInv => TypeOK
  BY DEF LifecycleInv
<1> QED
  BY <1>1, LifecycleInvariant, PTL

(* Neither the broadcast nor a goroutine ever uses a closed channel, except *)
(* a goroutine started between Close's wait and its locks.                  *)
THEOREM ClosedChannelsUnused == Spec => []NoUseAfterClose
<1>1. LifecycleInv => NoUseAfterClose
  BY DEF LifecycleInv, BroadcastInv, LifeInv, NoUseAfterClose, Active
<1> QED
  BY <1>1, LifecycleInvariant, PTL

-----------------------------------------------------------------------------
(* The ring.                                                                *)

(* The number of the frame a slot holds, if that is positive: the slots     *)
(* before the write position were written in this turn, the others in the   *)
(* turn before.                                                             *)
InSlot(s) == (written - writePos) + s + 1 - (IF s < writePos THEN 0 ELSE Cap)

RingInv ==
  /\ writePos <= written
  /\ \A s \in Slots : frames[s] = IF InSlot(s) > 0 THEN InSlot(s) ELSE Nil

(* Remainders by the capacity of numbers within two turns.                  *)
LEMMA TwoTurns ==
  ASSUME NEW x \in 0 .. 2 * Cap - 1
  PROVE  x % Cap = IF x < Cap THEN x ELSE x - Cap
<1> DEFINE c == Cap
<1>1. c \in Nat /\ c > 0 /\ x \in 0 .. 2 * c - 1
  BY CapAssumption
<1> HIDE DEF c
<1>2. x % c = IF x < c THEN x ELSE x - c
  BY <1>1, Z3
<1> QED BY <1>2 DEF c

(* A frame that is written is the newest, in the slot it was put in.        *)
LEMMA WriteRing ==
  ASSUME TypeOK, RingInv, Write
  PROVE  RingInv'
<1>1. /\ written \in Nat /\ writePos \in 0 .. Cap - 1 /\ Cap \in Nat \ {0}
      /\ written' = written + 1
      /\ frames' = [frames EXCEPT ![writePos] = written + 1]
  BY CapAssumption DEF TypeOK, Write, Slots
<1>2. writePos' = IF writePos + 1 < Cap THEN writePos + 1 ELSE 0
  <2> DEFINE x == writePos + 1
  <2>1. x \in 0 .. 2 * Cap - 1
    BY <1>1
  <2>2. writePos' = x % Cap
    BY DEF Write
  <2> HIDE DEF x
  <2>3. x % Cap = IF x < Cap THEN x ELSE x - Cap
    BY <2>1, TwoTurns
  <2> QED BY <1>1, <2>2, <2>3 DEF x
<1>3. writePos' <= written'
  BY <1>1, <1>2 DEF RingInv
<1>4. ASSUME NEW s \in Slots
      PROVE  frames'[s] = IF InSlot(s)' > 0 THEN InSlot(s)' ELSE Nil
  <2>0. s \in 0 .. Cap - 1
    BY DEF Slots
  <2>1. CASE s = writePos
    <3>1. frames'[s] = written + 1
      BY <1>1, <2>1 DEF TypeOK
    <3>2. InSlot(s)' = written + 1
      BY <1>1, <1>2, <2>0, <2>1 DEF InSlot
    <3> QED BY <1>1, <3>1, <3>2
  <2>2. CASE s # writePos
    <3>1. frames'[s] = frames[s]
      BY <1>1, <2>2 DEF TypeOK
    <3>2. InSlot(s)' = InSlot(s)
      BY <1>1, <1>2, <2>0, <2>2 DEF InSlot
    <3> QED BY <3>1, <3>2 DEF RingInv
  <2> QED BY <2>1, <2>2
<1> QED BY <1>3, <1>4 DEF RingInv

(* The copy of the ring ends with the newest frame and goes back without a  *)
(* hole; before the first frame are nil slots.                              *)
LEMMA HistoryIs ==
  ASSUME TypeOK, RingInv, NEW p \in Slots
  PROVE  \E n \in Nat :
           HistoryFrom(p) = [i \in 1 .. n |-> IF written - n + i > 0 THEN written - n + i
                                                                     ELSE Nil]
<1> DEFINE n == (writePos - p + Cap) % Cap
           val(i) == IF written - n + i > 0 THEN written - n + i ELSE Nil
<1>1. /\ written \in Nat /\ writePos \in 0 .. Cap - 1 /\ Cap \in Nat \ {0}
      /\ p \in 0 .. Cap - 1
  BY CapAssumption DEF TypeOK, Slots
<1>2. n = IF p <= writePos THEN writePos - p ELSE writePos - p + Cap
  <2> DEFINE x == writePos - p + Cap
  <2>1. x \in 0 .. 2 * Cap - 1
    BY <1>1
  <2> HIDE DEF x
  <2>2. x % Cap = IF x < Cap THEN x ELSE x - Cap
    BY <2>1, TwoTurns
  <2> QED BY <1>1, <2>2 DEF x
<1> HIDE DEF n
<1>3. n \in 0 .. Cap - 1
  BY <1>1, <1>2
<1>4. ASSUME NEW i \in 1 .. n
      PROVE  frames[(p + i - 1) % Cap] = val(i)
  <2> DEFINE s == (p + i - 1) % Cap
  <2>1. s = IF p + i - 1 < Cap THEN p + i - 1 ELSE p + i - 1 - Cap
    <3> DEFINE x == p + i - 1
    <3>1. x \in 0 .. 2 * Cap - 1
      BY <1>1, <1>3
    <3> HIDE DEF x
    <3>2. x % Cap = IF x < Cap THEN x ELSE x - Cap
      BY <3>1, TwoTurns
    <3> QED BY <1>1, <3>2 DEF x
  <2> HIDE DEF s
  <2>2. s \in Slots /\ InSlot(s) = written - n + i
    BY <1>1, <1>2, <1>3, <2>1 DEF InSlot, Slots
  <2>3. frames[s] = IF InSlot(s) > 0 THEN InSlot(s) ELSE Nil
    BY <2>2 DEF RingInv
  <2> QED BY <2>2, <2>3 DEF s
<1>5. HistoryFrom(p) = [i \in 1 .. n |-> frames[(p + i - 1) % Cap]]
  BY DEF HistoryFrom, n
<1>6. HistoryFrom(p) = [i \in 1 .. n |-> val(i)]
  BY <1>4, <1>5
<1> QED BY <1>3, <1>6

-----------------------------------------------------------------------------
(* Order.                                                                   *)

(* The place in the live channel from which on frames are yet to be sent.   *)
Next1(r) == IF pc[r] = "forward" THEN taken[r] ELSE taken[r] + 1

(* What is known of a subscriber whose history was copied when w was the    *)
(* newest frame: the history goes back from w without a hole, the live      *)
(* channel has later frames, in order, and what was sent comes before what  *)
(* is yet to be sent.                                                       *)
CopiedAt(r, w) ==
  \A i \in 1 .. Len(history[r]) :
    history[r][i] = IF w - Len(history[r]) + i > 0 THEN w - Len(history[r]) + i ELSE Nil

LiveAfter(r, w) ==
  /\ \A i \in 1 .. Len(live[r]) :
       w < live[r][i] /\ (r \in offers => live[r][i] < written)
  /\ \A i, j \in 1 .. Len(live[r]) : i < j => live[r][i] < live[r][j]
  /\ r \in offers => w < written

SentBefore(r, w) ==
  /\ \A i, j \in 1 .. Len(egress[r]) : i < j => egress[r][i] < egress[r][j]
  /\ r \in offers => \A i \in 1 .. Len(egress[r]) : egress[r][i] < written
  /\ pc[r] = "history" =>
       /\ taken[r] = 0
       /\ \A i \in 1 .. Len(egress[r]) : egress[r][i] <= w - Len(history[r]) + sentHist[r]
  /\ pc[r] \in {"live", "forward"} =>
       /\ sentHist[r] = Len(history[r])
       /\ \A i \in 1 .. Len(egress[r]) : \A j \in Next1(r) .. Len(live[r]) :
            egress[r][i] < live[r][j]

NothingYet(r) ==
  pc[r] \in {"idle", "started"} =>
    /\ history[r] = <<>> /\ live[r] = <<>> /\ egress[r] = <<>>
    /\ taken[r] = 0 /\ skipped[r] = {} /\ r \notin subs

Kept(r, w) ==
  /\ w \in 0 .. written
  /\ CopiedAt(r, w) /\ LiveAfter(r, w) /\ SentBefore(r, w) /\ NothingYet(r)

OrderInv == \A r \in Readers : \E w \in 0 .. written : Kept(r, w)

(* A step that moves no frame of a subscriber keeps what is known of it.    *)
LEMMA SameKept ==
  ASSUME TypeOK, NEW r \in Readers, NEW w \in Nat, Kept(r, w),
         written' = written,
         history'[r] = history[r], sentHist'[r] = sentHist[r],
         live'[r] = live[r], taken'[r] = taken[r],
         egress'[r] = egress[r], skipped'[r] = skipped[r],
         r \in offers' => r \in offers,
         r \in subs' => r \in subs,
         \/ pc'[r] = pc[r]
         \/ pc'[r] \in {"leaving", "ended"}
         \/ pc[r] = "idle" /\ pc'[r] = "started"
  PROVE  Kept(r, w)'
<1>1. CopiedAt(r, w)'
  BY DEF Kept, CopiedAt
<1>2. LiveAfter(r, w)'
  BY DEF Kept, LiveAfter
<1>3. SentBefore(r, w)'
  BY DEF Kept, SentBefore, Next1
<1>4. NothingYet(r)'
  BY DEF Kept, NothingYet
<1> QED BY <1>1, <1>2, <1>3, <1>4 DEF Kept

LEMMA WriteKept ==
  ASSUME TypeOK, Write, NEW r \in Readers, NEW w \in 0 .. written, Kept(r, w)
  PROVE  Kept(r, w)'
<1> USE DEF Write, chanVars, closeVars, Kept, TypeOK
<1>0. /\ written \in Nat /\ written' = written + 1
      /\ \A i \in 1 .. Len(live[r]) : live[r][i] \in Frame
      /\ \A i \in 1 .. Len(egress[r]) : egress[r][i] \in Frame
  BY SMTT(30)
<1>1. \A f \in Frame : f < written'
  BY <1>0 DEF Frame
<1>2. CopiedAt(r, w)'
  BY DEF CopiedAt
<1>3. LiveAfter(r, w)'
  BY <1>0, <1>1 DEF LiveAfter
<1>4. SentBefore(r, w)'
  BY <1>0, <1>1 DEF SentBefore, Next1
<1>5. NothingYet(r)'
  BY DEF NothingYet
<1> QED BY <1>0, <1>2, <1>3, <1>4, <1>5

(* A frame offered is later than all that the subscriber has.               *)
LEMMA OfferKept ==
  ASSUME TypeOK, BroadcastInv, ForwardInv, NEW r \in Readers, Offer(r),
         NEW w \in Nat, Kept(r, w)
  PROVE  Kept(r, w)'
<1> USE DEF Kept
<1>0. /\ r \in offers /\ r \in subs /\ r \notin offers' /\ written' = written /\ w < written
      /\ UNCHANGED <<history, sentHist, taken, egress, pc, subs>>
  BY DEF Offer, BroadcastInv, ringVars, LiveAfter
<1>1. CASE live' = live
  BY <1>0, <1>1 DEF CopiedAt, LiveAfter, SentBefore, Next1, NothingYet
<1>2. CASE live' = [live EXCEPT ![r] = Append(@, written)]
  <2>1. /\ live[r] \in Seq(Frame) /\ live'[r] = Append(live[r], written)
        /\ Len(live[r]) \in Nat /\ Len(live'[r]) = Len(live[r]) + 1
        /\ live'[r][Len(live[r]) + 1] = written
        /\ \A i \in 1 .. Len(live[r]) : live'[r][i] = live[r][i] /\ live[r][i] < written
    BY <1>0, <1>2 DEF TypeOK, LiveAfter
  <2>2. LiveAfter(r, w)'
    BY <1>0, <2>1 DEF LiveAfter
  <2>3. SentBefore(r, w)'
    <3>1. \A i \in 1 .. Len(egress[r]) : egress[r][i] < written
      BY <1>0 DEF SentBefore
    <3>2. Next1(r)' = Next1(r) /\ Next1(r) \in Nat
          /\ (pc[r] \in {"live", "forward"} => Next1(r) > 0)
      BY <1>0 DEF Next1, TypeOK, ForwardInv
    <3>3. ASSUME pc[r] \in {"live", "forward"},
                 NEW i \in 1 .. Len(egress[r]), NEW j \in Next1(r) .. Len(live'[r])
          PROVE  egress[r][i] < live'[r][j]
      <4>1. CASE j = Len(live[r]) + 1
        BY <2>1, <3>1, <4>1
      <4>2. CASE j # Len(live[r]) + 1
        <5>1. j \in Next1(r) .. Len(live[r]) /\ j \in 1 .. Len(live[r])
          BY <2>1, <3>2, <3>3, <4>2
        <5> QED BY <2>1, <3>3, <5>1 DEF SentBefore
      <4> QED BY <4>1, <4>2
    <3> QED BY <1>0, <3>1, <3>2, <3>3 DEF SentBefore
  <2>4. NothingYet(r)' /\ CopiedAt(r, w)'
    BY <1>0, <1>2 DEF CopiedAt, NothingYet, LiveAfter
  <2> QED BY <1>0, <2>2, <2>3, <2>4
<1> QED BY <1>1, <1>2 DEF Offer

(* The history is copied up to the newest frame.                            *)
LEMMA SnapshotKept ==
  ASSUME LifecycleInv, RingInv, NEW r \in Readers, Snapshot(r), NEW w \in Nat, Kept(r, w)
  PROVE  Kept(r, written)'
<1> USE DEF Kept, LifecycleInv
<1>1. /\ r \notin offers' /\ written' = written /\ written \in Nat
      /\ UNCHANGED <<sentHist, taken, egress, live, skipped>>
      /\ pc'[r] = "history" /\ sentHist[r] = 0 /\ taken[r] = 0
      /\ live[r] = <<>> /\ egress[r] = <<>>
      /\ history'[r] = HistoryFrom(startPos[r]) /\ startPos[r] \in Slots
  BY DEF Snapshot, Locked, ringVars, FreshInv, NothingYet, TypeOK
<1>2. PICK n \in Nat :
        history'[r] = [i \in 1 .. n |-> IF written - n + i > 0 THEN written - n + i ELSE Nil]
  <2> DEFINE p == startPos[r]
  <2>1. p \in Slots
    BY <1>1
  <2> HIDE DEF p
  <2>2. \E n \in Nat :
          HistoryFrom(p) = [i \in 1 .. n |-> IF written - n + i > 0 THEN written - n + i
                                                                  ELSE Nil]
    BY <2>1, HistoryIs
  <2> QED BY <1>1, <2>2 DEF p
<1>3. Len(history'[r]) = n
  BY <1>2
<1>4. CopiedAt(r, written)'
  BY <1>1, <1>2, <1>3 DEF CopiedAt
<1>5. LiveAfter(r, written)' /\ SentBefore(r, written)' /\ NothingYet(r)'
  BY <1>1 DEF LiveAfter, SentBefore, NothingYet
<1> QED BY <1>1, <1>4, <1>5

(* A frame that is sent comes after all that were.                          *)
LEMMA ForwardOrder ==
  ASSUME TypeOK, NEW r \in Readers, NEW f \in Frame, Forward(r, f),
         \A i, j \in 1 .. Len(egress[r]) : i < j => egress[r][i] < egress[r][j],
         \A i \in 1 .. Len(egress[r]) : egress[r][i] < f
  PROVE  /\ \A i, j \in 1 .. Len(egress'[r]) : i < j => egress'[r][i] < egress'[r][j]
         /\ \A i \in 1 .. Len(egress'[r]) : egress'[r][i] <= f
<1>1. CASE egress' = egress
  BY <1>1, SMTT(30) DEF TypeOK, Frame
<1>2. CASE egress' = [egress EXCEPT ![r] = Append(@, f)]
  <2>1. /\ egress'[r] = Append(egress[r], f)
        /\ egress[r] \in Seq(Frame) /\ Len(egress[r]) \in Nat
    BY <1>2 DEF TypeOK
  <2>2. /\ Len(egress'[r]) = Len(egress[r]) + 1 /\ egress'[r][Len(egress[r]) + 1] = f
        /\ \A i \in 1 .. Len(egress[r]) : egress'[r][i] = egress[r][i] /\ egress[r][i] \in Frame
    BY <2>1
  <2> QED BY <2>1, <2>2 DEF Frame
<1> QED BY <1>1, <1>2 DEF Forward

(* Frames are numbers.                                                      *)
LEMMA FramesAreNumbers ==
  ASSUME NEW s \in Seq(Frame)
  PROVE  \A i \in 1 .. Len(s) : s[i] \in Nat
<1>1. \A i \in 1 .. Len(s) : s[i] \in Frame
  OBVIOUS
<1>2. Frame \subseteq Nat
  BY DEF Frame
<1> QED BY <1>1, <1>2

LEMMA SendHistoryKept ==
  ASSUME TypeOK, NEW r \in Readers, SendHistory(r), NEW w \in Nat, Kept(r, w)
  PROVE  Kept(r, w)'
<1>0. \A i \in 1 .. Len(egress[r]) : egress[r][i] \in Nat
  <2> DEFINE e == egress[r]
  <2>1. e \in Seq(Frame)
    BY DEF TypeOK
  <2> HIDE DEF e
  <2>2. \A i \in 1 .. Len(e) : e[i] \in Frame
    BY <2>1
  <2>3. Frame \subseteq Nat
    BY DEF Frame
  <2> QED BY <2>2, <2>3 DEF e
<1> USE DEF Kept
<1> DEFINE n == Len(history[r])
           k == sentHist[r] + 1
           f == history[r][k]
<1>1. /\ n \in Nat /\ k \in 1 .. n /\ k \in Nat /\ sentHist'[r] = k
      /\ sentHist[r] \in Nat /\ pc[r] = "history"
      /\ written' = written /\ w \in 0 .. written /\ written \in Nat
      /\ UNCHANGED <<history, live, taken, pc, offers, subs>>
  BY DEF SendHistory, TypeOK, ringVars
<1>2. f = IF w - n + k > 0 THEN w - n + k ELSE Nil
  BY <1>1 DEF CopiedAt
<1>3. \A i \in 1 .. Len(egress[r]) : egress[r][i] < w - n + k /\ egress[r][i] \in Nat
  <2>1. \A i \in 1 .. Len(egress[r]) : egress[r][i] <= w - n + sentHist[r]
    BY <1>1 DEF SentBefore
  <2>3. w - n + sentHist[r] < w - n + k /\ w - n + sentHist[r] \in Int /\ w - n + k \in Int
    BY <1>1
  <2> DEFINE e == egress[r]
             a == w - n + sentHist[r]
             b == w - n + k
  <2>4. /\ \A i \in 1 .. Len(e) : e[i] <= a /\ e[i] \in Nat
        /\ a \in Int /\ b \in Int /\ a < b
    BY <1>0, <2>1, <2>3
  <2> HIDE DEF e, a, b
  <2>5. \A i \in 1 .. Len(e) : e[i] < b /\ e[i] \in Nat
    BY <2>4
  <2> QED BY <2>5 DEF e, b
<1>4. CopiedAt(r, w)' /\ LiveAfter(r, w)' /\ NothingYet(r)'
  BY <1>1 DEF CopiedAt, LiveAfter, NothingYet
<1>5. SentBefore(r, w)'
  <2>1. CASE egress' = egress
    <3>1. \A i \in 1 .. Len(egress[r]) : egress[r][i] <= w - n + k
      <4> DEFINE b == w - n + k
                 m == Len(egress[r])
      <4>1. b \in Int /\ \A i \in 1 .. m : egress[r][i] < b /\ egress[r][i] \in Nat
        BY <1>1, <1>3
      <4> HIDE DEF b, m
      <4>2. \A i \in 1 .. m : egress[r][i] <= b
        BY <4>1
      <4> QED BY <4>2 DEF b, m
    <3> QED BY <1>1, <2>1, <3>1 DEF SentBefore, Next1
  <2>2. CASE f # Nil /\ Forward(r, f)
    <3>1. f = w - n + k /\ f \in Frame /\ f <= w
      BY <1>1, <1>2, <2>2, SMTT(30) DEF Nil, Frame
    <3>2. \A i \in 1 .. Len(egress[r]) : egress[r][i] < f
      BY <1>1, <1>3, <3>1
    <3>3. /\ \A i, j \in 1 .. Len(egress'[r]) : i < j => egress'[r][i] < egress'[r][j]
          /\ \A i \in 1 .. Len(egress'[r]) : egress'[r][i] <= f
      BY <2>2, <3>1, <3>2, ForwardOrder DEF SentBefore
    <3>4. \A i \in 1 .. Len(egress'[r]) : egress'[r][i] \in Nat
      <4>1. egress'[r] \in Seq(Frame)
        BY <2>2, <3>1, ForwardType
      <4> QED BY <4>1, FramesAreNumbers
    <3>5. r \in offers => w < written
      BY DEF LiveAfter
    <3> HIDE DEF f, n, k
    <3>6. r \in offers => \A i \in 1 .. Len(egress'[r]) : egress'[r][i] < written
      BY <1>1, <3>1, <3>3, <3>4, <3>5
    <3>7. \A i \in 1 .. Len(egress'[r]) : egress'[r][i] <= w - n + k
      BY <3>1, <3>3
    <3> QED BY <1>1, <3>3, <3>6, <3>7 DEF SentBefore, n
  <2> QED BY <2>1, <2>2 DEF SendHistory
<1> QED BY <1>1, <1>4, <1>5

LEMMA HistorySentKept ==
  ASSUME TypeOK, NEW r \in Readers, HistorySent(r), NEW w \in Nat, Kept(r, w)
  PROVE  Kept(r, w)'
<1> USE DEF Kept
<1>1. /\ pc[r] = "history" /\ pc'[r] = "live" /\ taken[r] = 0
      /\ sentHist[r] = Len(history[r]) /\ Len(history[r]) \in Nat
      /\ written' = written
      /\ UNCHANGED <<history, sentHist, live, taken, egress, offers, subs>>
  BY DEF HistorySent, TypeOK, ringVars, chanVars, SentBefore
<1>2. CopiedAt(r, w)' /\ LiveAfter(r, w)' /\ NothingYet(r)'
  <2>1. CopiedAt(r, w)'
    BY <1>1 DEF CopiedAt
  <2>2. LiveAfter(r, w)'
    BY <1>1 DEF LiveAfter
  <2>3. NothingYet(r)'
    BY <1>1 DEF NothingYet
  <2> QED BY <2>1, <2>2, <2>3
<1>3. \A i \in 1 .. Len(egress[r]) : egress[r][i] <= w /\ egress[r][i] \in Nat
  BY <1>1, SMTT(30) DEF SentBefore, TypeOK, Frame
<1>4. \A j \in 1 .. Len(live[r]) : w < live[r][j] /\ live[r][j] \in Nat
  BY SMTT(30) DEF LiveAfter, TypeOK, Frame
<1>5. \A i \in 1 .. Len(egress[r]) : \A j \in 1 .. Len(live[r]) : egress[r][i] < live[r][j]
  BY <1>3, <1>4
<1>6. SentBefore(r, w)'
  BY <1>1, <1>5 DEF SentBefore, Next1
<1> QED BY <1>1, <1>2, <1>6

LEMMA TakeLiveKept ==
  ASSUME TypeOK, NEW r \in Readers, TakeLive(r), NEW w \in Nat, Kept(r, w)
  PROVE  Kept(r, w)'
<1> USE DEF Kept
<1>1. /\ pc[r] = "live" /\ pc'[r] = "forward" /\ taken'[r] = taken[r] + 1
      /\ written' = written
      /\ UNCHANGED <<history, sentHist, live, egress, offers, subs>>
  BY DEF TakeLive, TypeOK, ringVars
<1>2. CopiedAt(r, w)' /\ LiveAfter(r, w)' /\ NothingYet(r)'
  BY <1>1 DEF CopiedAt, LiveAfter, NothingYet
<1>3. SentBefore(r, w)'
  BY <1>1 DEF SentBefore, Next1
<1> QED BY <1>1, <1>2, <1>3

LEMMA SendLiveKept ==
  ASSUME TypeOK, ForwardInv, NEW r \in Readers, SendLive(r), NEW w \in Nat, Kept(r, w)
  PROVE  Kept(r, w)'
<1> USE DEF Kept
<1> DEFINE t == taken[r]
           f == live[r][t]
<1>1. /\ pc[r] = "forward" /\ pc'[r] = "live" /\ t \in 1 .. Len(live[r]) /\ t \in Nat
      /\ Len(live[r]) \in Nat /\ written' = written
      /\ UNCHANGED <<history, sentHist, live, taken, offers, subs>>
      /\ Forward(r, f)
  <2>1. t > 0 /\ t \in Nat /\ Len(live[r]) \in Nat /\ Len(live[r]) - t \in 0 .. LiveChCap
    BY DEF SendLive, ForwardInv, TypeOK, LiveLen
  <2>2. t \in 1 .. Len(live[r])
    BY <2>1, ChannelAssumption
  <2> QED BY <2>1, <2>2 DEF SendLive, TypeOK, ringVars
<1>2. CopiedAt(r, w)' /\ LiveAfter(r, w)' /\ NothingYet(r)'
  BY <1>1 DEF CopiedAt, LiveAfter, NothingYet
<1>3. /\ f \in Frame
      /\ \A j \in t + 1 .. Len(live[r]) : f < live[r][j] /\ live[r][j] \in Nat
      /\ r \in offers => f < written
      /\ \A i \in 1 .. Len(egress[r]) : egress[r][i] < f
  <2>1. \A j \in 1 .. Len(live[r]) : live[r][j] \in Frame
    BY DEF TypeOK
  <2>2. \A j \in t + 1 .. Len(live[r]) : j \in 1 .. Len(live[r]) /\ t < j
    BY <1>1
  <2>3. \A j \in t + 1 .. Len(live[r]) : f < live[r][j]
    BY <1>1, <2>2 DEF LiveAfter
  <2>4. t \in Next1(r) .. Len(live[r])
    BY <1>1 DEF Next1
  <2>5. \A i \in 1 .. Len(egress[r]) : egress[r][i] < f
    BY <1>1, <2>4 DEF SentBefore
  <2> QED BY <1>1, <2>1, <2>2, <2>3, <2>5 DEF LiveAfter, Frame
<1>4. /\ \A i, j \in 1 .. Len(egress'[r]) : i < j => egress'[r][i] < egress'[r][j]
      /\ \A i \in 1 .. Len(egress'[r]) : egress'[r][i] <= f /\ egress'[r][i] \in Nat
  <2>1. \A i \in 1 .. Len(egress'[r]) : egress'[r][i] \in Nat
    <3>1. egress'[r] \in Seq(Frame)
      BY <1>1, <1>3, ForwardType
    <3> QED BY <3>1, FramesAreNumbers
  <2> QED BY <1>1, <1>3, <2>1, ForwardOrder DEF SentBefore
<1>7. f \in Nat /\ written \in Nat
  BY <1>3 DEF Frame, TypeOK
<1> HIDE DEF f
<1>5. /\ \A i \in 1 .. Len(egress'[r]) : \A j \in t + 1 .. Len(live[r]) :
           egress'[r][i] < live[r][j]
      /\ r \in offers => \A i \in 1 .. Len(egress'[r]) : egress'[r][i] < written
  BY <1>3, <1>4, <1>7, SMTT(30)
<1>6. SentBefore(r, w)'
  BY <1>1, <1>4, <1>5 DEF SentBefore, Next1
<1> QED BY <1>1, <1>2, <1>6

-----------------------------------------------------------------------------
(* The steps together.                                                      *)

(* A step of another subscriber, or one that moves no frame of this one.    *)
Untouched(r) ==
  /\ written' = written
  /\ history'[r] = history[r] /\ sentHist'[r] = sentHist[r]
  /\ live'[r] = live[r] /\ taken'[r] = taken[r]
  /\ egress'[r] = egress[r] /\ skipped'[r] = skipped[r]
  /\ r \in offers' => r \in offers
  /\ r \in subs' => r \in subs
  /\ \/ pc'[r] = pc[r]
     \/ pc'[r] \in {"leaving", "ended"}
     \/ pc[r] = "idle" /\ pc'[r] = "started"

(* The steps that move frames of one subscriber.                            *)
MovesFrame(r) ==
  Offer(r) \/ Snapshot(r) \/ SendHistory(r) \/ HistorySent(r) \/ TakeLive(r) \/ SendLive(r)

LEMMA OthersUntouched ==
  ASSUME TypeOK, NEW q \in Readers, MovesFrame(q), NEW r \in Readers, r # q
  PROVE  Untouched(r)
BY DEF MovesFrame, Offer, Snapshot, SendHistory, HistorySent, TakeLive, SendLive, Forward,
   Untouched, TypeOK, ringVars, chanVars

LEMMA RestUntouched ==
  ASSUME TypeOK, [Next]_vars, ~Write, \A q \in Readers : ~MovesFrame(q),
         NEW r \in Readers
  PROVE  Untouched(r)
<1> USE DEF Untouched, TypeOK, ringVars, chanVars
<1>1. CASE AbandonBroadcast
  BY <1>1 DEF AbandonBroadcast
<1>2. ASSUME NEW q \in Readers, NEW p \in Slots, ReadFromPos(q, p) PROVE Untouched(r)
  BY <1>2 DEF ReadFromPos
<1>3. ASSUME NEW q \in Readers, Leave(q) \/ RemoveSubscriber(q) PROVE Untouched(r)
  BY <1>3 DEF Leave, RemoveSubscriber
<1>4. ASSUME NEW q \in Readers, Receive(q) \/ UpstreamDone(q) PROVE Untouched(r)
  BY <1>4 DEF Receive, UpstreamDone
<1>5. CASE CloseCancel \/ CloseWaited \/ CloseFinish
  BY <1>5 DEF CloseCancel, CloseWaited, CloseFinish
<1>6. CASE UNCHANGED vars
  BY <1>6 DEF vars
<1> QED BY <1>1, <1>2, <1>3, <1>4, <1>5, <1>6 DEF Next, Broadcast, Goroutine, MovesFrame

LEMMA MoveKept ==
  ASSUME LifecycleInv, RingInv, NEW r \in Readers, MovesFrame(r), NEW w \in 0 .. written,
         Kept(r, w)
  PROVE  \E v \in 0 .. written' : Kept(r, v)'
<1>1. w \in Nat /\ written \in 0 .. written /\ written' = written
  BY DEF LifecycleInv, TypeOK, MovesFrame, Offer, Snapshot, SendHistory, HistorySent,
     TakeLive, SendLive, ringVars
<1>2. CASE Snapshot(r)
  BY <1>1, <1>2, SnapshotKept
<1>3. CASE ~Snapshot(r)
  BY <1>1, <1>3, OfferKept, SendHistoryKept, HistorySentKept, TakeLiveKept, SendLiveKept
  DEF MovesFrame, LifecycleInv
<1> QED BY <1>2, <1>3

LEMMA OrderStep ==
  ASSUME LifecycleInv, RingInv, OrderInv, [Next]_vars
  PROVE  OrderInv'
<1> SUFFICES ASSUME NEW r \in Readers PROVE \E v \in 0 .. written' : Kept(r, v)'
  BY DEF OrderInv
<1>1. PICK w \in 0 .. written : Kept(r, w)
  BY DEF OrderInv
<1>2. written \in Nat /\ w \in Nat
  BY DEF LifecycleInv, TypeOK
<1>3. CASE Write
  <2>1. w \in 0 .. written'
    BY <1>2, <1>3 DEF Write
  <2> QED BY <1>1, <1>3, <2>1, WriteKept DEF LifecycleInv
<1>4. CASE MovesFrame(r)
  BY <1>1, <1>4, MoveKept
<1>5. CASE Untouched(r)
  <2>1. Kept(r, w)'
    BY <1>1, <1>2, <1>5, SameKept DEF Untouched, LifecycleInv
  <2> QED BY <1>1, <1>5, <2>1 DEF Untouched
<1> QED BY <1>3, <1>4, <1>5, OthersUntouched, RestUntouched DEF LifecycleInv

LEMMA RingStep ==
  ASSUME LifecycleInv, RingInv, [Next]_vars
  PROVE  RingInv'
<1>1. CASE Write
  BY <1>1, WriteRing DEF LifecycleInv
<1>2. CASE ~Write
  <2>1. UNCHANGED ringVars
    BY <1>2 DEF Next, Broadcast, AbandonBroadcast, Offer, ReadFromPos, Goroutine, Snapshot,
       SendHistory, HistorySent, TakeLive, SendLive, Leave, RemoveSubscriber, Receive,
       UpstreamDone, CloseCancel, CloseWaited, CloseFinish, vars
  <2> QED BY <2>1 DEF RingInv, InSlot, ringVars
<1> QED BY <1>1, <1>2

LEMMA InitOrder == Init => RingInv /\ OrderInv
<1> SUFFICES ASSUME Init PROVE RingInv /\ OrderInv
  OBVIOUS
<1>1. RingInv
  <2>1. ASSUME NEW s \in Slots PROVE ~(InSlot(s) > 0)
    BY <2>1, CapAssumption DEF Init, InSlot, Slots
  <2> QED BY <2>1 DEF Init, RingInv
<1>2. ASSUME NEW r \in Readers PROVE Kept(r, 0)
  BY <1>2 DEF Init, Kept, CopiedAt, LiveAfter, SentBefore, NothingYet
<1> QED BY <1>1, <1>2 DEF Init, OrderInv

LEMMA AlwaysOrdered == Spec => [](LifecycleInv /\ RingInv /\ OrderInv)
<1>1. Init => RingInv /\ OrderInv
  BY InitOrder
<1>2. LifecycleInv /\ (RingInv /\ OrderInv) /\ [Next]_vars => (RingInv /\ OrderInv)'
  BY RingStep, OrderStep
<1> QED BY <1>1, <1>2, LifecycleInvariant, PTL DEF Spec

(* The consumer of a subscription sees the frames in the order they were    *)
(* written, none twice, whatever wraps, fills or is closed meanwhile.       *)
THEOREM FramesInOrder == Spec => []InOrder
<1>1. OrderInv => InOrder
  BY DEF OrderInv, Kept, SentBefore, InOrder
<1> QED BY <1>1, AlwaysOrdered, PTL

-----------------------------------------------------------------------------
(* No silent loss.                                                          *)

(* The frames of a subscriber that were sent, are held or were skipped.     *)
Known(r) == SeenBy(r) \cup Held(r) \cup skipped[r]

Serves(r) == pc[r] \in {"history", "live", "forward"} /\ ~cancelled

(* They are all the frames from some frame to the newest one; and who is    *)
(* served is registered, so that no broadcast leaves it out.                *)
CoverInv ==
  /\ closing # "no" => cancelled
  /\ \A r \in Readers : Serves(r) =>
       /\ r \in subs
       /\ \E lo \in 0 .. written : Known(r) = lo + 1 .. written

(* The elements of a sequence behind place t.                               *)
Rest(s, t) == {s[i] : i \in t + 1 .. Len(s)}

LEMMA RestAppend ==
  ASSUME NEW S, NEW s \in Seq(S), NEW e \in S, NEW t \in 0 .. Len(s)
  PROVE  Rest(Append(s, e), t) = Rest(s, t) \cup {e}
<1>1. /\ Len(s) \in Nat /\ Len(Append(s, e)) = Len(s) + 1
      /\ Append(s, e)[Len(s) + 1] = e
      /\ \A i \in 1 .. Len(s) : Append(s, e)[i] = s[i]
  OBVIOUS
<1> DEFINE a == Append(s, e)
           n == Len(s)
<1>2. n \in Nat /\ Len(a) = n + 1 /\ a[n + 1] = e /\ \A i \in 1 .. n : a[i] = s[i]
  BY <1>1
<1> HIDE DEF a, n
<1>3. t + 1 .. n + 1 = (t + 1 .. n) \cup {n + 1} /\ t + 1 .. n \subseteq 1 .. n
  BY <1>2 DEF n
<1>4. {a[i] : i \in t + 1 .. n + 1} = {s[i] : i \in t + 1 .. n} \cup {e}
  <2>1. \A i \in t + 1 .. n : a[i] = s[i]
    BY <1>2, <1>3
  <2>2. {a[i] : i \in t + 1 .. n + 1} = {a[i] : i \in t + 1 .. n} \cup {a[n + 1]}
    BY <1>3, Zenon
  <2>3. {a[i] : i \in t + 1 .. n} = {s[i] : i \in t + 1 .. n}
    BY <2>1, Zenon
  <2> QED BY <1>2, <2>2, <2>3
<1>5. Rest(a, t) = {a[i] : i \in t + 1 .. n + 1}
  BY <1>2 DEF Rest
<1> QED BY <1>4, <1>5 DEF Rest, a, n

LEMMA RestNext ==
  ASSUME NEW S, NEW s \in Seq(S), NEW t \in Nat, t < Len(s)
  PROVE  Rest(s, t) = Rest(s, t + 1) \cup {s[t + 1]}
<1>1. t + 1 .. Len(s) = (t + 1 + 1 .. Len(s)) \cup {t + 1}
  OBVIOUS
<1> QED BY <1>1 DEF Rest

(* What is known of a subscriber, by the places it has come to, before and  *)
(* after a step.                                                            *)
LEMMA KnownIs ==
  ASSUME NEW r \in Readers, NEW x
  PROVE  /\ x \in Known(r) <=>
              \/ x \in Rest(egress[r], 0) \cup skipped[r]
              \/ x \in Rest(history[r], sentHist[r]) \ {Nil}
              \/ x \in Rest(live[r], taken[r])
              \/ pc[r] = "forward" /\ x = live[r][taken[r]]
              \/ r \in offers /\ x = written
         /\ x \in Known(r)' <=>
              \/ x \in Rest(egress'[r], 0) \cup skipped'[r]
              \/ x \in Rest(history'[r], sentHist'[r]) \ {Nil}
              \/ x \in Rest(live'[r], taken'[r])
              \/ pc'[r] = "forward" /\ x = live'[r][taken'[r]]
              \/ r \in offers' /\ x = written'
<1>1. 0 + 1 = 1
  OBVIOUS
<1> QED BY <1>1 DEF Known, SeenBy, Held, Rest

LEMMA SameSet ==
  ASSUME NEW S, NEW T, \A x : x \in S <=> x \in T
  PROVE  S = T
OBVIOUS

(* A frame forwarded is sent or skipped.                                    *)
LEMMA ForwardKnown ==
  ASSUME TypeOK, NEW r \in Readers, NEW f \in Frame, Forward(r, f)
  PROVE  Rest(egress'[r], 0) \cup skipped'[r] = Rest(egress[r], 0) \cup skipped[r] \cup {f}
<1>1. CASE egress' = [egress EXCEPT ![r] = Append(@, f)] /\ skipped' = skipped
  <2>1. egress'[r] = Append(egress[r], f) /\ egress[r] \in Seq(Frame) /\ 0 \in 0 .. Len(egress[r])
    BY <1>1 DEF TypeOK
  <2> QED BY <1>1, <2>1, RestAppend
<1>2. CASE egress' = egress /\ skipped' = [skipped EXCEPT ![r] = @ \cup {f}]
  BY <1>2 DEF TypeOK
<1> QED BY <1>1, <1>2 DEF Forward

LEMMA SendHistoryKnown ==
  ASSUME TypeOK, NEW r \in Readers, SendHistory(r)
  PROVE  Known(r)' = Known(r)
<1> DEFINE k == sentHist[r]
           f == history[r][k + 1]
<1>1. /\ k \in Nat /\ k < Len(history[r]) /\ sentHist'[r] = k + 1
      /\ history[r] \in Seq(Frame \cup {Nil}) /\ f \in Frame \cup {Nil}
      /\ UNCHANGED <<history, live, taken, offers, written, pc>>
  BY DEF SendHistory, TypeOK, ringVars
<1> HIDE DEF k
<1>2. Rest(history[r], k) = Rest(history[r], k + 1) \cup {f}
  BY <1>1, RestNext
<1>3. Rest(egress'[r], 0) \cup skipped'[r]
        = Rest(egress[r], 0) \cup skipped[r] \cup ({f} \ {Nil})
  <2>1. CASE f # Nil /\ Forward(r, f)
    <3>1. f \in Frame
      BY <1>1, <2>1
    <3> QED BY <2>1, <3>1, ForwardKnown
  <2>2. CASE f = Nil /\ UNCHANGED <<egress, skipped>>
    BY <2>2
  <2> QED BY <2>1, <2>2 DEF SendHistory, k
<1> HIDE DEF f
<1>4. ASSUME NEW x PROVE x \in Known(r)' <=> x \in Known(r)
  BY <1>1, <1>2, <1>3, KnownIs DEF k
<1> QED BY <1>4, SameSet

LEMMA TakeLiveKnown ==
  ASSUME TypeOK, NEW r \in Readers, TakeLive(r)
  PROVE  Known(r)' = Known(r)
<1> DEFINE t == taken[r]
<1>1. /\ t \in Nat /\ t < Len(live[r]) /\ taken'[r] = t + 1 /\ live[r] \in Seq(Frame)
      /\ pc[r] = "live" /\ pc'[r] = "forward"
      /\ UNCHANGED <<history, sentHist, live, egress, offers, written, skipped>>
  BY DEF TakeLive, TypeOK, LiveLen, ringVars
<1> HIDE DEF t
<1>2. Rest(live[r], t) = Rest(live[r], t + 1) \cup {live[r][t + 1]}
  BY <1>1, RestNext
<1>3. ASSUME NEW x PROVE x \in Known(r)' <=> x \in Known(r)
  BY <1>1, <1>2, KnownIs DEF t
<1> QED BY <1>3, SameSet

LEMMA SendLiveKnown ==
  ASSUME TypeOK, ForwardInv, NEW r \in Readers, SendLive(r)
  PROVE  Known(r)' = Known(r)
<1> DEFINE f == live[r][taken[r]]
<1>1. /\ pc[r] = "forward" /\ pc'[r] = "live" /\ Forward(r, f)
      /\ UNCHANGED <<history, sentHist, live, taken, offers, written>>
  BY DEF SendLive, TypeOK, ringVars
<1>2. f \in Frame
  <2>1. taken[r] > 0 /\ taken[r] \in Nat /\ Len(live[r]) \in Nat
        /\ Len(live[r]) - taken[r] \in 0 .. LiveChCap
    BY <1>1 DEF ForwardInv, TypeOK, LiveLen
  <2>2. taken[r] \in 1 .. Len(live[r])
    BY <2>1, ChannelAssumption
  <2> QED BY <2>2 DEF TypeOK
<1>3. Rest(egress'[r], 0) \cup skipped'[r] = Rest(egress[r], 0) \cup skipped[r] \cup {f}
  BY <1>1, <1>2, ForwardKnown
<1>4. ASSUME NEW x PROVE x \in Known(r)' <=> x \in Known(r)
  BY <1>1, <1>3, KnownIs
<1> QED BY <1>4, SameSet

LEMMA OfferKnown ==
  ASSUME TypeOK, BroadcastInv, ForwardInv, NEW r \in Readers, Offer(r)
  PROVE  Known(r)' = Known(r)
<1>1. /\ r \in offers /\ r \notin offers' /\ written' = written /\ written \in Frame
      /\ UNCHANGED <<history, sentHist, taken, egress, pc>>
  BY DEF Offer, BroadcastInv, Locked, TypeOK, Frame, ringVars
<1>2. CASE live' = live /\ skipped' = [skipped EXCEPT ![r] = @ \cup {written}]
  <2>1. skipped'[r] = skipped[r] \cup {written}
    BY <1>2 DEF TypeOK
  <2>2. ASSUME NEW x PROVE x \in Known(r)' <=> x \in Known(r)
    BY <1>1, <1>2, <2>1, KnownIs
  <2> QED BY <2>2, SameSet
<1>3. CASE live' = [live EXCEPT ![r] = Append(@, written)] /\ skipped' = skipped
  <2>1. live'[r] = Append(live[r], written) /\ live[r] \in Seq(Frame)
        /\ Len(live[r]) - taken[r] \in 0 .. LiveChCap /\ taken[r] \in Nat
        /\ Len(live[r]) \in Nat
    BY <1>3 DEF TypeOK, LiveLen
  <2>2. taken[r] \in 0 .. Len(live[r])
    BY <2>1, ChannelAssumption
  <2>3. Rest(live'[r], taken[r]) = Rest(live[r], taken[r]) \cup {written}
    BY <1>1, <2>1, <2>2, RestAppend
  <2>4. pc[r] = "forward" => live'[r][taken[r]] = live[r][taken[r]]
    <3>1. pc[r] = "forward" => taken[r] \in 1 .. Len(live[r])
      BY <2>1, <2>2 DEF ForwardInv
    <3> QED BY <2>1, <3>1
  <2>5. ASSUME NEW x PROVE x \in Known(r)' <=> x \in Known(r)
    BY <1>1, <1>3, <2>3, <2>4, KnownIs
  <2> QED BY <2>5, SameSet
<1> QED BY <1>2, <1>3 DEF Offer

(* A frame written is broadcast to whoever is registered.                   *)
LEMMA WriteKnown ==
  ASSUME TypeOK, Write, NEW r \in Readers, r \in subs
  PROVE  Known(r)' = Known(r) \cup {written + 1}
<1>1. /\ r \notin offers /\ r \in offers' /\ written' = written + 1
      /\ UNCHANGED <<history, sentHist, live, taken, egress, skipped, pc>>
  BY DEF Write, Locked, chanVars
<1>2. ASSUME NEW x PROVE x \in Known(r)' <=> x \in Known(r) \cup {written + 1}
  BY <1>1, KnownIs
<1> QED BY <1>2, SameSet

(* The copy of the ring is all that is known at first.                      *)
LEMMA SnapshotKnown ==
  ASSUME LifecycleInv, RingInv, OrderInv, NEW r \in Readers, Snapshot(r)
  PROVE  \E lo \in 0 .. written : Known(r)' = lo + 1 .. written
<1>1. PICK w \in 0 .. written : Kept(r, w)
  BY DEF OrderInv
<1>2. /\ r \notin offers' /\ written \in Nat
      /\ UNCHANGED <<sentHist, taken, egress, live, skipped>>
      /\ pc'[r] = "history" /\ sentHist[r] = 0 /\ taken[r] = 0
      /\ live[r] = <<>> /\ egress[r] = <<>> /\ skipped[r] = {}
      /\ history'[r] = HistoryFrom(startPos[r]) /\ startPos[r] \in Slots
  BY <1>1 DEF LifecycleInv, Snapshot, Locked, ringVars, FreshInv, Kept, NothingYet, TypeOK
<1> DEFINE p == startPos[r]
<1>3. p \in Slots
  BY <1>2
<1> HIDE DEF p
<1>4. PICK n \in Nat :
        HistoryFrom(p) = [i \in 1 .. n |-> IF written - n + i > 0 THEN written - n + i
                                                                  ELSE Nil]
  BY <1>3, HistoryIs DEF LifecycleInv
<1>5. /\ Len(history'[r]) = n
      /\ \A i \in 1 .. n :
           history'[r][i] = IF written - n + i > 0 THEN written - n + i ELSE Nil
  BY <1>2, <1>4 DEF p
<1> DEFINE lo == IF written > n THEN written - n ELSE 0
<1>6. lo \in 0 .. written
  BY <1>2
<1>7. ASSUME NEW x PROVE x \in Rest(history'[r], 0) \ {Nil} <=> x \in lo + 1 .. written
  <2>1. CASE x \in lo + 1 .. written
    <3>1. /\ x - written + n \in 1 .. n
          /\ written - n + (x - written + n) = x /\ x > 0
      BY <1>2, <2>1
    <3>2. history'[r][x - written + n] = x
      BY <1>5, <3>1
    <3>3. \E i \in 0 + 1 .. n : history'[r][i] = x
      BY <3>1, <3>2
    <3> QED BY <1>5, <2>1, <3>1, <3>3 DEF Rest, Nil
  <2>2. ASSUME x \in Rest(history'[r], 0) \ {Nil} PROVE x \in lo + 1 .. written
    <3>1. PICK i \in 1 .. n : x = history'[r][i]
      BY <1>5, <2>2 DEF Rest
    <3>2. x = written - n + i /\ written - n + i > 0
      BY <1>5, <2>2, <3>1
    <3> QED BY <1>2, <3>1, <3>2
  <2> QED BY <2>1, <2>2
<1>8. Rest(egress[r], 0) = {} /\ Rest(live[r], 0) = {}
  BY <1>2 DEF Rest
<1> HIDE DEF lo
<1>9. ASSUME NEW x PROVE x \in Known(r)' <=> x \in lo + 1 .. written
  BY <1>2, <1>7, <1>8, KnownIs
<1>10. Known(r)' = lo + 1 .. written
  BY <1>9, SameSet
<1> QED BY <1>6, <1>10

(* A step that moves no frame of a subscriber.                              *)
LEMMA UntouchedKnown ==
  ASSUME NEW r \in Readers, Untouched(r), pc'[r] = pc[r], r \in offers' <=> r \in offers
  PROVE  Known(r)' = Known(r)
<1>1. ASSUME NEW x PROVE x \in Known(r)' <=> x \in Known(r)
  BY KnownIs DEF Untouched
<1> QED BY <1>1, SameSet

LEMMA HistorySentKnown ==
  ASSUME TypeOK, NEW r \in Readers, HistorySent(r)
  PROVE  Known(r)' = Known(r)
<1>1. /\ pc[r] = "history" /\ pc'[r] = "live" /\ written' = written
      /\ UNCHANGED <<history, sentHist, live, taken, egress, offers, skipped>>
  BY DEF HistorySent, TypeOK, ringVars, chanVars
<1>2. ASSUME NEW x PROVE x \in Known(r)' <=> x \in Known(r)
  BY <1>1, KnownIs
<1> QED BY <1>2, SameSet

(* Who else is served keeps its registration, its place and its offer.      *)
LEMMA OthersServed ==
  ASSUME LifecycleInv, CoverInv, [Next]_vars, ~Write, NEW r \in Readers, Serves(r)',
         ~MovesFrame(r)
  PROVE  Serves(r) /\ pc'[r] = pc[r] /\ (r \in offers' <=> r \in offers)
         /\ (r \in subs => r \in subs')
<1> USE DEF LifecycleInv, TypeOK, Serves, closeVars
<1>1. CASE AbandonBroadcast
  BY <1>1 DEF AbandonBroadcast
<1>2. ASSUME NEW q \in Readers, NEW p \in Slots, ReadFromPos(q, p)
      PROVE  Serves(r) /\ pc'[r] = pc[r] /\ offers' = offers /\ subs' = subs
  BY <1>2 DEF ReadFromPos
<1>3. ASSUME NEW q \in Readers, Leave(q) \/ RemoveSubscriber(q)
      PROVE  Serves(r) /\ pc'[r] = pc[r] /\ offers' = offers /\ (r \in subs => r \in subs')
  BY <1>3 DEF Leave, RemoveSubscriber
<1>4. ASSUME NEW q \in Readers, Receive(q) \/ UpstreamDone(q)
      PROVE  Serves(r) /\ pc'[r] = pc[r] /\ offers' = offers /\ subs' = subs
  BY <1>4 DEF Receive, UpstreamDone
<1>5. CASE CloseCancel \/ CloseWaited \/ CloseFinish
  BY <1>5 DEF CloseCancel, CloseWaited, CloseFinish, CoverInv
<1>6. ASSUME NEW q \in Readers, MovesFrame(q), q # r
      PROVE  Serves(r) /\ pc'[r] = pc[r] /\ (r \in offers' <=> r \in offers)
             /\ (r \in subs => r \in subs')
  BY <1>6, SMTT(30) DEF MovesFrame, Offer, Snapshot, SendHistory, HistorySent, TakeLive, SendLive
<1>7. CASE UNCHANGED vars
  BY <1>7 DEF vars
<1> QED BY <1>1, <1>2, <1>3, <1>4, <1>5, <1>6, <1>7
        DEF Next, Broadcast, Goroutine, MovesFrame

LEMMA CoverStep ==
  ASSUME LifecycleInv, RingInv, OrderInv, CoverInv, [Next]_vars
  PROVE  CoverInv'
<1>1. closing' # "no" => cancelled'
  BY DEF CoverInv, Next, Write, Broadcast, AbandonBroadcast, Offer, ReadFromPos, Goroutine,
     Snapshot, SendHistory, HistorySent, TakeLive, SendLive, Leave, RemoveSubscriber,
     Receive, UpstreamDone, CloseCancel, CloseWaited, CloseFinish, vars, closeVars
<1> SUFFICES ASSUME NEW r \in Readers, Serves(r)'
             PROVE  r \in subs' /\ \E lo \in 0 .. written' : Known(r)' = lo + 1 .. written'
  BY <1>1 DEF CoverInv
<1>2. written \in Nat
  BY DEF LifecycleInv, TypeOK
<1>3. CASE Write
  <2>1. Serves(r) /\ written' = written + 1 /\ subs' = subs
    BY <1>3 DEF Write, Serves, closeVars
  <2>2. PICK lo \in 0 .. written : r \in subs /\ Known(r) = lo + 1 .. written
    BY <2>1 DEF CoverInv
  <2>3. Known(r)' = (lo + 1 .. written) \cup {written + 1}
    BY <1>3, <2>2, WriteKnown DEF LifecycleInv
  <2>4. (lo + 1 .. written) \cup {written + 1} = lo + 1 .. written + 1
    BY <1>2
  <2>5. lo \in 0 .. written + 1
    BY <1>2
  <2> QED BY <2>1, <2>2, <2>3, <2>4, <2>5
<1>4. CASE Snapshot(r)
  <2>1. written' = written /\ r \in subs'
    BY <1>4 DEF Snapshot, ringVars
  <2> QED BY <1>4, <2>1, SnapshotKnown
<1>5. CASE MovesFrame(r) /\ ~Snapshot(r)
  <2>1. Serves(r) /\ written' = written /\ subs' = subs
    BY <1>5 DEF MovesFrame, Offer, SendHistory, HistorySent, TakeLive, SendLive, Serves,
       closeVars, ringVars
  <2>2. PICK lo \in 0 .. written : r \in subs /\ Known(r) = lo + 1 .. written
    BY <2>1 DEF CoverInv
  <2>3. Known(r)' = Known(r)
    BY <1>5, OfferKnown, SendHistoryKnown, HistorySentKnown, TakeLiveKnown, SendLiveKnown
    DEF MovesFrame, LifecycleInv
  <2> QED BY <2>1, <2>2, <2>3
<1>6. CASE ~Write /\ ~MovesFrame(r)
  <2>1. Serves(r) /\ pc'[r] = pc[r] /\ (r \in offers' <=> r \in offers)
        /\ (r \in subs => r \in subs')
    BY <1>6, OthersServed
  <2>2. Untouched(r)
    BY <1>6, OthersUntouched, RestUntouched DEF LifecycleInv
  <2>3. PICK lo \in 0 .. written : r \in subs /\ Known(r) = lo + 1 .. written
    BY <2>1 DEF CoverInv
  <2>4. Known(r)' = Known(r) /\ written' = written
    BY <2>1, <2>2, UntouchedKnown DEF Untouched
  <2> QED BY <2>1, <2>3, <2>4
<1> QED BY <1>3, <1>4, <1>5, <1>6

LEMMA AlwaysCovered == Spec => []CoverInv
<1>1. Init => CoverInv
  BY DEF Init, CoverInv, Serves
<1>2. (LifecycleInv /\ RingInv /\ OrderInv) /\ CoverInv /\ [Next]_vars => CoverInv'
  BY CoverStep
<1> QED BY <1>1, <1>2, AlwaysOrdered, PTL DEF Spec

(* What is sent, held or skipped with a warning has no hole: neither the    *)
(* wrap of the ring nor the hand-over to the live channel loses a frame.    *)
THEOREM NothingLostSilently == Spec => []NoSilentLoss
<1>1. ASSUME CoverInv PROVE NoSilentLoss
  <2> SUFFICES ASSUME NEW r \in Readers, Serves(r)
               PROVE  \A f \in Known(r) : f .. written \subseteq Known(r)
    BY DEF NoSilentLoss, Serves, Known
  <2>1. PICK lo \in 0 .. written : Known(r) = lo + 1 .. written
    BY <1>1 DEF CoverInv
  <2> QED BY <2>1
<1> QED BY <1>1, AlwaysCovered, PTL

-----------------------------------------------------------------------------
(* The ring implements FrameFeed.                                           *)

(* The readers that take part in FrameFeed, and what it says they are owed. *)
Joined == {r \in Readers : Serving(r)}
Due == [r \in Readers |-> IF Serving(r) THEN Held(r) ELSE {}]

(* Whoever is served is registered.                                         *)
RegisteredInv == \A r \in Readers : Serving(r) => r \in subs

LEMMA RegisteredStep ==
  ASSUME LifecycleInv, RegisteredInv, [Next]_vars
  PROVE  RegisteredInv'
<1> USE DEF LifecycleInv, TypeOK, RegisteredInv, Serving
<1>1. CASE Write
  BY <1>1 DEF Write
<1>2. CASE Broadcast
  BY <1>2 DEF Broadcast, AbandonBroadcast, Offer
<1>3. CASE \E r \in Readers : \E p \in Slots : ReadFromPos(r, p)
  BY <1>3 DEF ReadFromPos
<1>4. ASSUME NEW r \in Readers, Goroutine(r) PROVE RegisteredInv'
  BY <1>4 DEF Goroutine, Snapshot, SendHistory, HistorySent, TakeLive, SendLive, Leave,
     RemoveSubscriber
<1>5. ASSUME NEW r \in Readers, Receive(r) \/ UpstreamDone(r) PROVE RegisteredInv'
  BY <1>5 DEF Receive, UpstreamDone
<1>6. CASE CloseCancel \/ CloseWaited \/ CloseFinish
  BY <1>6 DEF CloseCancel, CloseWaited, CloseFinish
<1>7. CASE UNCHANGED vars
  BY <1>7 DEF vars
<1> QED BY <1>1, <1>2, <1>3, <1>4, <1>5, <1>6, <1>7 DEF Next

(* What a subscriber holds, by the places it has come to, before and after  *)
(* a step.                                                                  *)
LEMMA HeldIs ==
  ASSUME NEW r \in Readers, NEW x
  PROVE  /\ x \in Held(r) <=>
              \/ x \in Rest(history[r], sentHist[r]) \ {Nil}
              \/ x \in Rest(live[r], taken[r])
              \/ pc[r] = "forward" /\ x = live[r][taken[r]]
              \/ r \in offers /\ x = written
         /\ x \in Held(r)' <=>
              \/ x \in Rest(history'[r], sentHist'[r]) \ {Nil}
              \/ x \in Rest(live'[r], taken'[r])
              \/ pc'[r] = "forward" /\ x = live'[r][taken'[r]]
              \/ r \in offers' /\ x = written'
BY DEF Held, Rest

(* Three ways to see a step as one of FrameFeed: somebody is owed less, or  *)
(* as much as before ...                                                    *)
LEMMA LoseStep ==
  ASSUME written' = written, egress' = egress, Joined' = Joined,
         \A r \in Readers : Due'[r] \subseteq Due[r]
  PROVE  Feed!Lose
<1> DEFINE lost == [r \in Readers |-> Due[r] \ Due'[r]]
<1>1. lost \in [Readers -> SUBSET UNION {Due[r] : r \in Readers}]
  OBVIOUS
<1>2. Due' = [r \in Readers |-> Due[r] \ lost[r]]
  <2>1. Due' = [r \in Readers |-> Due'[r]]
    BY DEF Due
  <2>2. \A r \in Readers : Due'[r] = Due[r] \ lost[r]
    OBVIOUS
  <2> QED BY <2>1, <2>2
<1> QED BY <1>1, <1>2 DEF Feed!Lose, Due, Joined

(* ... or leaves ...                                                        *)
LEMMA LeaveStep ==
  ASSUME written' = written, egress' = egress, Joined' \subseteq Joined,
         \A r \in Joined' : Due'[r] = Due[r]
  PROVE  Feed!Leave
<1> DEFINE gone == Joined \ Joined'
<1>1. gone \in SUBSET Joined /\ Joined' = Joined \ gone
  OBVIOUS
<1>2. \A r \in Readers : Due'[r] \subseteq Due[r]
  BY DEF Due, Joined
<1>3. Due' = [r \in Readers |-> IF r \in gone THEN Due'[r] ELSE Due[r]]
  <2>1. Due' = [r \in Readers |-> Due'[r]]
    BY DEF Due
  <2>2. \A r \in Readers : Due'[r] = IF r \in gone THEN Due'[r] ELSE Due[r]
    BY DEF Due, Joined
  <2> QED BY <2>1, <2>2
<1> QED BY <1>1, <1>2, <1>3 DEF Feed!Leave, Due, Joined

(* ... or is given the first of the frames it is owed.                      *)
LEMMA DeliverStep ==
  ASSUME TypeOK, NEW r \in Readers, NEW f \in Due[r], \A g \in Due[r] : f <= g,
         written' = written, Joined' = Joined,
         egress' = [egress EXCEPT ![r] = Append(@, f)],
         Due'[r] = Due[r] \ {f},
         \A q \in Readers \ {r} : Due'[q] = Due[q]
  PROVE  Feed!Deliver(r)
<1>1. Due' = [Due EXCEPT ![r] = @ \ {f}]
  <2>1. Due' = [q \in Readers |-> Due'[q]] /\ Due = [q \in Readers |-> Due[q]]
    BY DEF Due
  <2> QED BY <2>1
<1> QED BY <1>1 DEF Feed!Deliver, Due, Joined

(* A reader of whom nothing is moved is owed what it was.                   *)
LEMMA StillDue ==
  ASSUME NEW r \in Readers, Untouched(r), pc'[r] = pc[r],
         r \in closedCh' <=> r \in closedCh
  PROVE  /\ Serving(r)' <=> Serving(r)
         /\ Due'[r] \subseteq Due[r]
         /\ (r \in offers' <=> r \in offers) => Due'[r] = Due[r]
<1>1. Serving(r)' <=> Serving(r)
  BY DEF Serving
<1>2. ASSUME NEW x PROVE x \in Held(r)' => x \in Held(r)
  BY HeldIs DEF Untouched
<1>3. ASSUME r \in offers' <=> r \in offers, NEW x PROVE x \in Held(r)' <=> x \in Held(r)
  BY <1>3, HeldIs DEF Untouched
<1>4. Held(r)' \subseteq Held(r)
  BY <1>2
<1>5. (r \in offers' <=> r \in offers) => Held(r)' = Held(r)
  BY <1>3, SameSet
<1> QED BY <1>1, <1>4, <1>5 DEF Due

(* While frames of r are moved, so is everybody else.                       *)
LEMMA OthersDue ==
  ASSUME TypeOK, NEW r \in Readers, MovesFrame(r)
  PROVE  \A q \in Readers \ {r} : (Serving(q)' <=> Serving(q)) /\ Due'[q] = Due[q]
<1> SUFFICES ASSUME NEW q \in Readers \ {r}
             PROVE  (Serving(q)' <=> Serving(q)) /\ Due'[q] = Due[q]
  OBVIOUS
<1>1. Untouched(q)
  BY OthersUntouched
<1>2. /\ pc'[q] = pc[q] /\ closedCh' = closedCh
      /\ q \in offers' <=> q \in offers
  BY DEF MovesFrame, Offer, Snapshot, SendHistory, HistorySent, TakeLive, SendLive, TypeOK
<1> QED BY <1>1, <1>2, StillDue

(* A step that moves frames of r and sends none.                            *)
LEMMA MoveLoses ==
  ASSUME TypeOK, NEW r \in Readers, MovesFrame(r), ~Snapshot(r), egress' = egress,
         Held(r)' \subseteq Held(r)
  PROVE  Feed!Lose
<1>1. written' = written /\ (Serving(r)' <=> Serving(r))
  BY DEF MovesFrame, Offer, SendHistory, HistorySent, TakeLive, SendLive, TypeOK, Serving,
     ringVars
<1>2. \A q \in Readers : (Serving(q)' <=> Serving(q)) /\ Due'[q] \subseteq Due[q]
  BY <1>1, OthersDue DEF Due
<1>3. Joined' = Joined
  BY <1>2 DEF Joined
<1> QED BY <1>1, <1>2, <1>3, LoseStep

(* A step that sends a frame of r: it is the first r holds.                 *)
LEMMA MoveDelivers ==
  ASSUME TypeOK, NEW r \in Readers, SendHistory(r) \/ SendLive(r), NEW f \in Frame,
         Forward(r, f), egress' = [egress EXCEPT ![r] = Append(@, f)],
         \A x : x \in Held(r) <=> x = f \/ x \in Held(r)',
         \A x \in Held(r)' : x \in Nat /\ f < x
  PROVE  Feed!Deliver(r)
<1>1. /\ written' = written /\ Serving(r) /\ Serving(r)' /\ MovesFrame(r)
  BY DEF MovesFrame, SendHistory, SendLive, Forward, TypeOK, Serving, ringVars
<1>2. f \in Nat
  BY DEF Frame
<1>3. Held(r)' = Held(r) \ {f}
  <2>1. ASSUME NEW x PROVE x \in Held(r)' <=> x \in Held(r) \ {f}
    BY <1>2
  <2> QED BY <2>1, SameSet
<1>4. f \in Due[r] /\ (\A g \in Due[r] : f <= g) /\ Due'[r] = Due[r] \ {f}
  <2>1. Due[r] = Held(r) /\ Due'[r] = Held(r)'
    BY <1>1 DEF Due
  <2>2. \A g \in Held(r) : g = f \/ (g \in Nat /\ f < g)
    OBVIOUS
  <2>3. \A g \in Held(r) : f <= g
    BY <1>2, <2>2
  <2> QED BY <1>3, <2>1, <2>3
<1>5. Joined' = Joined
  BY <1>1, OthersDue DEF Joined
<1> QED BY <1>1, <1>4, <1>5, OthersDue, DeliverStep

LEMMA OfferFeed ==
  ASSUME LifecycleInv, NEW r \in Readers, Offer(r)
  PROVE  Feed!Lose
<1> USE DEF LifecycleInv
<1>1. /\ r \in offers /\ r \notin offers' /\ written' = written /\ written \in Frame
      /\ UNCHANGED <<history, sentHist, taken, egress, pc>>
  BY DEF Offer, BroadcastInv, Locked, TypeOK, Frame, ringVars
<1>2. ASSUME NEW x PROVE x \in Held(r)' => x \in Held(r)
  <2>1. CASE live' = live
    BY <1>1, <2>1, HeldIs
  <2>2. CASE live' = [live EXCEPT ![r] = Append(@, written)]
    <3>1. live'[r] = Append(live[r], written) /\ live[r] \in Seq(Frame)
          /\ Len(live[r]) - taken[r] \in 0 .. LiveChCap /\ taken[r] \in Nat
          /\ Len(live[r]) \in Nat
      BY <2>2 DEF TypeOK, LiveLen
    <3>2. taken[r] \in 0 .. Len(live[r])
      BY <3>1, ChannelAssumption
    <3>3. Rest(live'[r], taken[r]) = Rest(live[r], taken[r]) \cup {written}
      BY <1>1, <3>1, <3>2, RestAppend
    <3>4. pc[r] = "forward" => live'[r][taken[r]] = live[r][taken[r]]
      <4>1. pc[r] = "forward" => taken[r] \in 1 .. Len(live[r])
        BY <3>1, <3>2 DEF ForwardInv
      <4> QED BY <3>1, <4>1
    <3> QED BY <1>1, <3>3, <3>4, HeldIs
  <2> QED BY <2>1, <2>2 DEF Offer
<1>3. Held(r)' \subseteq Held(r)
  BY <1>2
<1> QED BY <1>1, <1>3, MoveLoses DEF MovesFrame, Offer, Snapshot

LEMMA TakeFeed ==
  ASSUME TypeOK, NEW r \in Readers, TakeLive(r) \/ HistorySent(r)
  PROVE  Feed!Lose
<1>0. egress' = egress /\ ~Snapshot(r) /\ MovesFrame(r)
  BY DEF TakeLive, HistorySent, Snapshot, MovesFrame, chanVars
<1>1. ASSUME NEW x, TakeLive(r) PROVE x \in Held(r)' => x \in Held(r)
  <2> DEFINE t == taken[r]
  <2>1. /\ t \in Nat /\ t < Len(live[r]) /\ taken'[r] = t + 1 /\ live[r] \in Seq(Frame)
        /\ pc[r] = "live" /\ pc'[r] = "forward"
        /\ UNCHANGED <<history, sentHist, live, offers, written>>
    BY <1>1 DEF TakeLive, TypeOK, LiveLen, ringVars
  <2> HIDE DEF t
  <2>2. Rest(live[r], t) = Rest(live[r], t + 1) \cup {live[r][t + 1]}
    BY <2>1, RestNext
  <2> QED BY <2>1, <2>2, HeldIs DEF t
<1>2. ASSUME NEW x, HistorySent(r) PROVE x \in Held(r)' => x \in Held(r)
  <2>1. /\ pc'[r] = "live"
        /\ UNCHANGED <<history, sentHist, live, taken, offers, written>>
    BY <1>2 DEF HistorySent, TypeOK, ringVars, chanVars
  <2> QED BY <2>1, HeldIs
<1>3. Held(r)' \subseteq Held(r)
  BY <1>1, <1>2
<1> QED BY <1>0, <1>3, MoveLoses

(* The history is sent from its first frame on, before all of the live      *)
(* channel.                                                                 *)
LEMMA SendHistoryFeed ==
  ASSUME TypeOK, NEW r \in Readers, SendHistory(r), NEW w \in Nat, Kept(r, w)
  PROVE  Feed!Lose \/ Feed!Deliver(r)
<1> DEFINE n == Len(history[r])
           k == sentHist[r] + 1
           f == history[r][k]
<1>1. /\ n \in Nat /\ k \in 1 .. n /\ k \in Nat /\ sentHist'[r] = k /\ sentHist[r] = k - 1
      /\ w \in 0 .. written /\ written \in Nat
      /\ history[r] \in Seq(Frame \cup {Nil}) /\ f \in Frame \cup {Nil}
      /\ UNCHANGED <<history, live, taken, pc, offers, written>>
      /\ MovesFrame(r) /\ ~Snapshot(r) /\ pc[r] = "history" /\ taken[r] = 0
  BY SMTT(30) DEF SendHistory, TypeOK, ringVars, MovesFrame, Snapshot, Kept, SentBefore
<1>2. \A i \in 1 .. n : history[r][i] = IF w - n + i > 0 THEN w - n + i ELSE Nil
  BY DEF Kept, CopiedAt
<1>3. Rest(history[r], sentHist[r]) = Rest(history[r], k) \cup {f}
  <2> DEFINE m == sentHist[r]
  <2>1. m \in Nat /\ m < Len(history[r]) /\ k = m + 1
    BY DEF SendHistory, TypeOK
  <2> HIDE DEF m
  <2>2. Rest(history[r], m) = Rest(history[r], m + 1) \cup {history[r][m + 1]}
    BY <1>1, <2>1, RestNext
  <2> QED BY <2>1, <2>2 DEF m
<1>4. ASSUME NEW x PROVE x \in Held(r) <=> (f # Nil /\ x = f) \/ x \in Held(r)'
  BY <1>1, <1>3, HeldIs
<1>5. CASE egress' = egress
  <2>1. Held(r)' \subseteq Held(r)
    BY <1>4
  <2> QED BY <1>1, <1>5, <2>1, MoveLoses
<1>6. CASE f # Nil /\ Forward(r, f) /\ egress' = [egress EXCEPT ![r] = Append(@, f)]
  <2>1. f = w - n + k /\ f \in Frame /\ f \in Nat /\ f <= w
    <3>1. f = IF w - n + k > 0 THEN w - n + k ELSE Nil
      BY <1>1, <1>2
    <3>2. f \in Frame /\ f # Nil
      BY <1>1, <1>6
    <3>3. n \in Nat /\ k \in 1 .. n
      BY <1>1
    <3> HIDE DEF f, k, n
    <3>4. f = w - n + k /\ w - n + k > 0
      BY <3>1, <3>2
    <3> QED BY <3>2, <3>3, <3>4
  <2>2. ASSUME NEW x \in Held(r)' PROVE x \in Nat /\ f < x
    <3>1. CASE x \in Rest(history[r], k) \ {Nil}
      <4>1. PICK i \in k + 1 .. n : x = history[r][i]
        BY <3>1 DEF Rest
      <4>2. i \in 1 .. n /\ i > k
        BY <1>1, <4>1
      <4>3. x = w - n + i /\ w - n + i > 0
        BY <1>2, <3>1, <4>1, <4>2
      <4> HIDE DEF f, k, n
      <4> QED BY <1>1, <2>1, <4>2, <4>3
    <3>2. CASE x \in Rest(live[r], taken[r])
      <4>1. PICK j \in 1 .. Len(live[r]) : x = live[r][j]
        BY <1>1, <3>2 DEF Rest
      <4>2. x \in Nat /\ w < x
        BY <4>1, FramesAreNumbers DEF TypeOK, Kept, LiveAfter
      <4> QED BY <1>1, <2>1, <4>2
    <3>3. CASE r \in offers /\ x = written
      BY <1>1, <2>1, <3>3 DEF Kept, LiveAfter
    <3> QED BY <1>1, <2>2, <3>1, <3>2, <3>3, HeldIs
  <2>3. \A x : x \in Held(r) <=> x = f \/ x \in Held(r)'
    BY <1>4, <1>6
  <2> HIDE DEF f
  <2> QED BY <1>6, <2>1, <2>2, <2>3, MoveDelivers
<1> QED BY <1>5, <1>6 DEF SendHistory, Forward

(* The live channel is sent in its order.                                   *)
LEMMA SendLiveFeed ==
  ASSUME TypeOK, ForwardInv, NEW r \in Readers, SendLive(r), NEW w \in Nat, Kept(r, w)
  PROVE  Feed!Lose \/ Feed!Deliver(r)
<1> DEFINE t == taken[r]
           f == live[r][t]
<1>1. /\ pc[r] = "forward" /\ pc'[r] = "live" /\ t \in Nat /\ t \in 1 .. Len(live[r])
      /\ Len(live[r]) \in Nat
      /\ UNCHANGED <<history, sentHist, live, taken, offers, written>>
      /\ Forward(r, f) /\ MovesFrame(r) /\ ~Snapshot(r)
      /\ sentHist[r] = Len(history[r]) /\ Len(history[r]) \in Nat
  <2>1. t > 0 /\ t \in Nat /\ Len(live[r]) \in Nat /\ Len(live[r]) - t \in 0 .. LiveChCap
    BY DEF SendLive, ForwardInv, TypeOK, LiveLen
  <2>2. t \in 1 .. Len(live[r])
    BY <2>1, ChannelAssumption
  <2> QED BY <2>1, <2>2 DEF SendLive, TypeOK, ringVars, MovesFrame, Snapshot, Kept, SentBefore
<1>2. ASSUME NEW x PROVE x \in Held(r) <=> x = f \/ x \in Held(r)'
  BY <1>1, HeldIs
<1>3. CASE egress' = egress
  <2>1. Held(r)' \subseteq Held(r)
    BY <1>2
  <2> QED BY <1>1, <1>3, <2>1, MoveLoses
<1>4. CASE egress' = [egress EXCEPT ![r] = Append(@, f)]
  <2>1. f \in Frame /\ f \in Nat
    BY <1>1, FramesAreNumbers DEF TypeOK
  <2>2. ASSUME NEW x \in Held(r)' PROVE x \in Nat /\ f < x
    <3>1. x \notin Rest(history[r], sentHist[r])
      BY <1>1 DEF Rest
    <3>2. CASE x \in Rest(live[r], t)
      <4>1. PICK j \in t + 1 .. Len(live[r]) : x = live[r][j]
        BY <3>2 DEF Rest
      <4>2. j \in 1 .. Len(live[r]) /\ t < j
        BY <1>1, <4>1
      <4>3. x \in Nat
        BY <4>1, <4>2, FramesAreNumbers DEF TypeOK
      <4> QED BY <1>1, <4>1, <4>2, <4>3 DEF Kept, LiveAfter
    <3>3. CASE r \in offers /\ x = written
      BY <1>1, <3>3 DEF Kept, LiveAfter, TypeOK
    <3> QED BY <1>1, <2>2, <3>1, <3>2, <3>3, HeldIs
  <2>3. \A x : x \in Held(r) <=> x = f \/ x \in Held(r)'
    BY <1>2
  <2> HIDE DEF f
  <2> QED BY <1>1, <1>4, <2>1, <2>2, <2>3, MoveDelivers
<1> QED BY <1>1, <1>3, <1>4 DEF Forward

(* A frame written is published.                                            *)
LEMMA WriteFeed ==
  ASSUME LifecycleInv, RegisteredInv, Write
  PROVE  Feed!Publish
<1>1. /\ written' = written + 1 /\ egress' = egress /\ offers = {} /\ offers' = subs
      /\ UNCHANGED <<history, sentHist, live, taken, pc, closedCh>>
  BY DEF Write, Locked, chanVars
<1>2. \A r \in Readers : Serving(r)' <=> Serving(r)
  BY <1>1 DEF Serving
<1>3. ASSUME NEW r \in Readers, Serving(r) PROVE Held(r)' = Held(r) \cup {written + 1}
  <2>1. r \in subs
    BY <1>3 DEF RegisteredInv
  <2>2. ASSUME NEW x PROVE x \in Held(r)' <=> x \in Held(r) \cup {written + 1}
    BY <1>1, <2>1, HeldIs
  <2> QED BY <2>2, SameSet
<1>4. Joined' = Joined
  BY <1>2 DEF Joined
<1>5. Due' = [r \in Readers |-> IF r \in Joined THEN Due[r] \cup {written + 1} ELSE Due[r]]
  <2>1. \A r \in Readers : Due'[r] = IF r \in Joined THEN Due[r] \cup {written + 1} ELSE Due[r]
    BY <1>2, <1>3 DEF Due, Joined
  <2>2. Due' = [r \in Readers |-> Due'[r]]
    BY DEF Due
  <2> QED BY <2>1, <2>2
<1> QED BY <1>1, <1>4, <1>5 DEF Feed!Publish, Due, Joined

(* A reader joins with the copy of its history.                             *)
LEMMA SnapshotFeed ==
  ASSUME LifecycleInv, RingInv, OrderInv, NEW r \in Readers, Snapshot(r)
  PROVE  Feed!Join(r)
<1>1. /\ written' = written /\ egress' = egress /\ written \in Nat /\ r \notin closedCh
      /\ pc[r] = "started" /\ pc'[r] = "history" /\ closedCh' = closedCh
      /\ MovesFrame(r) /\ egress[r] = <<>> /\ skipped'[r] = {}
  BY DEF Snapshot, MovesFrame, LifecycleInv, TypeOK, LifeInv, Active, ringVars, OrderInv,
     Kept, NothingYet
<1>2. ~Serving(r) /\ Serving(r)'
  BY <1>1 DEF Serving
<1>3. PICK lo \in 0 .. written : Known(r)' = lo + 1 .. written
  BY SnapshotKnown
<1>4. Held(r)' = lo + 1 .. written
  <2>1. Known(r)' = Held(r)'
    <3>1. Rest(egress'[r], 0) = {}
      BY <1>1 DEF Rest
    <3>2. ASSUME NEW x PROVE x \in Known(r)' <=> x \in Held(r)'
      BY <1>1, <3>1, KnownIs, HeldIs
    <3> QED BY <3>2, SameSet
  <2> QED BY <1>3, <2>1
<1>5. r \notin Joined /\ Joined' = Joined \cup {r}
  BY <1>1, <1>2, OthersDue DEF Joined, LifecycleInv
<1>6. Due' = [Due EXCEPT ![r] = lo + 1 .. written]
  <2>1. Due' = [q \in Readers |-> Due'[q]] /\ Due = [q \in Readers |-> Due[q]]
    BY DEF Due
  <2>2. Due'[r] = lo + 1 .. written
    BY <1>2, <1>4 DEF Due
  <2>3. \A q \in Readers \ {r} : Due'[q] = Due[q]
    BY <1>1, OthersDue DEF LifecycleInv
  <2> QED BY <2>1, <2>2, <2>3
<1>7. lo + 1 \in 1 .. written + 1
  BY <1>1
<1> QED BY <1>1, <1>5, <1>6, <1>7 DEF Feed!Join, Due, Joined

(* A goroutine that ends, and Close, make readers leave.                    *)
LEMMA EndFeed ==
  ASSUME TypeOK, (\E r \in Readers : Leave(r) \/ RemoveSubscriber(r)) \/ CloseFinish
  PROVE  Feed!Leave
<1>1. ASSUME NEW q \in Readers
      PROVE  /\ written' = written /\ egress' = egress /\ offers' = offers
             /\ Untouched(q) /\ (Serving(q)' => Serving(q) /\ pc'[q] = pc[q])
  BY DEF TypeOK, Leave, RemoveSubscriber, CloseFinish, Untouched, Serving, ringVars, chanVars
<1>2. written' = written /\ egress' = egress
  BY DEF Leave, RemoveSubscriber, CloseFinish, ringVars, chanVars
<1>3. ASSUME NEW q \in Joined' PROVE q \in Joined /\ Due'[q] = Due[q]
  <2>1. q \in Readers /\ Serving(q)'
    BY <1>3 DEF Joined
  <2>2. Serving(q) /\ pc'[q] = pc[q] /\ Untouched(q) /\ offers' = offers
    BY <1>1, <2>1
  <2>3. q \in closedCh' <=> q \in closedCh
    BY <2>1, <2>2 DEF Serving
  <2> QED BY <2>1, <2>2, <2>3, StillDue DEF Joined
<1> QED BY <1>2, <1>3, LeaveStep

(* The other steps are none of FrameFeed.                                   *)
LEMMA RestFeed ==
  ASSUME TypeOK,
         \/ AbandonBroadcast
         \/ \E r \in Readers : \E p \in Slots : ReadFromPos(r, p)
         \/ \E r \in Readers : Receive(r) \/ UpstreamDone(r)
         \/ CloseCancel \/ CloseWaited \/ UNCHANGED vars
  PROVE  Feed!Lose
<1>1. ASSUME NEW q \in Readers
      PROVE  (Serving(q)' <=> Serving(q)) /\ Due'[q] \subseteq Due[q]
  <2>1. Untouched(q) /\ closedCh' = closedCh
    BY DEF TypeOK, AbandonBroadcast, ReadFromPos, Receive, UpstreamDone, CloseCancel,
       CloseWaited, vars, Untouched, ringVars, chanVars
  <2>2. CASE pc'[q] = pc[q]
    BY <2>1, <2>2, StillDue
  <2>3. CASE pc'[q] # pc[q]
    <3>1. pc[q] = "idle" /\ pc'[q] = "started"
      BY <2>3 DEF TypeOK, AbandonBroadcast, ReadFromPos, Receive, UpstreamDone,
         CloseCancel, CloseWaited, vars
    <3> QED BY <3>1 DEF Serving, Due
  <2> QED BY <2>2, <2>3
<1>2. written' = written /\ egress' = egress
  BY DEF AbandonBroadcast, ReadFromPos, Receive, UpstreamDone, CloseCancel, CloseWaited,
     vars, ringVars, chanVars
<1>3. Joined' = Joined
  BY <1>1 DEF Joined
<1> QED BY <1>1, <1>2, <1>3, LoseStep

LEMMA FeedStep ==
  ASSUME LifecycleInv, RingInv, OrderInv, RegisteredInv, [Next]_vars
  PROVE  Feed!Next
<1>1. CASE Write
  BY <1>1, WriteFeed DEF Feed!Next
<1>2. ASSUME NEW r \in Readers, MovesFrame(r) PROVE Feed!Next
  <2>1. PICK w \in 0 .. written : Kept(r, w)
    BY DEF OrderInv
  <2>2. w \in Nat /\ LifecycleInv /\ TypeOK /\ ForwardInv
    BY DEF LifecycleInv
  <2>3. Feed!Lose \/ Feed!Deliver(r) \/ Feed!Join(r)
    BY <1>2, <2>1, <2>2, OfferFeed, SnapshotFeed, SendHistoryFeed, TakeFeed, SendLiveFeed
    DEF MovesFrame
  <2> QED BY <2>3 DEF Feed!Next
<1>3. CASE (\E r \in Readers : Leave(r) \/ RemoveSubscriber(r)) \/ CloseFinish
  BY <1>3, EndFeed DEF LifecycleInv, Feed!Next
<1>4. CASE \/ AbandonBroadcast
           \/ \E r \in Readers : \E p \in Slots : ReadFromPos(r, p)
           \/ \E r \in Readers : Receive(r) \/ UpstreamDone(r)
           \/ CloseCancel \/ CloseWaited \/ UNCHANGED vars
  BY <1>4, RestFeed DEF LifecycleInv, Feed!Next
<1> QED BY <1>1, <1>2, <1>3, <1>4 DEF Next, Broadcast, Goroutine, MovesFrame

LEMMA InitFeed == Init => Feed!Init
<1> SUFFICES ASSUME Init PROVE Feed!Init
  OBVIOUS
<1>1. \A r \in Readers : ~Serving(r)
  BY DEF Init, Serving
<1> QED BY <1>1 DEF Init, Feed!Init

(* The ring keeps the promise of FrameFeed, for any readers and capacities: *)
(* each step of writer, broadcast, goroutines, consumers and Close is a     *)
(* step of the feed, or one in which nobody is owed anything else.          *)
THEOREM RingImplementsFeed == Spec => FeedSpec
<1>1. Init => Feed!Init
  BY InitFeed
<1>2. Init => RegisteredInv
  BY DEF Init, RegisteredInv, Serving
<1>3. (LifecycleInv /\ RingInv /\ OrderInv) /\ RegisteredInv /\ [Next]_vars => RegisteredInv'
  BY RegisteredStep
<1>4. (LifecycleInv /\ RingInv /\ OrderInv) /\ RegisteredInv /\ [Next]_vars
        => [Feed!Next]_Feed!vars
  BY FeedStep
<1> QED BY <1>1, <1>2, <1>3, <1>4, AlwaysOrdered, PTL DEF Spec, FeedSpec, Feed!Spec
=============================================================================
