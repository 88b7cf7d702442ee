---------------------------- MODULE HavenProofs -----------------------------
(***************************************************************************)
(* Proofs about the Haven, for any number of publishers, escorts and       *)
(* viewers.                                                                *)
(***************************************************************************)
EXTENDS Haven, TLAPS

(* The steps of clearPublisher at which the session is still whole, with    *)
(* the wait before them.                                                    *)
Whole == {"wait", "clearEscorts", "dropEscorts", "clearViewers", "closeViewers",
          "dropPublisher"}

(* A monitor that waits or clears is that of the session's publisher; what  *)
(* is left of the session follows from where it is, and it clears only      *)
(* after its publisher has gone.                                            *)
MonitorOf(p) ==
  /\ mon[p] \in {"wait"} \cup ClearSteps => demuxer = p
  /\ mon[p] \in Whole => publisher = p /\ buffer = p
  /\ mon[p] \in {"closeBuffer", "dropBuffer"} => publisher = None /\ buffer = p
  /\ mon[p] \in {"closeDemuxer", "dropDemuxer"} => publisher = None /\ buffer = None
  /\ mon[p] \in ClearSteps => p \in ctxDone

Monitors == \A p \in Pubs : MonitorOf(p)

(* A connection that has yet to be added owns nothing, and nothing that was *)
(* closed was its own.                                                      *)
Fresh ==
  \A p \in Pubs : reader[p] = "none" =>
    /\ publisher # p /\ buffer # p /\ demuxer # p
    /\ p \notin closedBufs \cup closedDemuxers

(* Close gets the locks when no monitor is left, drops the publisher with   *)
(* them, and lets nobody in before it is through.                           *)
Emptied ==
  closing = "viewers" =>
    publisher = None /\ \A p \in Pubs : mon[p] \notin {"wait"} \cup ClearSteps

SInv == Monitors /\ Fresh /\ SessionConsistent /\ Emptied

-----------------------------------------------------------------------------
(* Types.                                                                   *)

LEMMA InitType == Init => TypeOK
<1> SUFFICES ASSUME Init PROVE TypeOK
  OBVIOUS
<1>1. egress \in [Pubs -> 0 .. EgressCap]
  BY EgressAssumption DEF Init
<1>2. mon \in [Conns -> {"none"}]
  BY DEF Init
<1> QED BY <1>1, <1>2 DEF Init, TypeOK, PubOrNone, ClearSteps

(* The steps of whoever closes the viewers.                                 *)
LEMMA CloserType ==
  ASSUME TypeOK, CloseNext \/ NextClosed
  PROVE  /\ viewers' \subseteq Viewers /\ victim' \in Viewers \cup {None}
         /\ ctxDone' \subseteq Conns /\ ctxDone \subseteq ctxDone'
BY DEF TypeOK, CloseNext, NextClosed, Conns

(* The steps of a publisher's monitor: the buffer and the demuxer it closes *)
(* are there.                                                               *)
LEMMA MonitorType ==
  ASSUME TypeOK, Monitors, NEW p \in Pubs, ClosePublisher(p) \/ Clear(p)
  PROVE  TypeOK'
<1> USE DEF TypeOK, PubOrNone, ClearSteps, At, Conns, session, pump, escortVars,
            viewerVars, closeVars
<1>1. CASE ClosePublisher(p)
  BY <1>1 DEF ClosePublisher
<1>2. CASE StartClear(p)
  BY <1>2 DEF StartClear
<1>3. CASE ClearEscorts(p)
  BY <1>3 DEF ClearEscorts
<1>4. CASE DropEscorts(p)
  BY <1>4 DEF DropEscorts
<1>5. CASE ClearViewers(p)
  BY <1>5, CloserType DEF ClearViewers
<1>6. CASE DropPublisher(p)
  BY <1>6 DEF DropPublisher
<1>7. CASE DropBuffer(p)
  BY <1>7 DEF DropBuffer
<1>8. CASE DropDemuxer(p)
  BY <1>8 DEF DropDemuxer
<1>9. CASE CloseBuffer(p)
  <2>1. buffer = p
    BY <1>9 DEF CloseBuffer, Monitors, MonitorOf
  <2> QED BY <1>9, <2>1 DEF CloseBuffer
<1>10. CASE CloseDemuxer(p)
  <2>1. demuxer = p
    BY <1>10 DEF CloseDemuxer, Monitors, MonitorOf
  <2> QED BY <1>10, <2>1 DEF CloseDemuxer
<1>11. CASE LockViewers(p)
  BY <1>11 DEF LockViewers
<1>12. CASE UnlockViewers(p)
  BY <1>12 DEF UnlockViewers
<1> QED BY <1>1, <1>2, <1>3, <1>4, <1>5, <1>6, <1>7, <1>8, <1>9, <1>10, <1>11, <1>12
        DEF Clear

(* The steps of a publisher's reader, demuxer and writer.                   *)
Pumps(p) ==
  \/ StartReader(p) \/ ReadPublisher(p) \/ EndReader(p)
  \/ Demux(p) \/ EndDemuxer(p)
  \/ TakeFrame(p) \/ WriteFrame(p) \/ EndWriter(p)

(* A writer that has a frame, or will get one, has a source.                *)
Sources ==
  /\ \A p \in Pubs :
       reader[p] \in {"loop", "done"} \/ egress[p] > 0 \/ writer[p] = "holding" =>
         source[p] \in Pubs
  /\ \A p \in Pubs : source[p] # None => source[p] = publisher \/ source[p] \in ctxDone

LEMMA PumpType ==
  ASSUME TypeOK, Sources, NEW p \in Pubs, Pumps(p)
  PROVE  TypeOK'
<1> USE DEF TypeOK, PubOrNone, session, escortVars, viewerVars, closeVars
<1>0. CASE Crash
  BY <1>0 DEF Crash, pump
<1>1. CASE StartReader(p) /\ ~Crash
  BY <1>1 DEF StartReader
<1>2. CASE ReadPublisher(p) /\ ~Crash
  BY <1>2 DEF ReadPublisher
<1>3. CASE EndReader(p)
  BY <1>3 DEF EndReader
<1>4. CASE Demux(p)
  <2>1. egress'[p] \in 0 .. EgressCap
    BY <1>4, EgressAssumption DEF Demux
  <2>2. egress' \in [Pubs -> 0 .. EgressCap]
    BY <1>4, <2>1 DEF Demux
  <2> QED BY <1>4, <2>2 DEF Demux
<1>5. CASE EndDemuxer(p)
  BY <1>5 DEF EndDemuxer
<1>6. CASE TakeFrame(p)
  <2>1. egress'[p] \in 0 .. EgressCap
    BY <1>6, EgressAssumption DEF TakeFrame
  <2>2. egress' \in [Pubs -> 0 .. EgressCap]
    BY <1>6, <2>1 DEF TakeFrame
  <2> QED BY <1>6, <2>2 DEF TakeFrame
<1>7. CASE WriteFrame(p) /\ ~Crash
  <2>1. source[p] \in Pubs
    BY <1>7 DEF WriteFrame, Sources
  <2>2. content' \in [Pubs -> SUBSET Pubs]
    BY <1>7, <2>1 DEF WriteFrame
  <2> QED BY <1>7, <2>2 DEF WriteFrame
<1>8. CASE EndWriter(p)
  BY <1>8 DEF EndWriter
<1> QED BY <1>0, <1>1, <1>2, <1>3, <1>4, <1>5, <1>6, <1>7, <1>8 DEF Pumps

LEMMA EscortType ==
  ASSUME TypeOK, NEW e \in Escorts, EscortStep(e)
  PROVE  TypeOK'
<1> USE DEF TypeOK, At, Conns, ClearSteps, session, pump, viewerVars, closeVars
<1>1. CASE ReadEscorts(e)
  BY <1>1 DEF ReadEscorts
<1>2. CASE AppendEscort(e)
  BY <1>2 DEF AppendEscort
<1>3. CASE CloseEscort(e)
  BY <1>3 DEF CloseEscort, escortVars
<1>4. CASE RemoveEscort(e)
  BY <1>4 DEF RemoveEscort
<1> QED BY <1>1, <1>2, <1>3, <1>4 DEF EscortStep

LEMMA ViewerType ==
  ASSUME TypeOK, NEW v \in Viewers, ViewerStep(v)
  PROVE  TypeOK'
<1> USE DEF TypeOK, At, Conns, ClearSteps, session, pump, escortVars, closeVars
<1>1. CASE CheckPublisher(v)
  BY <1>1 DEF CheckPublisher
<1>2. CASE ListViewer(v)
  BY <1>2 DEF ListViewer
<1>3. CASE Subscribe(v)
  BY <1>3 DEF Subscribe
<1>4. CASE ServeViewer(v)
  BY <1>4 DEF ServeViewer
<1>5. CASE CloseViewer(v) \/ ViewerClosed(v)
  BY <1>5 DEF CloseViewer, ViewerClosed, viewerVars
<1>6. CASE RemoveViewer(v)
  BY <1>6 DEF RemoveViewer
<1>7. CASE WriteViewer(v)
  BY <1>7 DEF WriteViewer
<1>8. CASE RelayEnds(v) \/ RelayHangs(v)
  BY <1>8 DEF RelayEnds, RelayHangs
<1> QED BY <1>1, <1>2, <1>3, <1>4, <1>5, <1>6, <1>7, <1>8 DEF ViewerStep

LEMMA HavenType ==
  ASSUME TypeOK, (\E p \in Pubs : AddPublisher(p)) \/ (\E c \in Conns : ConnectionEnds(c))
                 \/ CancelHaven \/ Close
  PROVE  TypeOK'
<1> USE DEF TypeOK, PubOrNone, session, pump, escortVars, viewerVars, closeVars
<1>1. ASSUME NEW p \in Pubs, AddPublisher(p) PROVE TypeOK'
  BY <1>1 DEF AddPublisher, At, Conns, ClearSteps
<1>2. ASSUME NEW c \in Conns, ConnectionEnds(c) PROVE TypeOK'
  BY <1>2 DEF ConnectionEnds
<1>3. CASE CancelHaven
  BY <1>3 DEF CancelHaven
<1>4. CASE CloseHaven
  BY <1>4 DEF CloseHaven, Conns
<1>5. CASE CloseViewers
  BY <1>5, CloserType DEF CloseViewers
<1>6. CASE FinishClose
  BY <1>6 DEF FinishClose
<1> QED BY <1>1, <1>2, <1>3, <1>4, <1>5, <1>6 DEF Close

LEMMA StepType ==
  ASSUME TypeOK, Monitors, Sources, [Next]_vars
  PROVE  TypeOK'
<1>1. CASE UNCHANGED vars
  BY <1>1 DEF vars, TypeOK, session, pump, escortVars, viewerVars, closeVars
<1>2. ASSUME NEW p \in Pubs, PublisherStep(p) PROVE TypeOK'
  BY <1>2, MonitorType, PumpType DEF PublisherStep, Pumps
<1> QED BY <1>1, <1>2, HavenType, EscortType, ViewerType DEF Next

-----------------------------------------------------------------------------
(* The session.                                                             *)

(* What all steps but those of publishers' arrivals, of their monitors and  *)
(* of Close have in common.                                                 *)
Calm ==
  /\ UNCHANGED session
  /\ \A p \in Pubs : mon'[p] = mon[p]
  /\ ctxDone \subseteq ctxDone'
  /\ \A p \in Pubs : reader[p] # "none" => reader'[p] # "none"
  /\ closing' = "viewers" <=> closing = "viewers"

LEMMA CalmHolds ==
  ASSUME SInv, Calm
  PROVE  SInv'
<1> USE DEF SInv, Calm, session
<1>1. Monitors'
  BY DEF Monitors, MonitorOf
<1>2. Fresh' /\ Emptied'
  BY DEF Fresh, Emptied
<1>3. SessionConsistent'
  BY DEF SessionConsistent, PublisherMtxFree
<1> QED BY <1>1, <1>2, <1>3

LEMMA CalmSteps ==
  ASSUME TypeOK
  PROVE  /\ \A p \in Pubs : Pumps(p) => Calm
         /\ \A e \in Escorts : EscortStep(e) => Calm
         /\ \A v \in Viewers : ViewerStep(v) => Calm
         /\ \A c \in Conns : ConnectionEnds(c) => Calm
         /\ \A p \in Pubs : ClearViewers(p) => Calm
         /\ CancelHaven \/ CloseViewers \/ UNCHANGED vars => Calm
<1>1. ASSUME NEW p \in Pubs, Pumps(p) PROVE Calm
  BY <1>1 DEF TypeOK, Calm, Pumps, Crash, StartReader, ReadPublisher, EndReader, Demux,
     EndDemuxer, TakeFrame, WriteFrame, EndWriter, pump, closeVars
<1>2. ASSUME NEW e \in Escorts, EscortStep(e) PROVE Calm
  <2>1. e \notin Pubs
    BY KindsAssumption
  <2>2. /\ mon' = [mon EXCEPT ![e] = mon'[e]]
        /\ UNCHANGED <<session, reader, closing>> /\ ctxDone \subseteq ctxDone'
    BY <1>2 DEF TypeOK, EscortStep, ReadEscorts, AppendEscort, CloseEscort,
       RemoveEscort, At, pump, closeVars
  <2>3. \A p \in Pubs : mon'[p] = mon[p]
    BY <2>1, <2>2 DEF TypeOK, Conns
  <2> QED BY <2>2, <2>3 DEF Calm
<1>3. ASSUME NEW v \in Viewers, ViewerStep(v) PROVE Calm
  <2>1. v \notin Pubs
    BY KindsAssumption
  <2>2. /\ mon' = [mon EXCEPT ![v] = mon'[v]]
        /\ UNCHANGED <<session, reader, closing>> /\ ctxDone \subseteq ctxDone'
    BY <1>3 DEF TypeOK, ViewerStep, CheckPublisher, ListViewer, Subscribe, WriteViewer,
       ServeViewer, RelayEnds, RelayHangs, CloseViewer, ViewerClosed, RemoveViewer, At,
       pump, closeVars
  <2>3. \A p \in Pubs : mon'[p] = mon[p]
    BY <2>1, <2>2 DEF TypeOK, Conns
  <2> QED BY <2>2, <2>3 DEF Calm
<1>4. ASSUME NEW c \in Conns, ConnectionEnds(c) PROVE Calm
  BY <1>4 DEF Calm, ConnectionEnds, pump, closeVars
<1>5. ASSUME CancelHaven \/ UNCHANGED vars PROVE Calm
  BY <1>5 DEF Calm, CancelHaven, vars, pump, closeVars
<1>6. ASSUME CloseViewers \/ \E p \in Pubs : ClearViewers(p) PROVE Calm
  BY <1>6, CloserType DEF Calm, CloseViewers, ClearViewers, pump, closeVars
<1> QED BY <1>1, <1>2, <1>3, <1>4, <1>5, <1>6

(* No monitor but that of the publisher waits, and none clears meanwhile.   *)
LEMMA OneMonitor ==
  ASSUME Monitors, NEW p \in Pubs, NEW q \in Pubs,
         mon[p] \in {"wait"} \cup ClearSteps, mon[q] \in {"wait"} \cup ClearSteps
  PROVE  p = q
BY DEF Monitors, MonitorOf

(* Each step of a monitor leaves the session as the next step expects it;   *)
(* the last one leaves none.                                                *)
LEMMA MonitorHolds ==
  ASSUME TypeOK, SInv, NEW p \in Pubs, ClosePublisher(p) \/ Clear(p)
  PROVE  SInv'
<1>a. CASE ClearViewers(p)
  BY <1>a, CalmSteps, CalmHolds
<1>b. SUFFICES ASSUME ~ClearViewers(p) PROVE SInv'
  BY <1>a
<1> USE DEF SInv, TypeOK, At, Conns, session
<1>0. /\ mon[p] \in {"wait"} \cup ClearSteps
      /\ mon' = [mon EXCEPT ![p] = mon'[p]]
      /\ reader' = reader
      /\ ctxDone \subseteq ctxDone'
      /\ closing' = closing
  BY <1>b DEF ClosePublisher, Clear, StartClear, ClearEscorts, DropEscorts, LockViewers,
     UnlockViewers, DropPublisher, CloseBuffer, DropBuffer, CloseDemuxer, DropDemuxer,
     ClearSteps, pump, closeVars
<1>c. closing # "viewers" /\ Emptied'
  BY <1>0 DEF Emptied
<1>1. \A q \in Pubs : q # p => mon[q] \notin {"wait"} \cup ClearSteps /\ mon'[q] = mon[q]
  BY <1>0, OneMonitor
<1>2. \A q \in Pubs : q # p => MonitorOf(q)'
  BY <1>1 DEF MonitorOf, Whole, ClearSteps
<1>3. reader[p] # "none" /\ p # None
  BY <1>0, KindsAssumption DEF Monitors, MonitorOf, Fresh
<1>4. CASE ClosePublisher(p)
  <2>1. MonitorOf(p)' /\ Fresh'
    BY <1>0, <1>4 DEF ClosePublisher, MonitorOf, Fresh, Whole, ClearSteps
  <2>2. PublisherMtxFree
    BY <1>1, <1>4, <1>c DEF ClosePublisher, PublisherMtxFree, ClearSteps
  <2> QED BY <1>2, <1>4, <1>c, <2>1, <2>2 DEF ClosePublisher, Monitors, SessionConsistent
<1>5. CASE StartClear(p)
  <2>1. MonitorOf(p)' /\ Fresh'
    BY <1>0, <1>5 DEF StartClear, Monitors, MonitorOf, Fresh, Whole, ClearSteps
  <2>2. ~PublisherMtxFree'
    BY <1>5 DEF StartClear, PublisherMtxFree, ClearSteps
  <2> QED BY <1>2, <1>c, <2>1, <2>2 DEF Monitors, SessionConsistent
<1>6. CASE DropDemuxer(p)
  <2>1. publisher' = None /\ buffer' = None /\ demuxer' = None
    BY <1>6 DEF DropDemuxer, Monitors, MonitorOf
  <2>2. MonitorOf(p)' /\ Fresh'
    BY <1>0, <1>6, <2>1, KindsAssumption DEF DropDemuxer, MonitorOf, Fresh, Whole, ClearSteps
  <2>3. SessionConsistent'
    BY <1>6, <2>1, KindsAssumption DEF DropDemuxer, SessionConsistent
  <2> QED BY <1>2, <1>c, <2>2, <2>3 DEF Monitors
<1>7. CASE ClearEscorts(p) \/ DropEscorts(p) \/ LockViewers(p) \/ UnlockViewers(p)
  <2>1. MonitorOf(p)' /\ Fresh' /\ mon'[p] \in ClearSteps
    BY <1>0, <1>7
    DEF ClearEscorts, DropEscorts, LockViewers, UnlockViewers, Monitors, MonitorOf, Fresh,
        Whole, ClearSteps
  <2> QED BY <1>2, <1>c, <2>1 DEF Monitors, SessionConsistent, PublisherMtxFree
<1>8. CASE DropPublisher(p) \/ CloseBuffer(p) \/ DropBuffer(p) \/ CloseDemuxer(p)
  <2>1. MonitorOf(p)' /\ mon'[p] \in ClearSteps
    BY <1>0, <1>8
    DEF DropPublisher, CloseBuffer, DropBuffer, CloseDemuxer, Monitors, MonitorOf, Whole,
        ClearSteps
  <2>2. Fresh'
    BY <1>0, <1>3, <1>8, KindsAssumption
    DEF DropPublisher, CloseBuffer, DropBuffer, CloseDemuxer, Fresh, Monitors, MonitorOf
  <2> QED BY <1>2, <1>c, <2>1, <2>2 DEF Monitors, SessionConsistent, PublisherMtxFree
<1> QED BY <1>4, <1>5, <1>6, <1>7, <1>8, <1>b DEF Clear

(* A publisher that is let in finds nothing, and brings what is its own.    *)
LEMMA AddHolds ==
  ASSUME TypeOK, SInv, NEW p \in Pubs, AddPublisher(p)
  PROVE  SInv'
<1> USE DEF SInv, TypeOK, At, Conns, session
<1>1. CASE publisher # None
  BY <1>1, CalmHolds DEF AddPublisher, Calm, pump, closeVars
<1>2. CASE publisher = None
  <2>1. /\ publisher' = p /\ buffer' = p /\ demuxer' = p
        /\ closedBufs' = closedBufs \cup ({buffer} \ {None})
        /\ closedDemuxers' = closedDemuxers \cup ({demuxer} \ {None})
        /\ mon' = [mon EXCEPT ![p] = "wait"]
        /\ reader' = [reader EXCEPT ![p] = "start"]
        /\ reader[p] = "none" /\ PublisherMtxFree /\ ctxDone' = ctxDone
        /\ closing' = closing
    BY <1>2 DEF AddPublisher, closeVars
  <2>2. buffer = None /\ demuxer = None
    BY <1>2, <2>1 DEF SessionConsistent
  <2>3. \A q \in Pubs : mon[q] \notin {"wait"} \cup ClearSteps
    BY <2>1, <2>2, KindsAssumption DEF Monitors, MonitorOf
  <2>4. Monitors'
    BY <2>1, <2>3 DEF Monitors, MonitorOf, Whole, ClearSteps
  <2>5. Fresh'
    BY <2>1, <2>2 DEF Fresh
  <2>6. SessionConsistent'
    BY <2>1, <2>2 DEF SessionConsistent, Fresh
  <2>7. Emptied'
    BY <2>1 DEF Emptied, PublisherMtxFree
  <2> QED BY <2>4, <2>5, <2>6, <2>7
<1> QED BY <1>1, <1>2

(* Close finds no monitor when it has the locks, and leaves no session.     *)
LEMMA CloseHolds ==
  ASSUME TypeOK, SInv, Close
  PROVE  SInv'
<1> USE DEF SInv, TypeOK
<1>1. CASE CloseHaven
  <2>1. \A p \in Pubs : mon'[p] \notin {"wait"} \cup ClearSteps
    BY <1>1 DEF CloseHaven, GoroutinesDone, ClearSteps, Conns
  <2>2. Monitors'
    BY <2>1 DEF Monitors, MonitorOf, Whole, ClearSteps
  <2>3. Fresh' /\ Emptied'
    BY <1>1, <2>1, KindsAssumption DEF CloseHaven, Fresh, Emptied, pump
  <2>4. SessionConsistent'
    BY <1>1 DEF CloseHaven, SessionConsistent, PublisherMtxFree
  <2> QED BY <2>2, <2>3, <2>4
<1>2. CASE CloseViewers
  BY <1>2, CalmSteps, CalmHolds
<1>3. CASE FinishClose
  <2>1. publisher = None /\ \A p \in Pubs : mon'[p] \notin {"wait"} \cup ClearSteps
    BY <1>3 DEF FinishClose, Emptied
  <2>2. Monitors'
    BY <2>1 DEF Monitors, MonitorOf, Whole, ClearSteps
  <2>3. Fresh' /\ Emptied'
    BY <1>3, KindsAssumption DEF FinishClose, Fresh, Emptied
  <2>4. SessionConsistent'
    BY <1>3, <2>1, KindsAssumption DEF FinishClose, SessionConsistent
  <2> QED BY <2>2, <2>3, <2>4
<1> QED BY <1>1, <1>2, <1>3 DEF Close

LEMMA StepSession ==
  ASSUME TypeOK, SInv, [Next]_vars
  PROVE  SInv'
<1>1. ASSUME NEW p \in Pubs, PublisherStep(p) PROVE SInv'
  BY <1>1, MonitorHolds, CalmSteps, CalmHolds DEF PublisherStep, Pumps
<1> QED BY <1>1, AddHolds, CloseHolds, CalmSteps, CalmHolds DEF Next

-----------------------------------------------------------------------------
(* Readers and their sources, and what they bring into the buffer.          *)

FInv == Sources /\ NoLiveMixing

(* A publisher is dropped only after it has gone, so that whatever is read  *)
(* of a former one is read of one that has gone.                            *)
LEMMA DroppedIsGone ==
  ASSUME TypeOK, SInv, [Next]_vars, publisher # None, publisher' # publisher
  PROVE  publisher' = None /\ publisher \in ctxDone'
<1>1. ASSUME NEW p \in Pubs, AddPublisher(p) PROVE publisher' = publisher
  BY <1>1 DEF AddPublisher, session
<1>2. ASSUME NEW p \in Pubs, ClosePublisher(p) \/ Clear(p)
      PROVE  publisher' = publisher \/ (publisher' = None /\ publisher \in ctxDone')
  <2>1. CASE DropPublisher(p)
    BY <2>1 DEF DropPublisher, At, SInv, Monitors, MonitorOf, Whole, ClearSteps
  <2>2. CASE ~DropPublisher(p)
    BY <1>2, <2>2 DEF ClosePublisher, Clear, StartClear, ClearEscorts, DropEscorts,
       LockViewers, ClearViewers, UnlockViewers, CloseBuffer, DropBuffer, CloseDemuxer,
       DropDemuxer, session
  <2> QED BY <2>1, <2>2
<1>3. CASE CloseHaven \/ FinishClose
  BY <1>3 DEF CloseHaven, FinishClose
<1>4. CASE Calm
  BY <1>4 DEF Calm, session
<1>5. ASSUME NEW p \in Pubs, PublisherStep(p)
      PROVE  publisher' = publisher \/ (publisher' = None /\ publisher \in ctxDone')
  BY <1>2, <1>5, CalmSteps DEF PublisherStep, Pumps, Calm, session
<1> QED BY <1>1, <1>3, <1>4, <1>5, CalmSteps DEF Next, Close

(* A context that is done stays so.                                         *)
LEMMA DoneStays ==
  ASSUME TypeOK, [Next]_vars
  PROVE  ctxDone \subseteq ctxDone'
<1>1. ASSUME NEW p \in Pubs, AddPublisher(p) \/ ClosePublisher(p) \/ Clear(p)
      PROVE  ctxDone \subseteq ctxDone'
  BY <1>1, CloserType
  DEF AddPublisher, ClosePublisher, Clear, StartClear, ClearEscorts, DropEscorts,
      LockViewers, ClearViewers, UnlockViewers, DropPublisher, CloseBuffer, DropBuffer,
      CloseDemuxer, DropDemuxer
<1>2. CASE CloseHaven \/ FinishClose
  BY <1>2 DEF CloseHaven, FinishClose
<1>3. ASSUME NEW p \in Pubs, PublisherStep(p) PROVE ctxDone \subseteq ctxDone'
  BY <1>1, <1>3, CalmSteps DEF PublisherStep, Pumps, Calm
<1> QED BY <1>1, <1>2, <1>3, CalmSteps DEF Next, Close, Calm

(* The steps of a publisher's own goroutines.                               *)
LEMMA PumpFrames ==
  ASSUME TypeOK, SInv, FInv, NEW p \in Pubs, Pumps(p)
  PROVE  FInv'
<1> USE DEF FInv, TypeOK, PubOrNone
<1>0. publisher' = publisher /\ ctxDone' = ctxDone
  BY DEF Pumps, Crash, StartReader, ReadPublisher, EndReader, Demux, EndDemuxer,
     TakeFrame, WriteFrame, EndWriter, session
<1>1. CASE Crash
  BY <1>1 DEF Crash, pump, session, Sources, NoLiveMixing
<1>2. CASE StartReader(p) /\ ~Crash
  BY <1>0, <1>2 DEF StartReader, Sources, NoLiveMixing
<1>3. CASE ReadPublisher(p) /\ ~Crash
  BY <1>0, <1>3 DEF ReadPublisher, Sources, NoLiveMixing
<1>4. CASE EndReader(p)
  BY <1>0, <1>4 DEF EndReader, Sources, NoLiveMixing
<1>5. CASE Demux(p)
  BY <1>0, <1>5 DEF Demux, Sources, NoLiveMixing
<1>6. CASE EndDemuxer(p)
  BY <1>0, <1>6 DEF EndDemuxer, Sources, NoLiveMixing
<1>7. CASE TakeFrame(p)
  <2>1. \A q \in Pubs : egress'[q] > 0 \/ writer'[q] = "holding" =>
          egress[q] > 0 \/ writer[q] = "holding"
    BY <1>7, EgressAssumption DEF TakeFrame
  <2> QED BY <1>0, <1>7, <2>1 DEF TakeFrame, Sources, NoLiveMixing
<1>8. CASE WriteFrame(p) /\ ~Crash
  <2>1. Sources'
    BY <1>0, <1>8 DEF WriteFrame, Sources
  <2>2. NoLiveMixing'
    <3>1. (source[p] = publisher /\ source[p] # None) \/ source[p] \in ctxDone
      BY <1>8, KindsAssumption DEF WriteFrame, Sources
    <3>2. publisher # None /\ buffer # None => buffer = publisher
      BY DEF SInv, SessionConsistent, Emptied, PublisherMtxFree, Monitors, MonitorOf,
         Whole, ClearSteps
    <3>3. source[p] \in {buffer} \cup ctxDone
      BY <1>8, <3>1, <3>2 DEF WriteFrame
    <3> QED BY <1>0, <1>8, <3>3 DEF WriteFrame, NoLiveMixing
  <2> QED BY <2>1, <2>2
<1>9. CASE EndWriter(p)
  BY <1>0, <1>9 DEF EndWriter, Sources, NoLiveMixing
<1> QED BY <1>1, <1>2, <1>3, <1>4, <1>5, <1>6, <1>7, <1>8, <1>9 DEF Pumps

(* The other steps leave these goroutines alone, or start the reader.       *)
LEMMA OtherFrames ==
  ASSUME TypeOK, SInv, FInv, [Next]_vars,
         UNCHANGED <<writer, source, egress, content>>,
         \A p \in Pubs : reader'[p] = reader[p] \/ reader'[p] = "start"
  PROVE  FInv'
<1>1. \A p \in Pubs : source[p] # None => source[p] = publisher' \/ source[p] \in ctxDone'
  BY DroppedIsGone, DoneStays, KindsAssumption DEF FInv, Sources, TypeOK, PubOrNone
<1>2. Sources'
  BY <1>1 DEF FInv, Sources
<1>3. NoLiveMixing'
  BY DoneStays DEF FInv, NoLiveMixing
<1> QED BY <1>2, <1>3 DEF FInv

LEMMA StepFrames ==
  ASSUME TypeOK, SInv, FInv, [Next]_vars
  PROVE  FInv'
<1> DEFINE Other == /\ UNCHANGED <<writer, source, egress, content>>
                    /\ \A p \in Pubs : reader'[p] = reader[p] \/ reader'[p] = "start"
<1>1. ASSUME NEW p \in Pubs, ClosePublisher(p) \/ Clear(p) PROVE Other
  BY <1>1 DEF ClosePublisher, Clear, StartClear, ClearEscorts, DropEscorts, LockViewers,
     ClearViewers, UnlockViewers, DropPublisher, CloseBuffer, DropBuffer, CloseDemuxer,
     DropDemuxer, pump
<1>2. ASSUME NEW p \in Pubs, AddPublisher(p) PROVE Other
  BY <1>2 DEF AddPublisher, pump, TypeOK
<1>3. ASSUME NEW e \in Escorts, EscortStep(e) PROVE Other
  BY <1>3 DEF EscortStep, ReadEscorts, AppendEscort, CloseEscort, RemoveEscort, pump
<1>4. ASSUME NEW v \in Viewers, ViewerStep(v) PROVE Other
  BY <1>4 DEF ViewerStep, CheckPublisher, ListViewer, Subscribe, WriteViewer,
     ServeViewer, RelayEnds, RelayHangs, CloseViewer, ViewerClosed, RemoveViewer, pump
<1>5. ASSUME NEW c \in Conns, ConnectionEnds(c) PROVE Other
  BY <1>5 DEF ConnectionEnds, pump
<1>6. ASSUME CancelHaven \/ Close \/ UNCHANGED vars PROVE Other
  BY <1>6 DEF CancelHaven, Close, CloseHaven, CloseViewers, FinishClose, vars, pump
<1>7. Other => FInv'
  BY OtherFrames
<1> HIDE DEF Other
<1>8. ASSUME NEW p \in Pubs, PublisherStep(p) PROVE FInv'
  BY <1>1, <1>7, <1>8, PumpFrames DEF PublisherStep, Pumps
<1> QED BY <1>2, <1>3, <1>4, <1>5, <1>6, <1>7, <1>8 DEF Next

-----------------------------------------------------------------------------
(* Viewers.                                                                 *)

(* From the step at which addViewer lists it, a viewer stays in the map as  *)
(* long as its connection lives.                                            *)
KeptListed ==
  \A v \in Viewers : view[v] = "listed" \/ feed[v] # None => v \in viewers \cup ctxDone

(* Whoever waits for a viewer's Close has cancelled its context, and holds  *)
(* viewersMtx.                                                              *)
VictimHeld ==
  victim # None =>
    /\ victim \in ctxDone
    /\ closing = "viewers" \/ \E p \in Pubs : mon[p] = "closeViewers"

(* There is no relay before Write.                                          *)
RelayStarted ==
  \A v \in Viewers :
    view[v] \in {"idle", "checked", "listed", "subscribed"} => relays[v] = "none"

VInv == KeptListed /\ VictimHeld /\ RelayStarted

(* One more viewer is being closed, or one is closed.                       *)
LEMMA CloserHolds ==
  ASSUME TypeOK, VInv, CloseNext \/ NextClosed, UNCHANGED <<mon, view, feed, relays, closing>>,
         closing = "viewers" \/ \E p \in Pubs : mon[p] = "closeViewers"
  PROVE  VInv'
<1> USE DEF TypeOK, VInv
<1>1. CASE CloseNext
  BY <1>1 DEF CloseNext, KeptListed, VictimHeld, RelayStarted
<1>2. CASE NextClosed
  BY <1>2 DEF NextClosed, KeptListed, VictimHeld, RelayStarted
<1> QED BY <1>1, <1>2

LEMMA ViewerHolds ==
  ASSUME TypeOK, VInv, NEW v \in Viewers, ViewerStep(v)
  PROVE  VInv'
<1> USE DEF TypeOK, VInv
<1>1. KeptListed' /\ RelayStarted'
  BY DEF ViewerStep, CheckPublisher, ListViewer, Subscribe, WriteViewer, ServeViewer,
     RelayEnds, RelayHangs, CloseViewer, ViewerClosed, RemoveViewer, KeptListed,
     RelayStarted, viewerVars
<1>2. VictimHeld'
  <2>1. \A p \in Pubs : mon'[p] = mon[p]
    BY CalmSteps DEF Calm
  <2>2. UNCHANGED <<victim, closing>>
    BY DEF ViewerStep, CheckPublisher, ListViewer, Subscribe, WriteViewer, ServeViewer,
       RelayEnds, RelayHangs, CloseViewer, ViewerClosed, RemoveViewer, viewerVars,
       closeVars
  <2>3. ctxDone \subseteq ctxDone'
    BY CalmSteps DEF Calm
  <2> QED BY <2>1, <2>2, <2>3 DEF VictimHeld
<1> QED BY <1>1, <1>2

(* The steps that leave the viewers alone keep the lock for the victim.     *)
LEMMA OtherHolds ==
  ASSUME TypeOK, VInv, [Next]_vars, UNCHANGED viewerVars,
         victim # None /\ closing = "viewers" => closing' = "viewers",
         \A p \in Pubs : victim # None /\ mon[p] = "closeViewers" =>
                           mon'[p] = "closeViewers"
  PROVE  VInv'
<1>1. KeptListed' /\ RelayStarted'
  BY DoneStays DEF VInv, KeptListed, RelayStarted, viewerVars
<1>2. VictimHeld'
  BY DoneStays DEF VInv, VictimHeld, viewerVars
<1> QED BY <1>1, <1>2 DEF VInv

LEMMA StepListed ==
  ASSUME TypeOK, VInv, [Next]_vars
  PROVE  VInv'
<1> DEFINE Other ==
      /\ UNCHANGED viewerVars
      /\ victim # None /\ closing = "viewers" => closing' = "viewers"
      /\ \A p \in Pubs : victim # None /\ mon[p] = "closeViewers" =>
                           mon'[p] = "closeViewers"
<1>0. Other => VInv'
  BY OtherHolds
<1>1. ASSUME NEW p \in Pubs, ClearViewers(p) PROVE VInv'
  BY <1>1, CloserHolds DEF ClearViewers, closeVars
<1>2. CASE CloseViewers
  BY <1>2, CloserHolds DEF CloseViewers, closeVars
<1>3. ASSUME NEW p \in Pubs, ClosePublisher(p) \/ Clear(p), ~ClearViewers(p) PROVE Other
  BY <1>3 DEF ClosePublisher, Clear, StartClear, ClearEscorts, DropEscorts, LockViewers,
     UnlockViewers, AllClosed, DropPublisher, CloseBuffer, DropBuffer, CloseDemuxer,
     DropDemuxer, At, TypeOK, Conns, closeVars
<1>4. ASSUME NEW p \in Pubs, Pumps(p) PROVE Other
  <2>1. UNCHANGED viewerVars
    BY <1>4 DEF Pumps, Crash, StartReader, ReadPublisher, EndReader, Demux, EndDemuxer,
       TakeFrame, WriteFrame, EndWriter
  <2> QED BY <1>4, <2>1, CalmSteps DEF Calm
<1>5. ASSUME NEW e \in Escorts, EscortStep(e) PROVE Other
  <2>1. UNCHANGED viewerVars
    BY <1>5 DEF EscortStep, ReadEscorts, AppendEscort, CloseEscort, RemoveEscort
  <2> QED BY <1>5, <2>1, CalmSteps DEF Calm
<1>6. ASSUME CancelHaven \/ (\E c \in Conns : ConnectionEnds(c)) \/ UNCHANGED vars
      PROVE  Other
  <2>1. UNCHANGED viewerVars
    BY <1>6 DEF CancelHaven, ConnectionEnds, vars
  <2> QED BY <1>6, <2>1, CalmSteps DEF Calm
<1>7. ASSUME NEW p \in Pubs, AddPublisher(p) PROVE Other
  BY <1>7 DEF AddPublisher, At, TypeOK, Conns, closeVars
<1>8. ASSUME CloseHaven \/ FinishClose PROVE Other
  BY <1>8 DEF CloseHaven, FinishClose, AllClosed
<1> HIDE DEF Other
<1>9. ASSUME NEW p \in Pubs, PublisherStep(p) PROVE VInv'
  BY <1>0, <1>1, <1>3, <1>4, <1>9 DEF PublisherStep, Pumps
<1> QED BY <1>0, <1>2, <1>5, <1>6, <1>7, <1>8, <1>9, ViewerHolds DEF Next, Close

-----------------------------------------------------------------------------

IInv == TypeOK /\ SInv /\ FInv /\ VInv

LEMMA InitHolds == Init => IInv
<1> SUFFICES ASSUME Init PROVE IInv
  OBVIOUS
<1>1. SInv
  BY KindsAssumption DEF Init, SInv, Monitors, MonitorOf, Fresh, SessionConsistent,
     Emptied, Conns, Whole, ClearSteps
<1>2. FInv /\ VInv
  BY DEF Init, FInv, Sources, NoLiveMixing, VInv, KeptListed, VictimHeld, RelayStarted
<1> QED BY <1>1, <1>2, InitType DEF IInv

LEMMA AlwaysHolds == Spec => []IInv
<1>1. Init => IInv
  BY InitHolds
<1>2. IInv /\ [Next]_vars => IInv'
  BY StepType, StepSession, StepFrames, StepListed DEF IInv, SInv, FInv
<1> QED BY <1>1, <1>2, PTL DEF Spec

(* Every variable has the values the code can give it.                      *)
THEOREM TypeCorrect == Spec => []TypeOK
<1>1. IInv => TypeOK
  BY DEF IInv
<1> QED BY <1>1, AlwaysHolds, PTL

(* Whoever gets publisherMtx finds one session or none, whatever monitors   *)
(* are under way.                                                           *)
THEOREM SessionIsOne == Spec => []SessionConsistent
<1>1. IInv => SessionConsistent
  BY DEF IInv, SInv
<1> QED BY <1>1, AlwaysHolds, PTL

(* No buffer mixes the frames of two publishers that are connected, though  *)
(* readers and writers use the fields without the lock.                     *)
THEOREM NeverMixed == Spec => []NoLiveMixing
<1>1. IInv => NoLiveMixing
  BY DEF IInv, FInv
<1> QED BY <1>1, AlwaysHolds, PTL

(* A viewer that got a buffer's channels is in the map while it lives.      *)
THEOREM ServedStaysListed == Spec => []ServedIsListed
<1>1. IInv => ServedIsListed
  BY DEF IInv, VInv, KeptListed, ServedIsListed
<1> QED BY <1>1, AlwaysHolds, PTL

(* No publisher is replaced, and none is dropped while it is connected.     *)
THEOREM NeverReplaced == Spec => NoTakeover
<1>1. IInv /\ [Next]_vars =>
        [publisher # None /\ publisher' # publisher =>
           publisher' = None /\ publisher \in ctxDone']_vars
  BY DroppedIsGone DEF IInv
<1> QED BY <1>1, AlwaysHolds, PTL DEF Spec, NoTakeover

-----------------------------------------------------------------------------
(* A viewer whose relay hangs.                                              *)

(* A relay that hangs does so for ever, and whoever waits for it waits.     *)
LEMMA HungStays ==
  ASSUME IInv, [Next]_vars
  PROVE  /\ HolderHangs => HolderHangs'
         /\ MonitorHangs => MonitorHangs'
<1> USE DEF IInv, TypeOK
<1>1. \A v \in Viewers : relays[v] = "hung" => relays'[v] = "hung"
  <2>1. ASSUME NEW v \in Viewers, ViewerStep(v), NEW u \in Viewers, relays[u] = "hung"
        PROVE  relays'[u] = "hung"
    BY <2>1 DEF ViewerStep, CheckPublisher, ListViewer, Subscribe, WriteViewer, ServeViewer,
       RelayEnds, RelayHangs, CloseViewer, ViewerClosed, RemoveViewer, viewerVars, VInv,
       RelayStarted
  <2>2. ASSUME ~\E v \in Viewers : ViewerStep(v) PROVE relays' = relays
    <3>1. ASSUME NEW p \in Pubs, ClosePublisher(p) \/ Clear(p) PROVE relays' = relays
      BY <3>1 DEF ClosePublisher, Clear, StartClear, ClearEscorts, DropEscorts, LockViewers,
         ClearViewers, UnlockViewers, DropPublisher, CloseBuffer, DropBuffer,
         CloseDemuxer, DropDemuxer, viewerVars
    <3>2. ASSUME NEW p \in Pubs, Pumps(p) PROVE relays' = relays
      BY <3>2 DEF Pumps, Crash, StartReader, ReadPublisher, EndReader, Demux, EndDemuxer,
         TakeFrame, WriteFrame, EndWriter, viewerVars
    <3>3. ASSUME NEW e \in Escorts, EscortStep(e) PROVE relays' = relays
      BY <3>3 DEF EscortStep, ReadEscorts, AppendEscort, CloseEscort, RemoveEscort, viewerVars
    <3>4. ASSUME \/ CancelHaven \/ Close \/ UNCHANGED vars
                 \/ \E p \in Pubs : AddPublisher(p)
                 \/ \E c \in Conns : ConnectionEnds(c)
          PROVE  relays' = relays
      BY <3>4 DEF CancelHaven, Close, CloseHaven, CloseViewers, FinishClose, AddPublisher,
         ConnectionEnds, vars, viewerVars
    <3>5. ASSUME NEW p \in Pubs, PublisherStep(p) PROVE relays' = relays
      BY <3>1, <3>2, <3>5 DEF PublisherStep, Pumps
    <3> QED BY <2>2, <3>3, <3>4, <3>5 DEF Next
  <2> QED BY <2>1, <2>2
<1>2. HolderHangs => victim' = victim
  <2> SUFFICES ASSUME HolderHangs PROVE victim' = victim
    OBVIOUS
  <2>0. victim # None /\ ~ConnectionClosed(victim)
    BY DEF HolderHangs, ConnectionClosed
  <2>1. ASSUME CloseNext \/ NextClosed PROVE FALSE
    BY <2>0, <2>1 DEF CloseNext, NextClosed
  <2>2. ASSUME NEW v \in Viewers, ViewerStep(v) PROVE victim' = victim
    BY <2>2 DEF ViewerStep, CheckPublisher, ListViewer, Subscribe, WriteViewer, ServeViewer,
       RelayEnds, RelayHangs, CloseViewer, ViewerClosed, RemoveViewer, viewerVars
  <2>3. ASSUME NEW p \in Pubs, ClosePublisher(p) \/ Clear(p) PROVE victim' = victim
    BY <2>1, <2>3
    DEF ClosePublisher, Clear, StartClear, ClearEscorts, DropEscorts, LockViewers,
        ClearViewers, UnlockViewers, DropPublisher, CloseBuffer, DropBuffer, CloseDemuxer,
        DropDemuxer, viewerVars
  <2>4. ASSUME NEW p \in Pubs, Pumps(p) PROVE victim' = victim
    BY <2>4 DEF Pumps, Crash, StartReader, ReadPublisher, EndReader, Demux, EndDemuxer,
       TakeFrame, WriteFrame, EndWriter, viewerVars
  <2>5. ASSUME NEW e \in Escorts, EscortStep(e) PROVE victim' = victim
    BY <2>5 DEF EscortStep, ReadEscorts, AppendEscort, CloseEscort, RemoveEscort, viewerVars
  <2>6. ASSUME \/ CancelHaven \/ Close \/ UNCHANGED vars
               \/ \E p \in Pubs : AddPublisher(p)
               \/ \E c \in Conns : ConnectionEnds(c)
        PROVE  victim' = victim
    BY <2>1, <2>6
    DEF CancelHaven, Close, CloseHaven, CloseViewers, FinishClose, AddPublisher,
        ConnectionEnds, vars, viewerVars
  <2>7. ASSUME NEW p \in Pubs, PublisherStep(p) PROVE victim' = victim
    BY <2>3, <2>4, <2>7 DEF PublisherStep, Pumps
  <2> QED BY <2>2, <2>5, <2>6, <2>7 DEF Next
<1>3. ASSUME NEW v \in Viewers, mon[v] = "closing", relays[v] = "hung"
      PROVE  mon'[v] = "closing"
  <2>0. v \in Conns /\ v \notin Pubs /\ v \notin Escorts
    BY KindsAssumption DEF Conns
  <2>1. ASSUME NEW u \in Viewers, ViewerStep(u) PROVE mon'[v] = "closing"
    BY <1>3, <2>0, <2>1 DEF ViewerStep, CheckPublisher, ListViewer, Subscribe, WriteViewer,
       ServeViewer, RelayEnds, RelayHangs, CloseViewer, ViewerClosed, ConnectionClosed,
       RemoveViewer, At
  <2>2. ASSUME NEW p \in Pubs, ClosePublisher(p) \/ Clear(p) PROVE mon'[v] = mon[v]
    BY <2>0, <2>2 DEF ClosePublisher, Clear, StartClear, ClearEscorts, DropEscorts,
       LockViewers, ClearViewers, UnlockViewers, DropPublisher, CloseBuffer, DropBuffer,
       CloseDemuxer, DropDemuxer, At
  <2>3. ASSUME NEW p \in Pubs, Pumps(p) PROVE mon' = mon
    BY <2>3 DEF Pumps, Crash, StartReader, ReadPublisher, EndReader, Demux, EndDemuxer,
       TakeFrame, WriteFrame, EndWriter
  <2>4. ASSUME NEW e \in Escorts, EscortStep(e) PROVE mon'[v] = mon[v]
    BY <2>0, <2>4 DEF EscortStep, ReadEscorts, AppendEscort, CloseEscort, RemoveEscort, At
  <2>5. ASSUME \/ CancelHaven \/ Close \/ UNCHANGED vars
               \/ \E p \in Pubs : AddPublisher(p)
               \/ \E c \in Conns : ConnectionEnds(c)
        PROVE  mon'[v] = mon[v]
    BY <2>0, <2>5 DEF CancelHaven, Close, CloseHaven, CloseViewers, FinishClose,
       AddPublisher, ConnectionEnds, vars, At
  <2>6. ASSUME NEW p \in Pubs, PublisherStep(p) PROVE mon'[v] = mon[v]
    BY <2>2, <2>3, <2>6 DEF PublisherStep, Pumps
  <2> QED BY <1>3, <2>1, <2>4, <2>5, <2>6 DEF Next
<1> QED BY <1>1, <1>2, <1>3 DEF HolderHangs, MonitorHangs

(* The alternatives of SessionCleared, ViewerRemoved and CloseReturns are   *)
(* final: a clearing or a Close that meets a viewer whose relay hangs keeps *)
(* publisherMtx for good, and Close of the Haven never returns from it, nor *)
(* from the wait for such a viewer's monitor.                               *)
THEOREM HungForGood ==
  Spec => /\ [](HolderHangs => [](HolderHangs /\ ~PublisherMtxFree))
          /\ [](CloseHangs => []CloseHangs)
<1>1. IInv /\ [Next]_vars /\ HolderHangs => HolderHangs'
  BY HungStays
<1>2. IInv /\ HolderHangs => ~PublisherMtxFree
  BY DEF IInv, VInv, VictimHeld, HolderHangs, PublisherMtxFree, ClearSteps
<1>3. IInv /\ [Next]_vars /\ CloseHangs => CloseHangs'
  <2> SUFFICES ASSUME IInv, [Next]_vars, CloseHangs PROVE CloseHangs'
    OBVIOUS
  <2>1. closing' = closing
        \/ (closing = "wait" /\ closing' = "viewers" /\ CloseHaven)
        \/ (closing = "viewers" /\ FinishClose)
    <3>1. ASSUME NEW p \in Pubs, AddPublisher(p) \/ ClosePublisher(p) \/ Clear(p)
          PROVE  closing' = closing
      BY <3>1 DEF AddPublisher, ClosePublisher, Clear, StartClear, ClearEscorts,
         DropEscorts, LockViewers, ClearViewers, UnlockViewers, DropPublisher,
         CloseBuffer, DropBuffer, CloseDemuxer, DropDemuxer, closeVars
    <3>2. ASSUME NEW p \in Pubs, Pumps(p) PROVE closing' = closing
      BY <3>2 DEF Pumps, Crash, StartReader, ReadPublisher, EndReader, Demux, EndDemuxer,
         TakeFrame, WriteFrame, EndWriter, closeVars
    <3>3. ASSUME NEW e \in Escorts, EscortStep(e) PROVE closing' = closing
      BY <3>3 DEF EscortStep, ReadEscorts, AppendEscort, CloseEscort, RemoveEscort, closeVars
    <3>4. ASSUME NEW v \in Viewers, ViewerStep(v) PROVE closing' = closing
      BY <3>4 DEF ViewerStep, CheckPublisher, ListViewer, Subscribe, WriteViewer,
         ServeViewer, RelayEnds, RelayHangs, CloseViewer, ViewerClosed, RemoveViewer,
         closeVars
    <3>5. ASSUME CloseViewers \/ UNCHANGED vars \/ \E c \in Conns : ConnectionEnds(c)
          PROVE  closing' = closing
      BY <3>5 DEF CloseViewers, ConnectionEnds, vars, closeVars
    <3>6. ~CancelHaven
      BY DEF CloseHangs, CancelHaven
    <3>7. ASSUME NEW p \in Pubs, PublisherStep(p) PROVE closing' = closing
      BY <3>1, <3>2, <3>7 DEF PublisherStep, Pumps
    <3> QED BY <3>1, <3>3, <3>4, <3>5, <3>6, <3>7 DEF Next, Close, CloseHaven, FinishClose
  <2>2. ~(closing = "viewers" /\ FinishClose)
    BY DEF CloseHangs, HolderHangs, FinishClose, AllClosed
  <2>3. CloseHaven => ~MonitorHangs
    BY DEF CloseHaven, GoroutinesDone, MonitorHangs, Conns
  <2> QED BY <2>1, <2>2, <2>3, HungStays DEF CloseHangs
<1> QED BY <1>1, <1>2, <1>3, AlwaysHolds, PTL DEF Spec
=============================================================================
