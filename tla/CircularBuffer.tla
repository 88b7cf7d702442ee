--------------------------- MODULE CircularBuffer ---------------------------
(***************************************************************************)
(* The ring of frames and its subscriber goroutines                        *)
(* (src/buffer/circularBuffer.go).                                         *)
(*                                                                         *)
(* One writer puts frames in the ring and broadcasts each of them to the   *)
(* registered subscribers.  A subscriber is a goroutine started by         *)
(* ReadFromPos: it copies the part of the ring between its start position  *)
(* and the write position (its history), registers a live channel, sends   *)
(* the history to its egress channel and then forwards what the broadcast  *)
(* puts in the live channel.  Frames are numbered in the order of Write;   *)
(* a clone of a frame is the frame.                                        *)
(*                                                                         *)
(* Locks.  Write holds mtx, and broadcast holds subMtx for reading, from   *)
(* the store into the ring to the last offer: that is the time where       *)
(* offers # {}.  Every other critical section is one step, enabled when    *)
(* the lock it takes is free.                                              *)
(***************************************************************************)
EXTENDS Integers, Sequences

CONSTANTS
  Readers,      (* identities of the calls of ReadFromPos                  *)
  Cap,          (* BufCap: slots of the ring                               *)
  EgressChCap,  (* capacity of the egress channel of a subscriber          *)
  LiveChCap,    (* capacity of the live channel of a subscriber            *)
  MaxFrames     (* bound of the model: frames written                      *)

ASSUME CapAssumption == Cap \in Nat \ {0}
ASSUME ChannelAssumption == EgressChCap \in Nat \ {0} /\ LiveChCap \in Nat \ {0}
ASSUME BoundAssumption == MaxFrames \in Nat

VARIABLES
  frames,     (* the slots; Nil is a slot never written                    *)
  writePos,   (* the slot the next frame goes to                           *)
  written,    (* number of the newest frame                                *)
  offers,     (* subscribers the running broadcast has not come to yet     *)
  subs,       (* the registered subscribers, the keys of the map subs      *)
  cancelled,  (* cb.ctx is done                                            *)
  closing,    (* where Close is: "no", "wait", "lock", "closed"            *)
  late,       (* calls of ReadFromPos between Close's wait and its locks   *)
  pc,         (* where each subscriber goroutine is                        *)
  upDone,     (* subscribers whose upstream context is done                *)
  startPos,   (* the argument of ReadFromPos                               *)
  history,    (* the slots copied by the goroutine, fixed once copied      *)
  sentHist,   (* how many of them the goroutine has dealt with             *)
  live,       (* all the frames ever accepted by the live channel          *)
  taken,      (* how many of them the goroutine has received               *)
  egress,     (* all the frames ever accepted by the egress channel        *)
  received,   (* how many of them the consumer has received                *)
  skipped,    (* frames a full channel made the code skip, with a warning  *)
  closedCh    (* subscribers whose two channels are closed                 *)

ringVars == <<frames, writePos, written>>
chanVars == <<history, sentHist, live, taken, egress, received, skipped>>
closeVars == <<cancelled, closing, late>>
vars == <<ringVars, offers, subs, closeVars, pc, upDone, startPos, chanVars,
          closedCh>>

Nil == 0
Slots == 0 .. Cap - 1

LiveLen(r) == Len(live[r]) - taken[r]
EgressLen(r) == Len(egress[r]) - received[r]

Locked == offers # {}

-----------------------------------------------------------------------------

Init ==
  /\ frames = [s \in Slots |-> Nil]
  /\ writePos = 0
  /\ written = 0
  /\ offers = {}
  /\ subs = {}
  /\ cancelled = FALSE
  /\ closing = "no"
  /\ late = {}
  /\ pc = [r \in Readers |-> "idle"]
  /\ upDone = {}
  /\ startPos = [r \in Readers |-> 0]
  /\ history = [r \in Readers |-> <<>>]
  /\ sentHist = [r \in Readers |-> 0]
  /\ live = [r \in Readers |-> <<>>]
  /\ taken = [r \in Readers |-> 0]
  /\ egress = [r \in Readers |-> <<>>]
  /\ received = [r \in Readers |-> 0]
  /\ skipped = [r \in Readers |-> {}]
  /\ closedCh = {}

(* Write, up to the loop of broadcast: the frame replaces the oldest slot.  *)
Write ==
  /\ written < MaxFrames
  /\ ~Locked
  /\ frames' = [frames EXCEPT ![writePos] = written + 1]
  /\ writePos' = (writePos + 1) % Cap
  /\ written' = written + 1
  /\ offers' = subs
  /\ UNCHANGED <<subs, closeVars, pc, upDone, startPos, chanVars,
                 closedCh>>

(* One turn of broadcast's loop: the frame enters the live channel of r if  *)
(* it has room, and is skipped when it has not.                             *)
Offer(r) ==
  /\ r \in offers
  /\ \/ /\ LiveLen(r) < LiveChCap
        /\ live' = [live EXCEPT ![r] = Append(@, written)]
        /\ UNCHANGED skipped
     \/ /\ LiveLen(r) >= LiveChCap
        /\ ~cancelled
        /\ skipped' = [skipped EXCEPT ![r] = @ \cup {written}]
        /\ UNCHANGED live
  /\ offers' = offers \ {r}
  /\ UNCHANGED <<ringVars, subs, closeVars, pc, upDone, startPos,
                 history, sentHist, taken, egress, received, closedCh>>

(* broadcast's select sees cb.ctx done, which leaves the loop: the frame    *)
(* is offered to nobody else.                                               *)
AbandonBroadcast ==
  /\ Locked
  /\ cancelled
  /\ offers' = {}
  /\ UNCHANGED <<ringVars, subs, closeVars, pc, upDone, startPos,
                 chanVars, closedCh>>

-----------------------------------------------------------------------------

(* ReadFromPos: makes the channels and starts the goroutine.                *)
ReadFromPos(r, p) ==
  /\ pc[r] = "idle"
  /\ pc' = [pc EXCEPT ![r] = "started"]
  /\ startPos' = [startPos EXCEPT ![r] = p]
  /\ late' = IF closing = "lock" THEN late \cup {r} ELSE late
  /\ UNCHANGED <<ringVars, offers, subs, cancelled, closing, upDone, chanVars,
                 closedCh>>

(* Mutant of HistoryFrom: the copy does not stop at the write position.     *)
HistoryUnbounded(p) == [i \in 1 .. Cap |-> frames[(p + i - 1) % Cap]]

(* Mutant of HistoryFrom: the copy stops one slot too early.                *)
HistoryShort(p) ==
  [i \in 1 .. (writePos - p - 1 + Cap) % Cap |-> frames[(p + i - 1) % Cap]]

(* The slots from p to the one before the write position, in ring order.    *)
HistoryFrom(p) ==
  [i \in 1 .. (writePos - p + Cap) % Cap |-> frames[(p + i - 1) % Cap]]

(* Under mtx, the goroutine copies its history and registers its live       *)
(* channel: no frame can be written in between.                             *)
Snapshot(r) ==
  /\ pc[r] = "started"
  /\ ~Locked
  /\ history' = [history EXCEPT ![r] = HistoryFrom(startPos[r])]
  /\ subs' = subs \cup {r}
  /\ pc' = [pc EXCEPT ![r] = "history"]
  /\ UNCHANGED <<ringVars, offers, closeVars, upDone, startPos,
                 sentHist, live, taken, egress, received, skipped, closedCh>>

(* Mutant of Forward: the send waits for room.                              *)
ForwardBlocking(r, f) ==
  /\ r \notin closedCh
  /\ EgressLen(r) < EgressChCap
  /\ egress' = [egress EXCEPT ![r] = Append(@, f)]
  /\ UNCHANGED skipped

(* The egress channel accepts frame f, or f is skipped when it is full.  A  *)
(* send on a closed channel would panic: NoUseAfterClose says who never can, *)
(* and the others stop here.                                                *)
Forward(r, f) ==
  /\ r \notin closedCh
  /\ \/ /\ EgressLen(r) < EgressChCap
        /\ egress' = [egress EXCEPT ![r] = Append(@, f)]
        /\ UNCHANGED skipped
     \/ /\ EgressLen(r) >= EgressChCap
        /\ ~cancelled
        /\ r \notin upDone
        /\ skipped' = [skipped EXCEPT ![r] = @ \cup {f}]
        /\ UNCHANGED egress

(* One turn of the history loop.  A nil slot was left out of the copy by    *)
(* the code: here it is passed over when its turn comes.                    *)
SendHistory(r) ==
  /\ pc[r] = "history"
  /\ sentHist[r] < Len(history[r])
  /\ LET f == history[r][sentHist[r] + 1]
     IN  \/ f # Nil /\ Forward(r, f)
         \/ f = Nil /\ UNCHANGED <<egress, skipped>>
  /\ sentHist' = [sentHist EXCEPT ![r] = @ + 1]
  /\ UNCHANGED <<ringVars, offers, subs, closeVars, pc, upDone,
                 startPos, history, live, taken, received, closedCh>>

(* The history loop is over: on to the live channel.                        *)
HistorySent(r) ==
  /\ pc[r] = "history"
  /\ sentHist[r] = Len(history[r])
  /\ pc' = [pc EXCEPT ![r] = "live"]
  /\ UNCHANGED <<ringVars, offers, subs, closeVars, upDone, startPos,
                 chanVars, closedCh>>

(* The live loop receives a frame ...                                       *)
TakeLive(r) ==
  /\ pc[r] = "live"
  /\ r \notin closedCh
  /\ LiveLen(r) > 0
  /\ taken' = [taken EXCEPT ![r] = @ + 1]
  /\ pc' = [pc EXCEPT ![r] = "forward"]
  /\ UNCHANGED <<ringVars, offers, subs, closeVars, upDone, startPos,
                 history, sentHist, live, egress, received, skipped, closedCh>>

(* ... and forwards it.                                                     *)
SendLive(r) ==
  /\ pc[r] = "forward"
  /\ Forward(r, live[r][taken[r]])
  /\ pc' = [pc EXCEPT ![r] = "live"]
  /\ UNCHANGED <<ringVars, offers, subs, closeVars, upDone, startPos,
                 history, sentHist, live, taken, received, closedCh>>

(* Mutant of Leave: the goroutine watches its upstream context only.        *)
LeaveUpstreamOnly(r) ==
  /\ \/ pc[r] = "history" /\ sentHist[r] < Len(history[r])
     \/ pc[r] \in {"live", "forward"}
  /\ r \in upDone
  /\ pc' = [pc EXCEPT ![r] = "leaving"]
  /\ UNCHANGED <<ringVars, offers, subs, closeVars, upDone, startPos,
                 chanVars, closedCh>>

(* A select of the goroutine sees cb.ctx or the upstream context done.      *)
Leave(r) ==
  /\ \/ pc[r] = "history" /\ sentHist[r] < Len(history[r])
     \/ pc[r] \in {"live", "forward"}
  /\ cancelled \/ r \in upDone
  /\ pc' = [pc EXCEPT ![r] = "leaving"]
  /\ UNCHANGED <<ringVars, offers, subs, closeVars, upDone, startPos,
                 chanVars, closedCh>>

(* Mutant of RemoveSubscriber: subMtx is not taken.                         *)
RemoveUnlocked(r) ==
  /\ pc[r] = "leaving"
  /\ closedCh' = closedCh \cup {r}
  /\ subs' = subs \ {r}
  /\ pc' = [pc EXCEPT ![r] = "ended"]
  /\ UNCHANGED <<ringVars, offers, closeVars, upDone, startPos, chanVars>>

(* The deferred removeSubscriber, under subMtx: both channels are closed    *)
(* and drained, the subscriber leaves the map, and the goroutine ends.      *)
RemoveSubscriber(r) ==
  /\ pc[r] = "leaving"
  /\ ~Locked
  /\ closedCh' = closedCh \cup {r}
  /\ subs' = subs \ {r}
  /\ pc' = [pc EXCEPT ![r] = "ended"]
  /\ UNCHANGED <<ringVars, offers, closeVars, upDone, startPos,
                 chanVars>>

-----------------------------------------------------------------------------

(* The consumer of the egress channel receives a frame.                     *)
Receive(r) ==
  /\ r \notin closedCh
  /\ EgressLen(r) > 0
  /\ received' = [received EXCEPT ![r] = @ + 1]
  /\ UNCHANGED <<ringVars, offers, subs, closeVars, pc, upDone,
                 startPos, history, sentHist, live, taken, egress, skipped,
                 closedCh>>

(* The viewer's connection ends.                                            *)
UpstreamDone(r) ==
  /\ pc[r] # "idle"
  /\ r \notin upDone
  /\ upDone' = upDone \cup {r}
  /\ UNCHANGED <<ringVars, offers, subs, closeVars, pc, startPos,
                 chanVars, closedCh>>

(* Close cancels cb.ctx ...                                                 *)
CloseCancel ==
  /\ closing = "no"
  /\ closing' = "wait"
  /\ cancelled' = TRUE
  /\ UNCHANGED <<ringVars, offers, subs, late, pc, upDone, startPos, chanVars,
                 closedCh>>

(* ... waits for every goroutine ...                                        *)
CloseWaited ==
  /\ closing = "wait"
  /\ \A r \in Readers : pc[r] \in {"idle", "ended"}
  /\ closing' = "lock"
  /\ UNCHANGED <<ringVars, offers, subs, cancelled, late, pc, upDone, startPos,
                 chanVars, closedCh>>

(* ... and, under both locks, closes the channels that are left.            *)
CloseFinish ==
  /\ closing = "lock"
  /\ ~Locked
  /\ closing' = "closed"
  /\ closedCh' = closedCh \cup subs
  /\ subs' = {}
  /\ UNCHANGED <<ringVars, offers, cancelled, late, pc, upDone, startPos,
                 chanVars>>

Goroutine(r) ==
  \/ Snapshot(r)
  \/ SendHistory(r)
  \/ HistorySent(r)
  \/ TakeLive(r)
  \/ SendLive(r)
  \/ Leave(r)
  \/ RemoveSubscriber(r)

Broadcast == AbandonBroadcast \/ \E r \in Readers : Offer(r)

Next ==
  \/ Write
  \/ Broadcast
  \/ \E r \in Readers : \E p \in Slots : ReadFromPos(r, p)
  \/ \E r \in Readers : Goroutine(r)
  \/ \E r \in Readers : Receive(r) \/ UpstreamDone(r)
  \/ CloseCancel
  \/ CloseWaited
  \/ CloseFinish

(* The goroutines run.  RWMutex lets a waiting goroutine in once the        *)
(* writer has released it (strong fairness of the critical sections),       *)
(* and a select with a done context does not ignore it for ever.            *)
Fairness ==
  /\ WF_vars(Broadcast)
  /\ WF_vars(CloseWaited)
  /\ SF_vars(CloseFinish)
  /\ \A r \in Readers :
       /\ WF_vars(SendHistory(r) \/ HistorySent(r) \/ TakeLive(r) \/ SendLive(r))
       /\ WF_vars(Leave(r))
       /\ SF_vars(Snapshot(r))
       /\ SF_vars(RemoveSubscriber(r))

Spec == Init /\ [][Next]_vars

FairSpec == Spec /\ Fairness

-----------------------------------------------------------------------------

Frame == 1 .. written

(* Every variable has the values the code can give it: channels within      *)
(* their capacity, indices within their sequence.                           *)
TypeOK ==
  /\ written \in Nat
  /\ frames \in [Slots -> Frame \cup {Nil}]
  /\ writePos \in Slots
  /\ offers \in SUBSET Readers
  /\ subs \in SUBSET Readers
  /\ cancelled \in BOOLEAN
  /\ closing \in {"no", "wait", "lock", "closed"}
  /\ late \in SUBSET Readers
  /\ pc \in [Readers -> {"idle", "started", "history", "live", "forward",
                         "leaving", "ended"}]
  /\ upDone \in SUBSET Readers
  /\ startPos \in [Readers -> Slots]
  /\ history \in [Readers -> Seq(Frame \cup {Nil})]
  /\ live \in [Readers -> Seq(Frame)]
  /\ egress \in [Readers -> Seq(Frame)]
  /\ sentHist \in [Readers -> Nat]
  /\ taken \in [Readers -> Nat]
  /\ received \in [Readers -> Nat]
  /\ skipped \in [Readers -> SUBSET Frame]
  /\ closedCh \in SUBSET Readers
  /\ \A r \in Readers :
       /\ sentHist[r] <= Len(history[r])
       /\ LiveLen(r) \in 0 .. LiveChCap
       /\ EgressLen(r) \in 0 .. EgressChCap

Active == {"history", "live", "forward", "leaving"}

(* What the steps preserve, part by part.  A broadcast is of a frame that   *)
(* was written, to registered subscribers; a goroutine forwards a frame it  *)
(* has received; nothing is sent before the copy of the history;            *)
(* registration and closing follow the life of the goroutine.               *)
BroadcastInv == offers \subseteq subs /\ (Locked => written > 0)

ForwardInv == \A r \in Readers : pc[r] = "forward" => taken[r] > 0

LifeInv ==
  /\ \A r \in subs : pc[r] \in Active /\ r \notin closedCh
  /\ \A r \in closedCh : pc[r] = "ended" \/ (r \in late /\ pc[r] \in Active)
  /\ closing = "lock" => \A r \in Readers \ late : pc[r] \in {"idle", "ended"}

FreshInv == \A r \in Readers : pc[r] \in {"idle", "started"} => sentHist[r] = 0

LifecycleInv == TypeOK /\ BroadcastInv /\ ForwardInv /\ FreshInv /\ LifeInv

(* The consumer of a subscription sees the frames in the order they were    *)
(* written and none twice, across the hand-over from the history to the     *)
(* live channel.                                                            *)
InOrder ==
  \A r \in Readers : \A i, j \in 1 .. Len(egress[r]) :
    i < j => egress[r][i] < egress[r][j]

(* The frames a subscription still holds: history not yet sent, the frame   *)
(* between the two channels, the live channel, and the broadcast under way. *)
Held(r) ==
  ({history[r][i] : i \in sentHist[r] + 1 .. Len(history[r])} \ {Nil})
  \cup {live[r][i] : i \in taken[r] + 1 .. Len(live[r])}
  \cup (IF pc[r] = "forward" THEN {live[r][taken[r]]} ELSE {})
  \cup (IF r \in offers THEN {written} ELSE {})

SeenBy(r) == {egress[r][i] : i \in 1 .. Len(egress[r])}

(* No silent loss: from the first frame a subscription has seen to the      *)
(* newest one, every frame has been sent, is held, or was skipped with a    *)
(* warning because a channel was full.  It says that neither the wrap of    *)
(* the ring nor the hand-over to the live channel opens a gap.              *)
NoSilentLoss ==
  \A r \in Readers :
    pc[r] \in {"history", "live", "forward"} /\ ~cancelled =>
      LET known == SeenBy(r) \cup Held(r) \cup skipped[r]
      IN  \A f \in known : f .. written \subseteq known

(* Nobody uses a closed channel, which would panic: the broadcast never     *)
(* comes to a subscriber whose channels are closed, nor does the goroutine  *)
(* of the subscriber.  The calls of ReadFromPos that Close's wait did not   *)
(* see and that run before it has its locks are not protected.              *)
NoUseAfterClose ==
  \A r \in Readers :
    /\ r \in offers \cup subs => r \notin closedCh
    /\ pc[r] \in Active /\ r \notin late => r \notin closedCh

(* Close returns: its wait for the subscriber goroutines ends, whatever the *)
(* consumers of the egress channels do.                                     *)
CloseReturns == (closing = "wait") ~> (closing = "closed")

(* A frame broadcast to a subscriber does not stay in the buffer: it is     *)
(* sent to the consumer or skipped, unless the subscription ends.           *)
FramesMove ==
  \A r \in Readers :
    pc[r] = "history" ~> (Held(r) = {} \/ cancelled \/ r \in upDone)

-----------------------------------------------------------------------------

Serving(r) == pc[r] \in {"history", "live", "forward"} /\ r \notin closedCh

Feed == INSTANCE FrameFeed WITH
          newest <- written,
          joined <- {r \in Readers : Serving(r)},
          due    <- [r \in Readers |-> IF Serving(r) THEN Held(r) ELSE {}],
          seen   <- egress

(* The ring keeps the promise of FrameFeed: what the history, the two       *)
(* channels and the running broadcast hold together is what the reader is   *)
(* owed, given to it in order.                                              *)
FeedSpec == Feed!Spec
=============================================================================
