---------------------------- MODULE ViewerStream ----------------------------
(***************************************************************************)
(* A viewer's subscription to the buffer of audio and video                *)
(* (src/buffer/buffer.go, src/buffer/subBuffer.go).                        *)
(*                                                                         *)
(* Subscribe subscribes to the video track at an offset to the newest      *)
(* frame, and then to the audio track at the time of the first video       *)
(* frame.  Behind each track are a goroutine of the ring, which gives the  *)
(* history and then the live frames to a channel, and a goroutine of the   *)
(* sub-buffer, which collects the frames up to the newest one              *)
(* (prebuffer), passes them on at once, and then goes on with the live     *)
(* ones.                                                                   *)
(*                                                                         *)
(* The ring is what FrameFeed promises of it: it owes frames and gives     *)
(* them oldest first.  Frames of a track are numbered from 1; frame k is   *)
(* presented at k * Step[t] and lies in slot (k - 1) % Cap of its ring.    *)
(***************************************************************************)
EXTENDS Integers, FiniteSets, SequencesExt

CONSTANTS
  Step,         (* duration of a frame, for each track                     *)
  Cap,          (* BufCap: slots of a ring                                 *)
  EgressChCap, LiveChCap,  (* capacities of the two channels of the ring   *)
  OutChCap,     (* capacity of the channel of the viewer                   *)
  MinKeyFrames, (* key frames a ready video buffer has                     *)
  ReadyAfter,   (* how long a ready buffer was written to                  *)
  Offset,       (* offset to the newest frame a viewer asks for            *)
  Gop,          (* every Gop-th picture is a key frame                     *)
  Skew,         (* bound of the model: how far the tracks are apart        *)
  Delay,        (* assumed of the scheduler: frames that come while a      *)
                (* Subscribe is between its first look-up and its last     *)
                (* copy of a ring                                          *)
  MaxAge,       (* bound of the model: frames that come after the look-up  *)
  MaxTime       (* bound of the model: time of the newest frame            *)

Tracks == {"video", "audio"}

ASSUME StepAssumption == Step \in [Tracks -> Nat \ {0}]
ASSUME SizeAssumption ==
  /\ {Cap, EgressChCap, LiveChCap, OutChCap, Gop} \subseteq Nat \ {0}
  /\ {MinKeyFrames, ReadyAfter, Offset, Skew, Delay, MaxAge, MaxTime}
       \subseteq Nat

(* The audio ring, some 10 seconds long, holds more than a viewer goes back *)
(* (2 seconds and a group of pictures) and what comes while it subscribes.  *)
ASSUME RoomAssumption ==
  Offset + Skew + (Gop + Delay + 1) * Step["video"]
    <= (Cap - 2) * Step["audio"]

VARIABLES
  count,     (* frames written to the ring of each track                   *)
  half,      (* the track a Write is half done with, or "none"             *)
  ready,     (* the tracks that are ready                                  *)
  age,       (* frames that came since the first look-up                   *)
  call,      (* where Subscribe is                                         *)
  found,     (* the frame the look-up has found                            *)
  ring,      (* the ring's goroutine: "none", "started", "serving", "left" *)
  copied,    (* the newest frame in its history                            *)
  owed,      (* the frames in its history and channels                     *)
  pc,        (* the sub-buffer's goroutine                                 *)
  first,     (* the first frame of the stream                              *)
  newest,    (* the newest frame when the goroutine starts                 *)
  pre,       (* the prebuffer                                              *)
  out,       (* the frames the viewer's channel has ever accepted          *)
  upDone,    (* the viewer's context is done                               *)
  closing    (* how many steps Close has made                              *)

writerVars == <<count, half, ready, age>>
ringVars == <<ring, copied, owed>>
streamVars == <<pc, first, newest, pre, out>>
vars == <<writerVars, call, found, ringVars, streamVars, upDone,
          closing>>

Init ==
  /\ count = [t \in Tracks |-> 0]
  /\ half = "none"
  /\ ready = {}
  /\ call = "idle"
  /\ found = [t \in Tracks |-> 0]
  /\ age = 0
  /\ ring = [t \in Tracks |-> "none"]
  /\ copied = [t \in Tracks |-> 0]
  /\ owed = [t \in Tracks |-> {}]
  /\ pc = [t \in Tracks |-> "none"]
  /\ first = [t \in Tracks |-> 0]
  /\ newest = [t \in Tracks |-> 0]
  /\ pre = [t \in Tracks |-> <<>>]
  /\ out = [t \in Tracks |-> <<>>]
  /\ upDone = FALSE
  /\ closing = 0

Time(t, f) == f * Step[t]
Distance(a, b) == IF a < b THEN b - a ELSE a - b

(* curPTS, as the number of its frame: a video frame is in the ring before  *)
(* it is stamped, an audio frame is stamped before it is in the ring.       *)
Current(t) ==
  IF half # t THEN count[t]
              ELSE IF t = "video" THEN count[t] - 1 ELSE count[t] + 1

KeyFrames(n) == {f \in 1 .. n : f % Gop = 1 % Gop}

(* Close cancels both contexts and goes through the sub-buffers: it waits   *)
(* for the streams of the video track (1) and for its ring (2), then for    *)
(* those of the audio track (3, 4).                                         *)
Cancelled == closing > 0
RingCancelled(t) == closing >= IF t = "video" THEN 2 ELSE 4
Closed(t) == closing >= IF t = "video" THEN 3 ELSE 5

-----------------------------------------------------------------------------
(* The writer.                                                              *)

(* A Subscribe is between its first look-up and its last copy of a ring.    *)
Subscribing ==
  /\ found["video"] > 0
  /\ call \in {"video", "audio"}
  /\ ring["audio"] \in {"none", "started"}

(* A frame of a track comes.  When it does, and how many come after the     *)
(* first look-up, are bounds of the model.  A Write into a buffer that is   *)
(* being closed is not modelled: see WriteFrame of Haven.                   *)
NextFrame(t) ==
  /\ half = "none"
  /\ ~RingCancelled(t)
  /\ Time(t, count[t] + 1) <= MaxTime
  /\ \A u \in Tracks : Time(t, count[t] + 1) <= Time(u, count[u] + 1) + Skew
  /\ Subscribing => age < Delay
  /\ IF found["video"] > 0 THEN age < MaxAge /\ age' = age + 1
                          ELSE UNCHANGED age

(* circularBuffer.Write: the frame enters the ring and is broadcast.        *)
Store(t) ==
  /\ ~RingCancelled(t)
  /\ count' = [count EXCEPT ![t] = @ + 1]
  /\ owed' = IF ring[t] = "serving"
               THEN [owed EXCEPT ![t] = @ \cup {count[t] + 1}]
               ELSE owed

(* writeVideo stores the picture and then stamps it; the buffer is ready    *)
(* once it has seen enough stream and enough key frames.                    *)
StoreVideo ==
  /\ NextFrame("video")
  /\ Store("video")
  /\ half' = "video"
  /\ UNCHANGED <<ready, call, found, ring, copied, streamVars, upDone,
                 closing>>

StampVideo ==
  /\ half = "video"
  /\ ~RingCancelled("video")
  /\ half' = "none"
  /\ ready' = IF /\ Time("video", count["video"] - 1) > ReadyAfter
                 /\ Cardinality(KeyFrames(count["video"])) >= MinKeyFrames
              THEN ready \cup {"video"} ELSE ready
  /\ UNCHANGED <<count, age, call, found, ringVars, streamVars, upDone,
                 closing>>

(* writeAudio stamps the frame first.                                       *)
StampAudio ==
  /\ NextFrame("audio")
  /\ half' = "audio"
  /\ UNCHANGED <<count, ready, call, found, ringVars, streamVars,
                 upDone, closing>>

StoreAudio ==
  /\ half = "audio"
  /\ Store("audio")
  /\ half' = "none"
  /\ ready' = IF Time("audio", count["audio"]) > ReadyAfter
              THEN ready \cup {"audio"} ELSE ready
  /\ UNCHANGED <<age, call, found, ring, copied, streamVars, upDone, closing>>

-----------------------------------------------------------------------------
(* Subscribe.                                                               *)

(* While Close waits for the ring it holds the mutex of the sub-buffer.     *)
MtxFree(t) == RingCancelled(t) => Closed(t)

(* SubscribeOffset and SubscribePTS refuse a buffer that is not ready.      *)
Ask(t) ==
  /\ call = IF t = "video" THEN "idle" ELSE "audio"
  /\ pc[t] = "none"
  /\ IF t \in ready THEN call' = t /\ pc' = [pc EXCEPT ![t] = "asked"]
                    ELSE call' = "failed" /\ UNCHANGED pc
  /\ UNCHANGED <<writerVars, found, ringVars, first, newest, pre, out,
                 upDone, closing>>

(* The frames of S closest to time p; the loops of getClosestKeyFramePos    *)
(* and getStartPosFromPTS go on to the older one of two as close.           *)
Closest(t, S, p) ==
  LET near == {f \in S : \A g \in S :
                 Distance(Time(t, f), p) <= Distance(Time(t, g), p)}
  IN  CHOOSE f \in near : \A g \in near : f <= g

InRing(t) == {f \in 1 .. count[t] : f > count[t] - Cap}

(* getClosestKeyFramePos; the index of a closed buffer is nil.              *)
LookUpVideo ==
  /\ call = "video" /\ pc["video"] = "asked"
  /\ MtxFree("video")
  /\ IF Closed("video")
     THEN call' = "panicked" /\ UNCHANGED <<pc, found>>
     ELSE /\ found' = [found EXCEPT !["video"] =
                 Closest("video", KeyFrames(Current("video")),
                         Time("video", Current("video")) - Offset)]
          /\ pc' = [pc EXCEPT !["video"] = "found"]
          /\ UNCHANGED call
  /\ UNCHANGED <<writerVars, ringVars, first, newest, pre, out,
                 upDone, closing>>

(* Mutant of LookUpAudio: audio starts with the newest frame.               *)
LookUpNewest ==
  /\ call = "audio" /\ pc["audio"] = "asked"
  /\ MtxFree("audio")
  /\ found' = [found EXCEPT !["audio"] = count["audio"]]
  /\ pc' = [pc EXCEPT !["audio"] = "found"]
  /\ UNCHANGED <<writerVars, call, ringVars, first, newest, pre, out,
                 upDone, closing>>

(* getStartPosFromPTS; the newest time of a closed buffer is 0.             *)
LookUpAudio ==
  /\ call = "audio" /\ pc["audio"] = "asked"
  /\ MtxFree("audio")
  /\ LET target == Time("video", first["video"])
     IN  IF Closed("audio") \/ target > Time("audio", Current("audio"))
         THEN call' = "failed" /\ UNCHANGED <<pc, found>>
         ELSE /\ found' = [found EXCEPT !["audio"] =
                             Closest("audio", InRing("audio"), target)]
              /\ pc' = [pc EXCEPT !["audio"] = "found"]
              /\ UNCHANGED call
  /\ UNCHANGED <<writerVars, ringVars, first, newest, pre, out,
                 upDone, closing>>

(* ReadFromPos starts the ring's goroutine; the ring of a closed buffer is  *)
(* nil.                                                                     *)
OpenRing(t) ==
  /\ call = t /\ pc[t] = "found"
  /\ IF Closed(t)
     THEN call' = "panicked" /\ UNCHANGED <<pc, ring>>
     ELSE /\ pc' = [pc EXCEPT ![t] = "waiting"]
          /\ ring' = [ring EXCEPT ![t] = "started"]
          /\ UNCHANGED call
  /\ UNCHANGED <<writerVars, found, copied, owed, first, newest, pre, out,
                 upDone, closing>>

(* Mutant of Receives: the newest one.                                      *)
ReceivesNewest(t, f) ==
  /\ f \in owed[t]
  /\ \A g \in owed[t] : g <= f
  /\ owed' = [owed EXCEPT ![t] = @ \ {f}]

(* The stream receives frame f, the oldest in the ring's hands.             *)
Receives(t, f) ==
  /\ f \in owed[t]
  /\ \A g \in owed[t] : f <= g
  /\ owed' = [owed EXCEPT ![t] = @ \ {f}]

(* subscribe waits for the first frame, starts the goroutine of the stream  *)
(* and returns.                                                             *)
TakeFirst(t) ==
  /\ pc[t] = "waiting"
  /\ \/ \E f \in owed[t] :
          /\ Receives(t, f)
          /\ first' = [first EXCEPT ![t] = f]
          /\ pc' = [pc EXCEPT ![t] = "start"]
          /\ call' = IF t = "video" THEN "audio" ELSE "done"
     \/ /\ ring[t] = "left"
        /\ call' = "failed"
        /\ pc' = [pc EXCEPT ![t] = "ended"]
        /\ UNCHANGED <<first, owed>>
  /\ UNCHANGED <<writerVars, found, ring, copied, newest, pre, out,
                 upDone, closing>>

-----------------------------------------------------------------------------
(* The ring's goroutine, as FrameFeed describes it.                         *)

(* It copies the slots from the position found up to the write position and *)
(* registers for the live frames.                                           *)
CopyRing(t) ==
  /\ ring[t] = "started"
  /\ LET n == (count[t] + 1 - found[t]) % Cap
     IN  owed' = [owed EXCEPT ![t] = count[t] - n + 1 .. count[t]]
  /\ copied' = [copied EXCEPT ![t] = count[t]]
  /\ ring' = [ring EXCEPT ![t] = "serving"]
  /\ UNCHANGED <<writerVars, call, found, streamVars, upDone, closing>>

(* A full channel makes it skip a frame: the live channel one that came     *)
(* after the copy, the other channel one that has no room in it.            *)
SkipFrame(t) ==
  /\ ring[t] = "serving"
  /\ \E f \in owed[t] :
       /\ \/ Cardinality({g \in owed[t] : copied[t] < g /\ g < f}) >= LiveChCap
          \/ Cardinality({g \in owed[t] : g < f}) >= EgressChCap
       /\ owed' = [owed EXCEPT ![t] = @ \ {f}]
  /\ UNCHANGED <<writerVars, call, found, ring, copied, streamVars, upDone,
                 closing>>

(* It leaves: its channels are closed and drained.                          *)
LeaveRing(t) ==
  /\ ring[t] = "serving"
  /\ upDone \/ RingCancelled(t)
  /\ ring' = [ring EXCEPT ![t] = "left"]
  /\ owed' = [owed EXCEPT ![t] = {}]
  /\ UNCHANGED <<writerVars, call, found, copied, streamVars, upDone,
                 closing>>

-----------------------------------------------------------------------------
(* The sub-buffer's goroutine.                                              *)

(* Mutant of Missing: the newest frame itself is not enough.                *)
MissingBeyond(f, n) == f <= n

(* The condition of the loop that builds the prebuffer: the last frame in   *)
(* it comes before the newest one.                                          *)
Missing(f, n) == f < n

(* The goroutine reads curPTS, which Close sets to 0, and collects the      *)
(* frames up to this one.                                                   *)
Start(t) ==
  /\ pc[t] = "start"
  /\ MtxFree(t)
  /\ newest' = [newest EXCEPT ![t] = IF Closed(t) THEN 0 ELSE Current(t)]
  /\ pre' = [pre EXCEPT ![t] = <<first[t]>>]
  /\ pc' = [pc EXCEPT ![t] = IF Missing(first[t], newest'[t]) THEN "collect"
                                                             ELSE "flush"]
  /\ UNCHANGED <<writerVars, call, found, ringVars, first, out,
                 upDone, closing>>

Collect(t) ==
  /\ pc[t] = "collect"
  /\ \E f \in owed[t] :
       /\ Receives(t, f)
       /\ pre' = [pre EXCEPT ![t] = Append(@, f)]
       /\ pc' = [pc EXCEPT ![t] = IF Missing(f, newest[t]) THEN "collect"
                                                           ELSE "flush"]
  /\ UNCHANGED <<writerVars, call, found, ring, copied, first, newest, out,
                 upDone, closing>>

Done == Cancelled \/ upDone

(* Mutant of MayBeFull: off by one.                                         *)
FullTooEarly(t) == Len(out[t]) >= OutChCap - 1

(* The viewer's channel is full when nobody has received from it yet, or    *)
(* when the viewer is slow; how much it has received is left open.          *)
HasRoom(t) == Len(out[t]) < OutChCap \/ call = "done"
MayBeFull(t) == Len(out[t]) >= OutChCap

(* Frame f enters the viewer's channel, or is skipped when it is full.      *)
Output(t, f) ==
  \/ /\ HasRoom(t)
     /\ out' = [out EXCEPT ![t] = Append(@, f)]
  \/ /\ MayBeFull(t)
     /\ UNCHANGED out

(* The prebuffer is passed on at once, unless a context is done when the    *)
(* channel is full; and then the live frames.                               *)
Flush(t) ==
  /\ pc[t] = "flush"
  /\ Output(t, Head(pre[t]))
  /\ Done => out' # out
  /\ pre' = [pre EXCEPT ![t] = Tail(@)]
  /\ pc' = [pc EXCEPT ![t] = IF Len(pre[t]) = 1 THEN "live" ELSE "flush"]
  /\ UNCHANGED <<writerVars, call, found, ringVars, first, newest, upDone,
                 closing>>

Relay(t) ==
  /\ pc[t] = "live"
  /\ \E f \in owed[t] : Receives(t, f) /\ Output(t, f)
  /\ UNCHANGED <<writerVars, call, found, ring, copied, pc, first, newest, pre,
                 upDone, closing>>

(* Mutant of End: the prebuffer is built without an eye on the contexts.    *)
EndAfterPrebuffer(t) ==
  /\ pc[t] \in {"flush", "live"}
  /\ Done \/ (ring[t] = "left" /\ pc[t] = "live")
  /\ pc' = [pc EXCEPT ![t] = "ended"]
  /\ pre' = [pre EXCEPT ![t] = <<>>]
  /\ UNCHANGED <<writerVars, call, found, ringVars, first, newest, out,
                 upDone, closing>>

(* It ends when a context is done, or when the ring has left.               *)
End(t) ==
  /\ pc[t] \in {"collect", "flush", "live"}
  /\ Done \/ (ring[t] = "left" /\ pc[t] # "flush")
  /\ pc' = [pc EXCEPT ![t] = "ended"]
  /\ pre' = [pre EXCEPT ![t] = <<>>]
  /\ UNCHANGED <<writerVars, call, found, ringVars, first, newest, out,
                 upDone, closing>>

-----------------------------------------------------------------------------
(* The viewer, and Close.                                                   *)

UpstreamDone ==
  /\ ~upDone
  /\ call # "idle"
  /\ upDone' = TRUE
  /\ UNCHANGED <<writerVars, call, found, ringVars, streamVars, closing>>

Streaming(t) == pc[t] \in {"start", "collect", "flush", "live"}

(* One step of Close for each thing it waits for.                           *)
Close ==
  /\ closing < 5
  /\ CASE closing = 1 -> ~Streaming("video")
       [] closing = 2 -> ring["video"] \notin {"started", "serving"}
       [] closing = 3 -> ~Streaming("audio")
       [] closing = 4 -> ring["audio"] \notin {"started", "serving"}
       [] OTHER -> TRUE
  /\ closing' = closing + 1
  /\ ready' = CASE closing = 1 -> ready \ {"video"}
                [] closing = 3 -> ready \ {"audio"}
                [] OTHER -> ready
  /\ UNCHANGED <<count, half, age, call, found, ringVars, streamVars, upDone>>

Writer == StoreVideo \/ StampVideo \/ StampAudio \/ StoreAudio
RingGoroutine(t) == CopyRing(t) \/ SkipFrame(t) \/ LeaveRing(t)
StreamGoroutine(t) ==
  Start(t) \/ Collect(t) \/ Flush(t) \/ Relay(t) \/ End(t)
SubscribeGoesOn ==
  \/ LookUpVideo \/ LookUpAudio \/ Ask("audio")
  \/ \E t \in Tracks : OpenRing(t) \/ TakeFirst(t)

Next ==
  \/ Writer
  \/ Ask("video")
  \/ SubscribeGoesOn
  \/ \E t \in Tracks : RingGoroutine(t) \/ StreamGoroutine(t)
  \/ UpstreamDone
  \/ Close

(* A Write, a Subscribe and a Close that have begun go on, and so do the    *)
(* goroutines; a select does not ignore a done context for ever.            *)
Fairness ==
  /\ WF_vars(half # "none" /\ Writer)
  /\ WF_vars(SubscribeGoesOn)
  /\ WF_vars(Cancelled /\ Close)
  /\ \A t \in Tracks :
       /\ WF_vars(CopyRing(t))
       /\ WF_vars(LeaveRing(t))
       /\ WF_vars(StreamGoroutine(t))
       /\ SF_vars(End(t))

Spec == Init /\ [][Next]_vars

FairSpec == Spec /\ Fairness

-----------------------------------------------------------------------------
Joined(t) == IF ring[t] = "serving" THEN {t} ELSE {}

(* Frames on their way from the ring to the viewer's channel.               *)
OnTheWay(t) ==
  owed[t] \cup Range(pre[t]) \cup (IF pc[t] = "start" THEN {first[t]} ELSE {})

VideoFeed == INSTANCE FrameFeed WITH
  Readers <- {"video"},
  newest  <- count["video"],
  joined  <- Joined("video"),
  due     <- [t \in {"video"} |-> OnTheWay(t)],
  seen    <- [t \in {"video"} |-> out[t]]

AudioFeed == INSTANCE FrameFeed WITH
  Readers <- {"audio"},
  newest  <- count["audio"],
  joined  <- Joined("audio"),
  due     <- [t \in {"audio"} |-> OnTheWay(t)],
  seen    <- [t \in {"audio"} |-> out[t]]

(* The buffer promises a viewer, for each track, what the ring promises its *)
(* subscribers: the prebuffer and the change to live frames keep the order, *)
(* and give no frame twice or after a later one.                            *)
FeedSpec == VideoFeed!Spec /\ AudioFeed!Spec

(* Subscribe asks for audio "at the time of the first video frame": the two *)
(* streams of a viewer start no further apart than an audio frame is long.  *)
StartsTogether ==
  call = "done" =>
    Distance(Time("audio", first["audio"]), Time("video", first["video"]))
      <= Step["audio"]

(* The frames that full channels made the code skip.                        *)
Lost(t) ==
  IF ring[t] = "serving" /\ Streaming(t)
  THEN (first[t] .. count[t]) \ (OnTheWay(t) \cup Range(out[t]))
  ELSE {}

(* A history that fits the channels reaches the viewer's channel whole,     *)
(* although it comes at once and no send waits.                             *)
HistoryWhole ==
  \A t \in Tracks :
    LET history == first[t] .. copied[t]
    IN  /\ first[t] > 0
        /\ Cardinality(history) <= EgressChCap
        /\ Cardinality(history) <= OutChCap
        => Lost(t) \cap history = {}

(* Close returns, whatever the viewer does and wherever its subscription    *)
(* is: it waits for the streams and the rings of both tracks.               *)
CloseReturns == Cancelled ~> (closing = 5)

(* A stream that has started gives the viewer a first frame without waiting *)
(* for the publisher to send more, unless frames were skipped.              *)
PlayerStarts ==
  \A t \in Tracks :
    (pc[t] = "start") ~> (out[t] # <<>> \/ Lost(t) # {} \/ pc[t] = "ended")
=============================================================================
