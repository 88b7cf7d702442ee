----------------------------- MODULE Timestamps -----------------------------
(***************************************************************************)
(* The times the demuxer gives to frames (src/multiplexer/demuxer.go,      *)
(* src/multiplexer/utils.go, src/multiplexer/aacSplitter.go).              *)
(*                                                                         *)
(* The stream carries times on a clock that wraps; getTimestamps unwraps   *)
(* them against the last one it saw, of whatever track.  A packet of audio *)
(* holds several frames and one time: the splitter counts the frames'      *)
(* times on from the frames before, and starts again from the packet's     *)
(* time when the two have drifted apart.                                   *)
(*                                                                         *)
(* The encoder is external: its clock never wraps, and each packet carries *)
(* the encoder's time modulo Clock.                                        *)
(***************************************************************************)
EXTENDS Integers

CONSTANTS
  Clock,       (* maxTsClock: the times of the stream wrap at this value   *)
  DriftLimit,  (* AudioDriftLimit                                          *)
  Duration,    (* of an audio frame                                        *)
  Starts,      (* the encoder's time at the first packet                   *)
  Steps,       (* the time between pictures, gaps of the stream included   *)
  Reorder,     (* how far the presentation of a picture is after its       *)
               (* decoding                                                 *)
  Jitter,      (* error of the time of an audio packet                     *)
  Counts,      (* frames in an audio packet                                *)
  Skew,        (* bound of the model: distance of the two tracks           *)
  MaxTime      (* bound of the model: the encoder's time                   *)

ASSUME ClockAssumption == Clock \in Nat \ {0} /\ Clock % 2 = 0
ASSUME SplitterAssumption == DriftLimit \in Nat /\ Duration \in Nat \ {0}
ASSUME EncoderAssumption ==
  /\ Starts \subseteq 0 .. Clock - 1 /\ Steps \subseteq Nat
  /\ Reorder \subseteq Nat /\ Jitter \subseteq Int /\ Counts \subseteq Nat
ASSUME BoundAssumption == Skew \in Nat /\ MaxTime \in Nat

Abs(x) == IF x < 0 THEN -x ELSE x

(* No packet is a quarter of a turn away from the pictures: more than six   *)
(* hours of the program's clock.                                            *)
ASSUME TurnAssumption ==
  \A far \in Steps \cup Reorder \cup {Skew + Abs(j) : j \in Jitter} : 4 * far < Clock

(* The time of an audio packet is off by no more than half the drift.       *)
ASSUME JitterAssumption == \A j \in Jitter : 2 * Abs(j) <= DriftLimit

VARIABLES
  encVideo,    (* the encoder's time of the next picture                   *)
  encAudio,    (* the encoder's time of the next audio frame               *)
  prevPts, prevDts, ptsSet, dtsSet,   (* the fields of MpegTsDemuxer       *)
  recentPTS, isInitialized,           (* the fields of AACFrameSplitter    *)
  epoch,       (* unwrapped times less the encoder's, of the first packet  *)
  video,       (* the last picture: its times less the encoder's           *)
  audio        (* the last audio frame: its time, and the same difference  *)

encVars == <<encVideo, encAudio>>
clockVars == <<prevPts, prevDts, ptsSet, dtsSet>>
splitVars == <<recentPTS, isInitialized>>
vars == <<encVars, clockVars, splitVars, epoch, video, audio>>

Init ==
  /\ encVideo \in Starts /\ encAudio = encVideo
  /\ prevPts = 0 /\ prevDts = 0
  /\ ptsSet = FALSE /\ dtsSet = FALSE
  /\ recentPTS = 0 /\ isInitialized = FALSE
  /\ epoch = [pts |-> 0, dts |-> 0]
  /\ video = [seen |-> FALSE, pts |-> 0, dts |-> 0]
  /\ audio = [seen |-> FALSE, pts |-> 0, shift |-> 0]

(* The remainder of Go has the sign of the dividend.                        *)
GoRem(a, b) == IF a < 0 THEN -((-a) % b) ELSE a % b

(* Mutant of unwrapTs: a step back over the wrap is taken for a long step   *)
(* ahead.                                                                   *)
unwrapForward(cur, last, set) ==
  LET diff == cur - GoRem(last, Clock)
  IN  IF ~set THEN cur
      ELSE IF diff < -(Clock \div 2) THEN last + diff + Clock ELSE last + diff

unwrapTs(cur, last, set) ==
  LET diff == cur - GoRem(last, Clock)
  IN  IF ~set THEN cur
      ELSE IF diff > Clock \div 2 THEN last + diff - Clock
      ELSE IF diff < -(Clock \div 2) THEN last + diff + Clock
      ELSE last + diff

(* getTimestamps for a packet of these times; without a DTS the PTS stands  *)
(* for it.                                                                  *)
getTimestamps(pts, dts, hasDts) ==
  LET p == unwrapTs(pts % Clock, prevPts, ptsSet)
      d == IF hasDts THEN unwrapTs(dts % Clock, prevDts, dtsSet) ELSE p
  IN  [pts |-> p, dts |-> d, lastDts |-> d]

(* What getTimestamps leaves in the demuxer; the first packet fixes where   *)
(* the unwrapped clock starts.                                              *)
Unwrapped(ts, encPts, encDts) ==
  /\ prevPts' = ts.pts /\ ptsSet' = TRUE
  /\ prevDts' = ts.lastDts /\ dtsSet' = TRUE
  /\ epoch' = IF ptsSet THEN epoch
              ELSE [pts |-> ts.pts - encPts, dts |-> ts.dts - encDts]

Near(a, b) == Abs(a - b) <= Skew

(* A packet of video: one picture, or none while the demuxer does not know  *)
(* the stream's type.  A DTS equal to the PTS may be left out.              *)
VideoPacket ==
  \E step \in Steps, r \in Reorder, known \in BOOLEAN :
    LET pts == encVideo + r
    IN  /\ encVideo < MaxTime
        /\ Near(encVideo + step, encAudio)
        /\ encVideo' = encVideo + step
        /\ \E hasDts \in IF r = 0 THEN BOOLEAN ELSE {TRUE} :
             LET ts == getTimestamps(pts, encVideo, hasDts)
             IN  /\ Unwrapped(ts, pts, encVideo)
                 /\ video' = IF ~known THEN video
                             ELSE [seen |-> TRUE, pts |-> ts.pts - pts,
                                   dts |-> ts.dts - encVideo]
        /\ UNCHANGED <<encAudio, splitVars, audio>>

(* Mutant of FirstFrameTime: the packet's time is taken as it is.           *)
PacketTime(pts) == pts

(* Mutant of FirstFrameTime: the count is never started again.              *)
CountedTime(pts) == IF isInitialized THEN recentPTS ELSE pts

(* SplitFrameWithTiming: the time of the first frame of a packet.           *)
FirstFrameTime(pts) ==
  IF isInitialized /\ Abs(pts - recentPTS) <= DriftLimit THEN recentPTS ELSE pts

(* A packet of audio: n frames, which the splitter gives their times.       *)
AudioPacket ==
  \E n \in Counts, j \in Jitter :
    LET pts == encAudio + j
        ts == getTimestamps(pts, pts, FALSE)
        start == FirstFrameTime(ts.pts)
        last == [seen |-> TRUE, pts |-> start + (n - 1) * Duration,
                 shift |-> start - encAudio]
    IN  /\ encAudio < MaxTime /\ pts >= 0
        /\ Near(encAudio + n * Duration, encVideo)
        /\ Unwrapped(ts, pts, pts)
        /\ isInitialized' = TRUE
        /\ recentPTS' = start + n * Duration
        /\ audio' = IF n = 0 THEN audio ELSE last
        /\ encAudio' = encAudio + n * Duration
        /\ UNCHANGED <<encVideo, video>>

(* The encoder leaves frames of audio out: a gap in the track.              *)
AudioGap ==
  /\ encAudio < MaxTime
  /\ Near(encAudio + 1, encVideo)
  /\ encAudio' = encAudio + 1
  /\ UNCHANGED <<encVideo, clockVars, splitVars, epoch, video, audio>>

Next == VideoPacket \/ AudioPacket \/ AudioGap

Spec == Init /\ [][Next]_vars

-----------------------------------------------------------------------------

(* Every variable has the values the code can give it.                      *)
TypeOK ==
  /\ encVideo \in Nat /\ encAudio \in Nat
  /\ prevPts \in Int /\ prevDts \in Int
  /\ ptsSet \in BOOLEAN /\ dtsSet = ptsSet
  /\ recentPTS \in Int /\ isInitialized \in BOOLEAN
  /\ epoch \in [pts : Int, dts : Int]
  /\ video \in [seen : BOOLEAN, pts : Int, dts : Int]
  /\ audio \in [seen : BOOLEAN, pts : Int, shift : Int]

(* The PTS of the pictures are the encoder's, moved by the same amount for  *)
(* ever: neither the wrap of the clock, nor steps back over it, nor packets *)
(* of the other track make them jump.  So are the DTS, whichever packets    *)
(* leave theirs out, unless the clock wraps between the two times of the    *)
(* very first packet.                                                       *)
PicturesOnTime ==
  video.seen => /\ video.pts = epoch.pts
                /\ epoch.dts = epoch.pts => video.dts = epoch.dts

(* An audio frame is never further from the encoder's time than the drift   *)
(* the splitter allows and the error of the packet's own time.              *)
AudioInStep ==
  audio.seen =>
    \E j \in Jitter : Abs(audio.shift - (epoch.pts + j)) <= DriftLimit

(* The times of audio frames increase, as long as the packets' times are    *)
(* off by no more than half the allowed drift: starting again never goes    *)
(* back.                                                                    *)
AudioIncreases ==
  [][audio.seen /\ audio' # audio => audio'.pts > audio.pts]_vars
=============================================================================
