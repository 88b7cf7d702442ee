---------------------------- MODULE KeyFrameIndex ----------------------------
(***************************************************************************)
(* Where a viewer starts: the key frames of the video sub-buffer and the   *)
(* choice of the one closest to the wanted offset                          *)
(* (src/buffer/subBuffer.go, src/types/orderedMap.go).                     *)
(*                                                                         *)
(* The writer stores a frame in the ring, and then, in a second critical   *)
(* section, records it in the index.  A subscriber looks a position up in  *)
(* the index, and its ring goroutine reads the ring from there later.  The *)
(* index is never cut when the ring wraps.                                 *)
(*                                                                         *)
(* A frame is its presentation time, in units of the shortest frame        *)
(* duration, and whether it holds an IDR picture.                          *)
(***************************************************************************)
EXTENDS Integers, Sequences

CONSTANTS
  Subscribers,   (* identities of the calls of SubscribeOffset             *)
  Cap,           (* BufCap: slots of the ring                              *)
  MinKeyFrames,  (* key frames a ready buffer has seen                     *)
  ReadyAfter,    (* the 2 seconds of stream a ready buffer has seen        *)
  Offset,        (* how far behind the newest frame a viewer starts        *)
  Durations,     (* the durations a frame may have                         *)
  Gop,           (* assumed of the encoder: an IDR in every Gop frames     *)
  Delay,         (* assumed of the scheduler: frames stored between the    *)
                 (* look-up and the copy of the ring                       *)
  MaxFrames      (* bound of the model: frames stored                      *)

ASSUME SizeAssumption ==
  Cap \in Nat \ {0} /\ Gop \in Nat \ {0} /\ MinKeyFrames \in Nat \ {0}
ASSUME TimeAssumption ==
  ReadyAfter \in Nat /\ Offset \in Nat /\ Durations \subseteq Nat \ {0}
ASSUME BoundAssumption == Delay \in Nat /\ MaxFrames \in Nat

(* The ring keeps a key frame for as long as a subscriber may need it.      *)
ASSUME RoomAssumption == 2 * Offset + Delay + 2 < Cap /\ Gop + Delay + 1 < Cap

VARIABLES
  ring,        (* the slots; Nil is a slot never written                   *)
  writePos,    (* the slot the next frame goes to                          *)
  stored,      (* number of frames stored                                  *)
  sinceIDR,    (* frames since the last IDR of the stream                  *)
  newest,      (* presentation time of the last frame of the stream        *)
  pending,     (* the index entry the writer has yet to make, or Nil       *)
  formatKnown, (* b.format is detected                                     *)
  keyFrames,   (* the index: [pts, pos] in the order of insertion          *)
  curPTS,      (* presentation time of the last frame indexed              *)
  startPTS,    (* presentation time of the first frame indexed             *)
  started,
  ready,
  pc,          (* where each call of SubscribeOffset is                    *)
  found,       (* the index entry the look-up returned                     *)
  age,         (* frames stored since the look-up                          *)
  first        (* the first frame the subscriber gets                      *)

writerVars == <<ring, writePos, stored, sinceIDR, newest, formatKnown>>
indexVars == <<keyFrames, curPTS, startPTS, started, ready>>
callVars == <<pc, found, age, first>>
vars == <<writerVars, pending, indexVars, callVars>>

Slots == 0 .. Cap - 1
Nil == [pts |-> 0, idr |-> FALSE, pos |-> 0]
NoEntry == [pts |-> 0, pos |-> 0]
Diff(a, b) == IF a < b THEN b - a ELSE a - b

Init ==
  /\ ring = [s \in Slots |-> Nil]
  /\ writePos = 0
  /\ stored = 0
  /\ sinceIDR = 0
  /\ newest = 0
  /\ pending = Nil
  /\ formatKnown = FALSE
  /\ keyFrames = <<>>
  /\ curPTS = 0
  /\ startPTS = 0
  /\ started = FALSE
  /\ ready = FALSE
  /\ pc = [r \in Subscribers |-> "idle"]
  /\ found = [r \in Subscribers |-> NoEntry]
  /\ age = [r \in Subscribers |-> 0]
  /\ first = [r \in Subscribers |-> Nil]

(* The next frame of the encoder.                                           *)
NextFrame(f) ==
  /\ \E d \in Durations : f.pts = newest + d
  /\ f.idr \in BOOLEAN
  /\ sinceIDR >= Gop - 1 => f.idr
  /\ newest' = f.pts
  /\ sinceIDR' = IF f.idr THEN 0 ELSE sinceIDR + 1

(* writeVideo of a frame without an IDR picture before the first one: the   *)
(* format is not known and the frame is dropped.                            *)
DropFrame ==
  /\ pending = Nil
  /\ ~formatKnown
  /\ newest < MaxFrames
  /\ \E d \in Durations :
       LET f == [pts |-> newest + d, idr |-> FALSE, pos |-> 0] IN NextFrame(f)
  /\ UNCHANGED <<ring, writePos, stored, pending, formatKnown, indexVars,
                 callVars>>

(* writeVideo up to the ring's Write.  A subscriber whose history was empty *)
(* gets the frame as its first.                                             *)
StoreFrame ==
  /\ pending = Nil
  /\ stored < MaxFrames
  /\ \A r \in Subscribers : pc[r] = "found" => age[r] < Delay
  /\ \E d \in Durations, i \in BOOLEAN :
       LET f == [pts |-> newest + d, idr |-> i, pos |-> writePos]
       IN  /\ NextFrame(f)
           /\ formatKnown \/ f.idr
           /\ ring' = [ring EXCEPT ![writePos] = f]
           /\ pending' = f
           /\ first' = [r \in Subscribers |->
                          IF pc[r] = "waiting" THEN f ELSE first[r]]
  /\ formatKnown' = TRUE
  /\ stored' = stored + 1
  /\ writePos' = (writePos + 1) % Cap
  /\ pc' = [r \in Subscribers |-> IF pc[r] = "waiting" THEN "first" ELSE pc[r]]
  /\ age' = [r \in Subscribers |-> IF pc[r] = "found" THEN age[r] + 1 ELSE age[r]]
  /\ UNCHANGED <<indexVars, found>>

(* OrderedMap.Drop and Set; the keys of the map are the times.              *)
Keys(index) == {index[i].pts : i \in 1 .. Len(index)}

Drop(index, pts) ==
  IF pts \notin Keys(index) THEN index
  ELSE LET i == CHOOSE j \in 1 .. Len(index) : index[j].pts = pts
       IN  SubSeq(index, 1, i - 1) \o SubSeq(index, i + 1, Len(index))

(* Mutant of Set: the position is the one the next frame goes to.           *)
SetWritePos(index, f) == Append(index, [pts |-> f.pts, pos |-> writePos])

Set(index, f) == Append(index, [pts |-> f.pts, pos |-> f.pos])

(* The rest of writeVideo, under mtx; the buffer is ready once it has seen  *)
(* enough stream and enough key frames.                                     *)
IndexFrame ==
  /\ pending # Nil
  /\ LET others == Drop(keyFrames, pending.pts)
     IN  keyFrames' = IF pending.idr THEN Set(others, pending) ELSE others
  /\ curPTS' = pending.pts
  /\ startPTS' = IF started THEN startPTS ELSE pending.pts
  /\ started' = TRUE
  /\ ready' = \/ ready
              \/ /\ pending.pts - startPTS' > ReadyAfter
                 /\ Len(keyFrames') >= MinKeyFrames
  /\ pending' = Nil
  /\ UNCHANGED <<writerVars, callVars>>

-----------------------------------------------------------------------------

Target == curPTS - Offset
Distance(i) == Diff(Target, keyFrames[i].pts)

(* Mutant of ClosestKeyFrame: the loop is not entered.                      *)
NewestKeyFrame == Len(keyFrames)

(* The loop of getClosestKeyFramePos goes from the newest key frame to      *)
(* older ones as long as the distance does not grow.                        *)
ClosestKeyFrame ==
  CHOOSE i \in 1 .. Len(keyFrames) :
    /\ \A j \in i .. Len(keyFrames) - 1 : Distance(j) <= Distance(j + 1)
    /\ i > 1 => Distance(i - 1) > Distance(i)

(* SubscribeOffset: the look-up, under mtx.                                 *)
LookUp(r) ==
  /\ pc[r] = "idle"
  /\ ready
  /\ keyFrames # <<>>
  /\ found' = [found EXCEPT ![r] = keyFrames[ClosestKeyFrame]]
  /\ pc' = [pc EXCEPT ![r] = "found"]
  /\ UNCHANGED <<writerVars, pending, indexVars, age, first>>

(* Mutant of CopyRing: the copy starts one slot too late.                   *)
CopyRingLate(r) ==
  /\ pc[r] = "found"
  /\ \/ /\ (found[r].pos + 1) % Cap # writePos
        /\ first' = [first EXCEPT ![r] = ring[(found[r].pos + 1) % Cap]]
        /\ pc' = [pc EXCEPT ![r] = "first"]
     \/ /\ (found[r].pos + 1) % Cap = writePos
        /\ pc' = [pc EXCEPT ![r] = "waiting"]
        /\ UNCHANGED first
  /\ UNCHANGED <<writerVars, pending, indexVars, found, age>>

(* ReadFromPos's goroutine copies the ring from the position found up to    *)
(* the write position: the subscriber's first frame is the one in that      *)
(* slot, or the next one written when the two positions are the same.       *)
CopyRing(r) ==
  /\ pc[r] = "found"
  /\ \/ /\ found[r].pos # writePos
        /\ first' = [first EXCEPT ![r] = ring[found[r].pos]]
        /\ pc' = [pc EXCEPT ![r] = "first"]
     \/ /\ found[r].pos = writePos
        /\ pc' = [pc EXCEPT ![r] = "waiting"]
        /\ UNCHANGED first
  /\ UNCHANGED <<writerVars, pending, indexVars, found, age>>

Next ==
  \/ DropFrame
  \/ StoreFrame
  \/ IndexFrame
  \/ \E r \in Subscribers : LookUp(r) \/ CopyRing(r)

Spec == Init /\ [][Next]_vars

-----------------------------------------------------------------------------

Frames == [pts : Nat, idr : BOOLEAN, pos : Slots]
Entries == [pts : Nat, pos : Slots]

(* Every variable has the values the code can give it.                      *)
TypeOK ==
  /\ ring \in [Slots -> Frames]
  /\ writePos \in Slots
  /\ stored \in Nat /\ sinceIDR \in Nat /\ newest \in Nat
  /\ pending \in Frames
  /\ formatKnown \in BOOLEAN
  /\ keyFrames \in Seq(Entries)
  /\ curPTS \in Nat /\ startPTS \in Nat
  /\ started \in BOOLEAN /\ ready \in BOOLEAN
  /\ pc \in [Subscribers -> {"idle", "found", "waiting", "first"}]
  /\ found \in [Subscribers -> Entries]
  /\ age \in [Subscribers -> 0 .. Delay]
  /\ first \in [Subscribers -> Frames]

(* The index agrees with the ring: the slot of an entry holds the entry's   *)
(* key frame or a newer frame, and no key frame of the ring is missing from *)
(* the index but the one the writer is about to enter.                      *)
IndexSound ==
  /\ \A i \in 1 .. Len(keyFrames) :
       LET k == keyFrames[i]
       IN  \/ ring[k.pos].pts = k.pts /\ ring[k.pos].idr
           \/ ring[k.pos].pts > k.pts
  /\ \A s \in Slots : ring[s].idr /\ ring[s] # pending =>
       \E i \in 1 .. Len(keyFrames) :
         keyFrames[i] = [pts |-> ring[s].pts, pos |-> s]

(* The backwards search of getClosestKeyFramePos, which stops as soon as    *)
(* the distance grows, finds a key frame that no other one of the index is  *)
(* closer to the target than.                                               *)
ClosestFound ==
  keyFrames # <<>> =>
    \A i \in 1 .. Len(keyFrames) : Distance(ClosestKeyFrame) <= Distance(i)

(* A viewer gets first the very key frame the look-up found: the slot was   *)
(* not written again.  It holds of the streams and schedules that           *)
(* RoomAssumption allows.                                                   *)
ServedAsFound ==
  \A r \in Subscribers :
    pc[r] = "first" => first[r].idr /\ first[r].pts = found[r].pts
=============================================================================
