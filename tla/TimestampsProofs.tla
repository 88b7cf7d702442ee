-------------------------- MODULE TimestampsProofs --------------------------
(***************************************************************************)
(* Proofs about the unwrapping of the stream's clock and the times of the  *)
(* frames, for a clock of any even length and streams of any length.       *)
(***************************************************************************)
EXTENDS Timestamps, TLAPS

(* The remainder is in the first turn, and a whole number of turns away.    *)
LEMMA ModBounds ==
  ASSUME NEW x \in Int
  PROVE  /\ x % Clock \in 0 .. Clock - 1
         /\ x \div Clock \in Int
         /\ x = Clock * (x \div Clock) + (x % Clock)
<1>1. x % Clock \in 0 .. Clock - 1 /\ x \div Clock \in Int
  BY ClockAssumption
<1>2. x = Clock * (x \div Clock) + (x % Clock)
  BY ClockAssumption, Z3
<1> QED BY <1>1, <1>2

(* It is the only number of which this is true.                             *)
LEMMA RemainderUnique ==
  ASSUME NEW c \in Nat, c > 0, NEW x \in Int, NEW q \in Int, NEW r \in 0 .. c - 1,
         x = c * q + r
  PROVE  x % c = r
  BY Z3

LEMMA ModUnique ==
  ASSUME NEW x \in Int, NEW q \in Int, NEW r \in 0 .. Clock - 1,
         x = Clock * q + r
  PROVE  x % Clock = r
<1>1. Clock \in Nat /\ Clock > 0
  BY ClockAssumption
<1> QED BY <1>1, RemainderUnique

LEMMA TurnBack ==
  ASSUME NEW c \in Int, NEW q \in Int, NEW r \in Int, NEW d \in Int,
         NEW x \in Int, x = c * q + r
  PROVE  /\ x + d = c * (q - 1) + (r + d + c)
         /\ x + d = c * (q + 1) + (r + d - c)
  BY Z3

LEMMA Half ==
  ASSUME NEW c \in Nat, c % 2 = 0
  PROVE  c = 2 * (c \div 2) /\ c \div 2 \in Int
  OBVIOUS

(* The remainder of a number less than a turn away.                         *)
LEMMA ModStep ==
  ASSUME NEW x \in Int, NEW d \in Int, -Clock < d, d < Clock
  PROVE  LET r == x % Clock
         IN  (x + d) % Clock = IF r + d < 0 THEN r + d + Clock
                               ELSE IF r + d < Clock THEN r + d ELSE r + d - Clock
<1> DEFINE r == x % Clock
           q == x \div Clock
<1>1. /\ r \in 0 .. Clock - 1 /\ q \in Int /\ x = Clock * q + r
      /\ Clock \in Int /\ Clock > 0
  BY ModBounds, ClockAssumption
<1> HIDE DEF r, q
<1>2. CASE r + d < 0
  <2> DEFINE p == q - 1
             m == r + d + Clock
             y == x + d
  <2>1. y = Clock * p + m
    BY <1>1, TurnBack
  <2>2. m \in 0 .. Clock - 1 /\ p \in Int /\ y \in Int
    BY <1>1, <1>2
  <2> HIDE DEF p, m, y
  <2>3. y % Clock = m
    BY <2>1, <2>2, ModUnique
  <2>4. (x + d) % Clock = r + d + Clock
    BY <2>3 DEF m, y
  <2> QED BY <1>2, <2>4 DEF r
<1>3. CASE r + d >= 0 /\ r + d < Clock
  <2>1. x + d = Clock * q + (r + d)
    BY <1>1
  <2>2. r + d \in 0 .. Clock - 1
    BY <1>1, <1>3
  <2>3. (x + d) % Clock = r + d
    BY <1>1, <2>1, <2>2, ModUnique
  <2> QED BY <1>1, <1>3, <2>3 DEF r
<1>4. CASE r + d >= Clock
  <2> DEFINE p == q + 1
             m == r + d - Clock
             y == x + d
  <2>1. y = Clock * p + m
    BY <1>1, TurnBack
  <2>2. m \in 0 .. Clock - 1 /\ p \in Int /\ y \in Int
    BY <1>1, <1>4
  <2> HIDE DEF p, m, y
  <2>3. y % Clock = m
    BY <2>1, <2>2, ModUnique
  <2>4. (x + d) % Clock = r + d - Clock
    BY <2>3 DEF m, y
  <2> QED BY <1>1, <1>4, <2>4 DEF r
<1> QED BY <1>1, <1>2, <1>3, <1>4

(* Go's remainder of a number not below zero, or less than a turn below.    *)
LEMMA GoRemainder ==
  ASSUME NEW x \in Int
  PROVE  LET r == x % Clock
         IN  /\ x >= 0 => GoRem(x, Clock) = r
             /\ x < 0 /\ x > -Clock => GoRem(x, Clock) = r - Clock /\ r = x + Clock
<1>1. Clock \in Int /\ Clock > 0
  BY ClockAssumption
<1>2. CASE x >= 0
  BY <1>2 DEF GoRem
<1>3. CASE x < 0 /\ x > -Clock
  <2>1. (-x) % Clock = -x
    <3>1. -x \in Int /\ -x \in 0 .. Clock - 1 /\ -x = Clock * 0 + (-x)
      BY <1>1, <1>3
    <3> QED BY <3>1, ModUnique
  <2>2. x % Clock = x + Clock
    <3>1. x + Clock \in 0 .. Clock - 1 /\ x = Clock * (-1) + (x + Clock) /\ -1 \in Int
      BY <1>1, <1>3
    <3> QED BY <3>1, ModUnique
  <2> QED BY <1>1, <1>3, <2>1, <2>2 DEF GoRem
<1> QED BY <1>1, <1>2, <1>3

(* unwrapTs undoes the wrap.  Given the raw time of a packet d after the    *)
(* last one, it returns the time that is d after the last unwrapped time,   *)
(* for every step ahead or back of less than half a turn, and for a last    *)
(* time down to half a turn below zero, where Go's remainder is negative.   *)
THEOREM UnwrapExact ==
  ASSUME NEW last \in Int, last >= -(Clock \div 2),
         NEW d \in Int, -(Clock \div 2) < d, d < Clock \div 2
  PROVE  unwrapTs((last + d) % Clock, last, TRUE) = last + d
<1> DEFINE h == Clock \div 2
           r == last % Clock
           c == (last + d) % Clock
           g == GoRem(last, Clock)
<1>0. Clock \in Nat /\ Clock > 0 /\ Clock % 2 = 0
  BY ClockAssumption
<1>1. /\ h \in Int /\ Clock \in Int /\ Clock = 2 * h /\ h > 0
      /\ last >= -h /\ -h < d /\ d < h
  <2>1. h \in Int /\ Clock = 2 * h
    BY <1>0, Half
  <2>2. last >= -h /\ -h < d /\ d < h
    OBVIOUS
  <2> HIDE DEF h
  <2> QED BY <1>0, <2>1, <2>2
<1>2. r \in 0 .. Clock - 1
  BY ModBounds
<1>3. c = IF r + d < 0 THEN r + d + Clock
          ELSE IF r + d < Clock THEN r + d ELSE r + d - Clock
  <2>1. -Clock < d /\ d < Clock
    BY <1>1
  <2> QED BY <2>1, ModStep
<1>4. /\ last >= 0 => g = r
      /\ last < 0 => g = r - Clock /\ r = last + Clock
  BY <1>1, GoRemainder
<1> DEFINE e == c - g
<1> HIDE DEF h, r, c, g, e
<1>5. c \in Int /\ g \in Int
  BY <1>1, <1>2, <1>3, <1>4
<1>6. last >= 0 \/ last < 0
  OBVIOUS
<1>7. e \in {d, d + Clock, d - Clock} /\ e \in Int
  <2>1. CASE last >= 0
    BY <1>1, <1>2, <1>3, <1>4, <1>5, <2>1 DEF e
  <2>2. CASE last < 0
    BY <1>1, <1>2, <1>3, <1>4, <1>5, <2>2 DEF e
  <2> QED BY <1>6, <2>1, <2>2
<1>8. (IF e > h THEN last + e - Clock
       ELSE IF e < -h THEN last + e + Clock
       ELSE last + e) = last + d
  BY <1>1, <1>7
<1>9. unwrapTs(c, last, TRUE) = last + d
  BY <1>8 DEF unwrapTs, h, g, e
<1> QED BY <1>9 DEF c

-----------------------------------------------------------------------------
(* Whole streams.                                                           *)

Turns(e) == \E k \in Int : e = Clock * k

(* The last time, unwrapped, was near where the pictures now are, the       *)
(* unwrapped clock being e ahead of the encoder's.                          *)
Follows(last, e) ==
  /\ last \in Int /\ e \in Int /\ encVideo \in Int
  /\ Turns(e)
  /\ 4 * (e + encVideo) > -Clock
  /\ 4 * Abs(last - e - encVideo) < Clock

Close(t) == t \in Int /\ 4 * Abs(t - encVideo) < Clock

(* The unwrapped clock is a whole number of turns away from the encoder's,  *)
(* by epoch.pts for ever, and the last packet was less than a quarter of a  *)
(* turn away from where the pictures are.                                   *)
ClockInv ==
  /\ Near(encVideo, encAudio)
  /\ ptsSet =>
       /\ Follows(prevPts, epoch.pts)
       /\ epoch.dts = epoch.pts => Follows(prevDts, epoch.pts)
  /\ video.seen \/ audio.seen \/ isInitialized => ptsSet

(* The splitter's count is ahead of the encoder by at most half the drift,  *)
(* and behind it is the last frame.                                         *)
CountInv ==
  /\ isInitialized => 2 * (recentPTS - encAudio - epoch.pts) <= DriftLimit
  /\ audio.seen => isInitialized /\ audio.pts + Duration <= recentPTS

Inv == TypeOK /\ ClockInv /\ CountInv /\ PicturesOnTime /\ AudioInStep

LEMMA MultipleKept ==
  ASSUME NEW c \in Int, NEW k \in Int, NEW q \in Int, NEW r \in Int, NEW t \in Int,
         t = c * q + r
  PROVE  t + c * k = c * (q + k) + r
  BY Z3

(* A whole number of turns leaves the remainder as it is.                   *)
LEMMA ModTurns ==
  ASSUME NEW t \in Int, NEW e \in Int, Turns(e)
  PROVE  (t + e) % Clock = t % Clock
<1>0. PICK k \in Int : e = Clock * k
  BY DEF Turns
<1> DEFINE r == t % Clock
           q == t \div Clock
           y == t + e
           p == q + k
<1>1. /\ r \in 0 .. Clock - 1 /\ q \in Int /\ t = Clock * q + r /\ Clock \in Int
  BY ModBounds, ClockAssumption
<1> HIDE DEF r, q
<1>2. y = Clock * p + r
  BY <1>0, <1>1, MultipleKept
<1>3. y \in Int /\ p \in Int
  BY <1>0, <1>1
<1> HIDE DEF y, p
<1>4. y % Clock = r
  BY <1>1, <1>2, <1>3, ModUnique
<1> QED BY <1>4 DEF y, r

(* A time of the encoder near where the last one was is unwrapped to the    *)
(* same epoch.                                                              *)
LEMMA SameEpoch ==
  ASSUME NEW last, NEW e, NEW t, Follows(last, e), Close(t)
  PROVE  unwrapTs(t % Clock, last, TRUE) = t + e
<1> DEFINE h == Clock \div 2
           d == t + e - last
<1>1. h \in Int /\ Clock = 2 * h /\ Clock \in Int
  BY ClockAssumption, Half
<1>0. last \in Int /\ e \in Int /\ t \in Int /\ Turns(e)
  BY DEF Follows, Close
<1>2. last >= -h /\ d \in Int /\ -h < d /\ d < h /\ last + d = t + e
  <2> HIDE DEF h
  <2> QED BY <1>1 DEF Abs, Follows, Close
<1>3. (last + d) % Clock = t % Clock
  <2>1. (t + e) % Clock = t % Clock
    BY <1>0, ModTurns
  <2> QED BY <1>2, <2>1
<1> HIDE DEF d
<1>4. unwrapTs((last + d) % Clock, last, TRUE) = last + d
  BY <1>0, <1>2, UnwrapExact DEF h
<1> QED BY <1>2, <1>3, <1>4

(* A packet whose times are near the pictures goes through getTimestamps.   *)
Taken(ts, pts, dts, hasDts) ==
  /\ Close(pts) /\ Close(dts)
  /\ hasDts \in BOOLEAN /\ (~hasDts => dts = pts)
  /\ ts = getTimestamps(pts, dts, hasDts)
  /\ Unwrapped(ts, pts, dts)

(* Its times are unwrapped to the epoch, which it leaves as it was or       *)
(* starts.                                                                  *)
OnEpoch(ts, pts, dts) ==
  /\ ts.pts \in Int /\ ts.dts \in Int
  /\ epoch' \in [pts : Int, dts : Int]
  /\ ptsSet' = TRUE /\ dtsSet' = TRUE /\ prevPts' = ts.pts /\ prevDts' = ts.dts
  /\ ptsSet => epoch' = epoch
  /\ ts.pts = pts + epoch'.pts
  /\ epoch'.dts = epoch'.pts => ts.dts = dts + epoch'.dts
  /\ Turns(epoch'.pts) /\ 4 * (epoch'.pts + encVideo) > -Clock

LEMMA PacketTimes ==
  ASSUME TypeOK, ClockInv, NEW pts, NEW dts, NEW hasDts, NEW ts,
         Taken(ts, pts, dts, hasDts)
  PROVE  OnEpoch(ts, pts, dts)
<1> USE DEF Taken, OnEpoch
<1> DEFINE p == unwrapTs(pts % Clock, prevPts, ptsSet)
           d == IF hasDts THEN unwrapTs(dts % Clock, prevDts, dtsSet) ELSE p
<1>0. /\ encVideo \in Int /\ prevPts \in Int /\ prevDts \in Int
      /\ ptsSet \in BOOLEAN /\ dtsSet = ptsSet /\ epoch \in [pts : Int, dts : Int]
      /\ epoch.pts \in Int /\ epoch.dts \in Int
      /\ Clock \in Int /\ Clock > 0 /\ pts \in Int /\ dts \in Int
  BY ClockAssumption DEF TypeOK, Close
<1>1. ts = [pts |-> p, dts |-> d, lastDts |-> d]
  BY DEF getTimestamps
<1> HIDE DEF p, d
<1>2. /\ ts.pts = p /\ ts.dts = d
      /\ prevPts' = p /\ ptsSet' = TRUE /\ prevDts' = d /\ dtsSet' = TRUE
      /\ epoch' = IF ptsSet THEN epoch ELSE [pts |-> p - pts, dts |-> d - dts]
  BY <1>1 DEF Unwrapped
<1>3. CASE ~ptsSet
  <2>1. /\ pts % Clock \in 0 .. Clock - 1 /\ dts % Clock \in 0 .. Clock - 1
        /\ pts \div Clock \in Int /\ pts = Clock * (pts \div Clock) + (pts % Clock)
    BY <1>0, ModBounds
  <2>2. p = pts % Clock
    BY <1>3 DEF p, unwrapTs
  <2>3. d \in Int
    BY <1>0, <1>3, <2>1, <2>2 DEF d, unwrapTs
  <2>4. p \in Int /\ epoch' = [pts |-> p - pts, dts |-> d - dts]
    BY <1>2, <1>3, <2>1, <2>2
  <2>5. Turns(p - pts)
    <3> DEFINE q == pts \div Clock
    <3>1. q \in Int /\ pts = Clock * q + p
      BY <2>1, <2>2
    <3> HIDE DEF q
    <3>2. p - pts = Clock * (-q) /\ -q \in Int
      <4>1. ASSUME NEW c \in Int, NEW x \in Int, NEW y \in Int, NEW z \in Int,
                   z = c * x + y
            PROVE  y - z = c * (-x)
        BY <4>1, Z3
      <4> QED BY <1>0, <2>4, <3>1, <4>1
    <3> QED BY <3>2 DEF Turns
  <2>6. 4 * (p - pts + encVideo) > -Clock
    BY <1>0, <2>1, <2>2 DEF Abs, Close
  <2>7. /\ p - pts \in Int /\ d - dts \in Int
        /\ epoch'.pts = p - pts /\ epoch'.dts = d - dts
        /\ epoch' \in [pts : Int, dts : Int]
    BY <1>0, <2>3, <2>4
  <2>8. p = pts + (p - pts) /\ d = dts + (d - dts)
    BY <1>0, <2>3, <2>4
  <2> QED BY <1>2, <1>3, <2>3, <2>4, <2>5, <2>6, <2>7, <2>8
<1>4. CASE ptsSet
  <2>1. Follows(prevPts, epoch.pts) /\ Turns(epoch.pts) /\ 4 * (epoch.pts + encVideo) > -Clock
    BY <1>4 DEF ClockInv, Follows
  <2>3. p = pts + epoch.pts
    BY <1>4, <2>1, SameEpoch DEF p
  <2>4. epoch.dts = epoch.pts => d = dts + epoch.dts
    <3> SUFFICES ASSUME epoch.dts = epoch.pts PROVE d = dts + epoch.pts
      OBVIOUS
    <3>1. Follows(prevDts, epoch.pts)
      BY <1>4 DEF ClockInv
    <3>2. unwrapTs(dts % Clock, prevDts, TRUE) = dts + epoch.pts
      BY <3>1, SameEpoch
    <3> QED BY <1>0, <1>4, <2>3, <3>2 DEF d
  <2>5. d \in Int
    <3>1. dts % Clock \in Int /\ GoRem(prevDts, Clock) \in Int
      <4>1. dts % Clock \in Int /\ prevDts % Clock \in Int /\ (-prevDts) % Clock \in Int
        BY <1>0, ModBounds
      <4> QED BY <1>0, <4>1 DEF GoRem
    <3> QED BY <1>0, <2>3, <3>1 DEF d, unwrapTs
  <2>6. epoch' = epoch
    BY <1>2, <1>4
  <2>7. p \in Int
    BY <1>0, <2>3
  <2> QED BY <1>0, <1>2, <2>1, <2>3, <2>4, <2>5, <2>6, <2>7
<1> QED BY <1>0, <1>3, <1>4

LEMMA Times ==
  ASSUME NEW n \in Nat, NEW x \in Nat
  PROVE  /\ n * x \in Nat
         /\ (n - 1) * x \in Int
         /\ (n - 1) * x + x = n * x
         /\ n > 0 => (n - 1) * x >= 0
BY Z3

LEMMA InitInv == Init => Inv
<1> SUFFICES ASSUME Init PROVE Inv
  OBVIOUS
<1>1. encVideo \in Nat /\ encAudio \in Nat
  BY ClockAssumption, EncoderAssumption DEF Init
<1>2. TypeOK
  <2>1. epoch \in [pts : Int, dts : Int]
    BY DEF Init
  <2>2. video \in [seen : BOOLEAN, pts : Int, dts : Int]
    BY DEF Init
  <2>3. audio \in [seen : BOOLEAN, pts : Int, shift : Int]
    BY DEF Init
  <2> QED BY <1>1, <2>1, <2>2, <2>3 DEF Init, TypeOK
<1>3. ClockInv
  BY <1>1, BoundAssumption DEF Init, ClockInv, Near, Abs
<1> QED BY <1>2, <1>3 DEF Init, Inv, CountInv, PicturesOnTime, AudioInStep

(* A packet of video.                                                       *)
LEMMA VideoInv == Inv /\ VideoPacket => Inv'
<1> SUFFICES ASSUME Inv, VideoPacket PROVE Inv'
  OBVIOUS
<1>0. PICK step \in Steps, r \in Reorder, known \in BOOLEAN :
        /\ Near(encVideo + step, encAudio)
        /\ encVideo' = encVideo + step
        /\ \E hasDts \in IF r = 0 THEN BOOLEAN ELSE {TRUE} :
             LET pts == encVideo + r
                 ts == getTimestamps(pts, encVideo, hasDts)
             IN  /\ Unwrapped(ts, pts, encVideo)
                 /\ video' = IF ~known THEN video
                             ELSE [seen |-> TRUE, pts |-> ts.pts - pts,
                                   dts |-> ts.dts - encVideo]
        /\ UNCHANGED <<encAudio, splitVars, audio>>
  BY Zenon DEF VideoPacket
<1>1. PICK hasDts \in IF r = 0 THEN BOOLEAN ELSE {TRUE} :
        LET pts == encVideo + r
            ts == getTimestamps(pts, encVideo, hasDts)
        IN  /\ Unwrapped(ts, pts, encVideo)
            /\ video' = IF ~known THEN video
                        ELSE [seen |-> TRUE, pts |-> ts.pts - pts,
                              dts |-> ts.dts - encVideo]
  BY <1>0
<1> DEFINE pts == encVideo + r
           ts == getTimestamps(pts, encVideo, hasDts)
<1>2. /\ step \in Nat /\ r \in Nat /\ 4 * step < Clock /\ 4 * r < Clock
      /\ encVideo \in Nat /\ encAudio \in Nat /\ Clock \in Int /\ Clock > 0
      /\ hasDts \in BOOLEAN /\ (~hasDts => r = 0) /\ Skew \in Nat
  <2>1. step \in Nat /\ r \in Nat /\ Clock \in Int /\ Clock > 0 /\ Skew \in Nat
    BY EncoderAssumption, ClockAssumption, BoundAssumption
  <2>2. 4 * step < Clock /\ 4 * r < Clock
    BY TurnAssumption, Zenon
  <2>3. encVideo \in Nat /\ encAudio \in Nat
    BY DEF Inv, TypeOK
  <2>4. hasDts \in BOOLEAN /\ (~hasDts => r = 0)
    <3>1. CASE r = 0
      BY <3>1
    <3>2. CASE r # 0
      BY <3>2
    <3> QED BY <3>1, <3>2
  <2> QED BY <2>1, <2>2, <2>3, <2>4
<1>3. pts \in Int /\ Close(pts) /\ Close(encVideo) /\ (~hasDts => encVideo = pts)
  BY <1>2 DEF Abs, Close
<1>4. Unwrapped(ts, pts, encVideo)
  BY <1>1
<1>5. video' = IF ~known THEN video
               ELSE [seen |-> TRUE, pts |-> ts.pts - pts, dts |-> ts.dts - encVideo]
  BY <1>1
<1>6. ts = getTimestamps(pts, encVideo, hasDts)
  OBVIOUS
<1> HIDE DEF ts, pts
<1>7. /\ ts.pts \in Int /\ ts.dts \in Int
      /\ epoch' \in [pts : Int, dts : Int]
      /\ ptsSet' = TRUE /\ dtsSet' = TRUE /\ prevPts' = ts.pts /\ prevDts' = ts.dts
      /\ ptsSet => epoch' = epoch
      /\ ts.pts = pts + epoch'.pts
      /\ epoch'.dts = epoch'.pts => ts.dts = encVideo + epoch'.dts
      /\ Turns(epoch'.pts) /\ 4 * (epoch'.pts + encVideo) > -Clock
  <2>1. Taken(ts, pts, encVideo, hasDts)
    BY <1>2, <1>3, <1>4, <1>6 DEF Taken
  <2>2. OnEpoch(ts, pts, encVideo)
    BY <2>1, PacketTimes DEF Inv
  <2> QED BY <2>2 DEF OnEpoch
<1>8. epoch'.pts \in Int /\ epoch'.dts \in Int
  BY <1>7
<1>9. TypeOK'
  <2>1. video' \in [seen : BOOLEAN, pts : Int, dts : Int]
    BY <1>2, <1>3, <1>5, <1>7 DEF Inv, TypeOK
  <2>2. encVideo' \in Nat /\ UNCHANGED <<encAudio, recentPTS, isInitialized, audio>>
    BY <1>0, <1>2 DEF splitVars
  <2> QED BY <1>7, <2>1, <2>2 DEF Inv, TypeOK
<1>10. ClockInv'
  <2>1. Near(encVideo, encAudio)'
    BY <1>0 DEF Near
  <2>2. /\ encVideo' = encVideo + step /\ encVideo' \in Int
        /\ prevPts' - epoch'.pts - encVideo' = r - step
        /\ epoch'.dts = epoch'.pts => prevDts' - epoch'.pts - encVideo' = -step
    BY <1>0, <1>2, <1>7, <1>8 DEF pts
  <2>3. 4 * Abs(r - step) < Clock /\ 4 * Abs(-step) < Clock
    BY <1>2 DEF Abs
  <2>4. 4 * (epoch'.pts + encVideo') > -Clock
    BY <1>2, <1>7, <1>8, <2>2
  <2>5. Turns(epoch'.pts) <=> Turns(epoch.pts)'
    BY DEF Turns
  <2>6. Follows(prevPts, epoch.pts)'
    BY <1>7, <1>8, <2>2, <2>3, <2>4, <2>5 DEF Follows
  <2>7. epoch'.dts = epoch'.pts => Follows(prevDts, epoch.pts)'
    BY <1>7, <1>8, <2>2, <2>3, <2>4, <2>5 DEF Follows
  <2> QED BY <1>7, <2>1, <2>6, <2>7 DEF ClockInv
<1>11. UNCHANGED <<encAudio, recentPTS, isInitialized, audio>>
  BY <1>0 DEF splitVars
<1>12. CountInv'
  BY <1>7, <1>11 DEF Inv, CountInv, ClockInv
<1>13. AudioInStep'
  BY <1>7, <1>11 DEF Inv, AudioInStep, ClockInv
<1>14. PicturesOnTime'
  <2>1. CASE ~known
    BY <1>5, <1>7, <2>1 DEF Inv, PicturesOnTime, ClockInv
  <2>2. CASE known
    <3>1. video'.pts = ts.pts - pts /\ video'.dts = ts.dts - encVideo
      BY <1>5, <2>2
    <3> QED BY <1>2, <1>3, <1>7, <1>8, <3>1 DEF PicturesOnTime
  <2> QED BY <2>1, <2>2
<1> QED BY <1>9, <1>10, <1>12, <1>13, <1>14 DEF Inv

(* A packet of audio of n frames, its time off by j.                        *)
AudioStep(n, j, ts) ==
  LET start == FirstFrameTime(ts.pts)
  IN  /\ n \in Counts /\ j \in Jitter
      /\ Near(encAudio + n * Duration, encVideo)
      /\ Taken(ts, encAudio + j, encAudio + j, FALSE)
      /\ isInitialized' = TRUE
      /\ recentPTS' = start + n * Duration
      /\ audio' = IF n = 0 THEN audio
                  ELSE [seen |-> TRUE, pts |-> start + (n - 1) * Duration,
                        shift |-> start - encAudio]
      /\ encAudio' = encAudio + n * Duration
      /\ UNCHANGED <<encVideo, video>>

LEMMA AudioTaken ==
  ASSUME Inv, AudioPacket
  PROVE  \E n, j, ts : AudioStep(n, j, ts)
<1>1. PICK n \in Counts, j \in Jitter :
        LET pts == encAudio + j
            ts == getTimestamps(pts, pts, FALSE)
            start == FirstFrameTime(ts.pts)
            last == [seen |-> TRUE, pts |-> start + (n - 1) * Duration,
                     shift |-> start - encAudio]
        IN  /\ encAudio < MaxTime /\ pts >= 0
            /\ Near(encAudio + n * Duration, encVideo)
            /\ Unwrapped(ts, pts, pts)
            /\ isInitialized' = TRUE
            /\ recentPTS' = start + n * Duration
            /\ audio' = IF n = 0 THEN audio ELSE last
            /\ encAudio' = encAudio + n * Duration
            /\ UNCHANGED <<encVideo, video>>
  BY DEF AudioPacket
<1> DEFINE pts == encAudio + j
           ts == getTimestamps(pts, pts, FALSE)
<1>2. Close(pts)
  <2>1. encAudio \in Int /\ encVideo \in Int /\ j \in Int /\ Skew \in Int
    BY EncoderAssumption, BoundAssumption DEF Inv, TypeOK
  <2>2. Abs(encVideo - encAudio) <= Skew
    BY DEF Inv, ClockInv, Near
  <2>3. 4 * (Skew + Abs(j)) < Clock /\ Clock \in Int
    BY TurnAssumption, ClockAssumption
  <2> QED BY <2>1, <2>2, <2>3 DEF Close, Abs
<1>3. Taken(ts, pts, pts, FALSE)
  BY <1>1, <1>2 DEF Taken
<1>4. AudioStep(n, j, ts)
  BY <1>1, <1>3 DEF AudioStep
<1> QED BY <1>4

(* What a packet of audio does to the count: it goes on, or starts again    *)
(* further ahead, within the drift of the packet's time.                    *)
LEMMA CountAhead ==
  ASSUME Inv, NEW n, NEW j, NEW ts, AudioStep(n, j, ts)
  PROVE  LET start == FirstFrameTime(ts.pts)
         IN  /\ OnEpoch(ts, encAudio + j, encAudio + j)
             /\ epoch'.pts \in Int /\ epoch'.dts \in Int /\ j \in Int
             /\ start \in Int
             /\ 2 * (start - encAudio - epoch'.pts) <= DriftLimit
             /\ Abs(start - encAudio - (epoch'.pts + j)) <= DriftLimit
             /\ isInitialized => start >= recentPTS
<1> DEFINE start == FirstFrameTime(ts.pts)
<1>1. OnEpoch(ts, encAudio + j, encAudio + j)
  BY PacketTimes DEF Inv, AudioStep
<1>2. /\ ts.pts = encAudio + j + epoch'.pts
      /\ epoch'.pts \in Int /\ epoch'.dts \in Int /\ ts.pts \in Int
      /\ ptsSet => epoch' = epoch
  BY <1>1 DEF OnEpoch
<1>3. /\ encAudio \in Int /\ recentPTS \in Int /\ isInitialized \in BOOLEAN
      /\ j \in Int /\ DriftLimit \in Nat /\ 2 * Abs(j) <= DriftLimit
  BY EncoderAssumption, SplitterAssumption, JitterAssumption DEF Inv, TypeOK, AudioStep
<1>4. isInitialized => 2 * (recentPTS - encAudio - epoch'.pts) <= DriftLimit
  BY <1>2 DEF Inv, CountInv, ClockInv
<1>5. CASE start = recentPTS /\ isInitialized /\ Abs(ts.pts - recentPTS) <= DriftLimit
  <2> HIDE DEF start
  <2>1. Abs(start - encAudio - (epoch'.pts + j)) <= DriftLimit
    BY <1>2, <1>3, <1>5 DEF Abs
  <2> QED BY <1>1, <1>2, <1>3, <1>4, <1>5, <2>1 DEF start
<1>6. CASE start = ts.pts /\ ~(isInitialized /\ Abs(ts.pts - recentPTS) <= DriftLimit)
  <2> HIDE DEF start
  <2>1. 2 * (start - encAudio - epoch'.pts) <= DriftLimit
    BY <1>2, <1>3, <1>6 DEF Abs
  <2>2. Abs(start - encAudio - (epoch'.pts + j)) <= DriftLimit
    BY <1>2, <1>3, <1>6 DEF Abs
  <2>3. isInitialized => start >= recentPTS
    BY <1>2, <1>3, <1>4, <1>6 DEF Abs
  <2> QED BY <1>1, <1>2, <1>3, <1>6, <2>1, <2>2, <2>3 DEF start
<1> QED BY <1>5, <1>6 DEF FirstFrameTime

LEMMA AudioInv ==
  ASSUME Inv, AudioPacket
  PROVE  Inv' /\ (audio.seen /\ audio' # audio => audio'.pts > audio.pts)
<1>1. PICK n, j, ts : AudioStep(n, j, ts)
  BY AudioTaken
<1> DEFINE start == FirstFrameTime(ts.pts)
           x == n * Duration
           y == (n - 1) * Duration
<1>2. /\ n \in Nat /\ Duration \in Nat /\ Duration > 0
      /\ encAudio \in Nat /\ encVideo \in Nat /\ j \in Jitter /\ audio.pts \in Int
      /\ DriftLimit \in Nat /\ Clock \in Int
  BY <1>1, EncoderAssumption, SplitterAssumption, ClockAssumption DEF Inv, TypeOK, AudioStep
<1>3. x \in Nat /\ y \in Int /\ y + Duration = x /\ (n > 0 => y >= 0)
  BY <1>2, Times
<1>4. /\ Near(encAudio + x, encVideo)
      /\ isInitialized' = TRUE
      /\ recentPTS' = start + x
      /\ audio' = IF n = 0 THEN audio
                  ELSE [seen |-> TRUE, pts |-> start + y, shift |-> start - encAudio]
      /\ encAudio' = encAudio + x
      /\ UNCHANGED <<encVideo, video>>
  BY <1>1 DEF AudioStep
<1>5. /\ OnEpoch(ts, encAudio + j, encAudio + j) /\ Close(encAudio + j)
      /\ epoch'.pts \in Int /\ epoch'.dts \in Int /\ j \in Int
      /\ start \in Int
      /\ 2 * (start - encAudio - epoch'.pts) <= DriftLimit
      /\ Abs(start - encAudio - (epoch'.pts + j)) <= DriftLimit
      /\ isInitialized => start >= recentPTS
  BY <1>1, CountAhead DEF AudioStep, Taken
<1> HIDE DEF start, x, y
<1>6. /\ ts.pts = encAudio + j + epoch'.pts /\ ts.pts \in Int
      /\ prevPts' = ts.pts /\ prevDts' = ts.dts /\ ts.dts \in Int
      /\ ptsSet' = TRUE /\ dtsSet' = TRUE
      /\ epoch'.dts = epoch'.pts => ts.dts = encAudio + j + epoch'.dts
      /\ ptsSet => epoch' = epoch
      /\ epoch' \in [pts : Int, dts : Int]
      /\ Turns(epoch'.pts) /\ 4 * (epoch'.pts + encVideo) > -Clock
  BY <1>5 DEF OnEpoch
<1>7. TypeOK'
  <2>1. audio' \in [seen : BOOLEAN, pts : Int, shift : Int]
    BY <1>2, <1>3, <1>4, <1>5 DEF Inv, TypeOK
  <2>2. recentPTS' \in Int /\ encAudio' \in Nat /\ encVideo' \in Nat
    BY <1>2, <1>3, <1>4, <1>5
  <2> QED BY <1>4, <1>6, <2>1, <2>2 DEF Inv, TypeOK
<1>8. ClockInv'
  <2>1. Near(encVideo, encAudio)'
    BY <1>2, <1>3, <1>4 DEF Near, Abs
  <2>2. Turns(epoch'.pts) <=> Turns(epoch.pts)'
    BY DEF Turns
  <2>3. 4 * Abs((encAudio + j) - encVideo) < Clock
    <3>1. Close(encAudio + j)
      BY <1>5
    <3> QED BY <3>1 DEF Close
  <2>4. Follows(prevPts, epoch.pts)'
    <3>1. prevPts' - epoch'.pts - encVideo' = (encAudio + j) - encVideo
      BY <1>2, <1>4, <1>5, <1>6
    <3> QED BY <1>2, <1>4, <1>5, <1>6, <2>2, <2>3, <3>1 DEF Follows
  <2>5. epoch'.dts = epoch'.pts => Follows(prevDts, epoch.pts)'
    <3> SUFFICES ASSUME epoch'.dts = epoch'.pts PROVE Follows(prevDts, epoch.pts)'
      OBVIOUS
    <3>1. prevDts' - epoch'.pts - encVideo' = (encAudio + j) - encVideo
      BY <1>2, <1>4, <1>5, <1>6
    <3> QED BY <1>2, <1>4, <1>5, <1>6, <2>2, <2>3, <3>1 DEF Follows
  <2> QED BY <1>6, <2>1, <2>4, <2>5 DEF ClockInv
<1>9. /\ CountInv'
      /\ audio.seen /\ audio' # audio => audio'.pts > audio.pts
  <2>1. 2 * (recentPTS' - encAudio' - epoch'.pts) <= DriftLimit
    BY <1>2, <1>3, <1>4, <1>5
  <2>2. CASE n = 0
    <3>1. audio' = audio /\ x = 0
      BY <1>2, <1>4, <2>2 DEF x
    <3>2. audio.seen => audio.pts + Duration <= recentPTS'
      BY <1>2, <1>4, <1>5, <3>1 DEF Inv, CountInv, TypeOK
    <3> QED BY <1>4, <2>1, <3>1, <3>2 DEF CountInv
  <2>3. CASE n # 0
    <3>1. audio'.pts = start + y /\ y >= 0 /\ recentPTS' = start + y + Duration
      BY <1>2, <1>3, <1>4, <1>5, <2>3
    <3>2. audio'.pts + Duration <= recentPTS'
      BY <1>2, <1>3, <1>5, <3>1
    <3>3. audio.seen => audio.pts < start
      BY <1>2, <1>5 DEF Inv, CountInv, TypeOK
    <3>4. audio.seen => audio'.pts > audio.pts
      BY <1>2, <1>3, <1>5, <3>1, <3>3
    <3> QED BY <1>4, <2>1, <3>2, <3>4 DEF CountInv
  <2> QED BY <2>2, <2>3
<1>10. AudioInStep'
  <2>1. CASE n = 0
    BY <1>4, <1>6, <2>1 DEF Inv, AudioInStep, ClockInv
  <2>2. CASE n # 0
    <3>1. audio'.shift = start - encAudio
      BY <1>4, <2>2
    <3>2. Abs(audio'.shift - (epoch'.pts + j)) <= DriftLimit
      BY <1>5, <3>1
    <3> QED BY <1>2, <3>2 DEF AudioInStep
  <2> QED BY <2>1, <2>2
<1>11. PicturesOnTime'
  BY <1>4, <1>6 DEF Inv, PicturesOnTime, ClockInv
<1> QED BY <1>7, <1>8, <1>9, <1>10, <1>11 DEF Inv

LEMMA GapInv == Inv /\ AudioGap => Inv'
<1> SUFFICES ASSUME Inv, AudioGap PROVE Inv'
  OBVIOUS
<1>1. /\ encAudio' = encAudio + 1 /\ Near(encAudio + 1, encVideo)
      /\ UNCHANGED <<encVideo, prevPts, prevDts, ptsSet, dtsSet, recentPTS,
                     isInitialized, epoch, video, audio>>
  BY DEF AudioGap, clockVars, splitVars
<1>2. /\ encAudio \in Nat /\ encVideo \in Nat /\ recentPTS \in Int
      /\ epoch.pts \in Int /\ DriftLimit \in Nat
  BY SplitterAssumption DEF Inv, TypeOK
<1>3. TypeOK'
  BY <1>1, <1>2 DEF Inv, TypeOK
<1>4. ClockInv'
  <2>1. Near(encVideo, encAudio)'
    BY <1>1, <1>2 DEF Near, Abs
  <2> QED BY <1>1, <2>1 DEF Inv, ClockInv, Follows, Turns
<1>5. CountInv'
  BY <1>1, <1>2 DEF Inv, CountInv
<1>6. PicturesOnTime' /\ AudioInStep'
  BY <1>1 DEF Inv, PicturesOnTime, AudioInStep
<1> QED BY <1>3, <1>4, <1>5, <1>6 DEF Inv

LEMMA StutterInv == Inv /\ UNCHANGED vars => Inv'
BY DEF vars, encVars, clockVars, splitVars, Inv, TypeOK, ClockInv, Follows, Turns,
       Near, CountInv, PicturesOnTime, AudioInStep

LEMMA Invariant == Spec => []Inv
<1>1. Inv /\ [Next]_vars => Inv'
  BY VideoInv, AudioInv, GapInv, StutterInv DEF Next
<1> QED BY InitInv, <1>1, PTL DEF Spec

-----------------------------------------------------------------------------

(* Every variable has the values the code can give it.                      *)
THEOREM TypeCorrect == Spec => []TypeOK
<1>1. Inv => TypeOK
  BY DEF Inv
<1> QED BY <1>1, Invariant, PTL

(* The times of the pictures follow the encoder's for ever, whatever the    *)
(* tracks do to the shared clock of getTimestamps.                          *)
THEOREM PicturesStayOnTime == Spec => []PicturesOnTime
<1>1. Inv => PicturesOnTime
  BY DEF Inv
<1> QED BY <1>1, Invariant, PTL

(* The splitter keeps audio within the drift it allows.                     *)
THEOREM AudioStaysInStep == Spec => []AudioInStep
<1>1. Inv => AudioInStep
  BY DEF Inv
<1> QED BY <1>1, Invariant, PTL

(* The splitter never gives a frame a time that is not after the last.      *)
THEOREM AudioNeverBack == Spec => AudioIncreases
<1>1. Inv /\ [Next]_vars => [audio.seen /\ audio' # audio => audio'.pts > audio.pts]_vars
  <2>1. Inv /\ AudioPacket => (audio.seen /\ audio' # audio => audio'.pts > audio.pts)
    BY AudioInv
  <2>2. VideoPacket \/ AudioGap => audio' = audio
    BY DEF VideoPacket, AudioGap
  <2> QED BY <2>1, <2>2 DEF Next
<1> QED BY <1>1, Invariant, PTL DEF Spec, AudioIncreases
=============================================================================
