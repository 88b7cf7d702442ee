------------------------- MODULE ViewerStreamProofs -------------------------
(***************************************************************************)
(* Proofs about a viewer's subscription, for rings and channels of any     *)
(* size, frames of any duration and any offset: each track is a FrameFeed  *)
(* for the viewer, a history that fits the channels reaches it whole, and  *)
(* its two streams start together.                                         *)
(***************************************************************************)
EXTENDS ViewerStream, FiniteSetTheorems, WellFoundedInduction, TLAPS

-----------------------------------------------------------------------------
(* The invariant.                                                           *)

Before == {"none", "asked", "found"}
Early == Before \cup {"waiting"}

TypeOK ==
  /\ count \in [Tracks -> Nat]
  /\ half \in Tracks \cup {"none"}
  /\ ready \subseteq Tracks
  /\ age \in Nat
  /\ call \in Tracks \cup {"idle", "done", "failed", "panicked"}
  /\ found \in [Tracks -> Nat]
  /\ ring \in [Tracks -> {"none", "started", "serving", "left"}]
  /\ copied \in [Tracks -> Nat]
  /\ owed \in [Tracks -> SUBSET Nat]
  /\ pc \in [Tracks -> Early \cup {"start", "collect", "flush", "live", "ended"}]
  /\ first \in [Tracks -> Nat]
  /\ newest \in [Tracks -> Int]
  /\ pre \in [Tracks -> Seq(Nat)]
  /\ out \in [Tracks -> Seq(Nat)]
  /\ upDone \in BOOLEAN
  /\ closing \in 0 .. 5

(* Where Subscribe is, its goroutines are; and a look-up has something to   *)
(* find, since a ready buffer was written to.                               *)
Stage(t) ==
  /\ ring[t] = "none" <=> pc[t] \in Before
  /\ ring[t] = "started" => pc[t] = "waiting"
  /\ pc[t] = "waiting" => call = t
  /\ pc[t] \in {"asked", "found"} => call \in {t, "failed", "panicked"}
  /\ pc[t] \in Early => first[t] = 0
  /\ t \in ready \/ pc[t] # "none" => count[t] > (IF t = "video" THEN 1 ELSE 0)
  /\ found[t] <= count[t]
  /\ pc[t] \in {"none", "asked"} <=> found[t] = 0

(* Audio is asked for once the video stream has its first frame.            *)
InTurn ==
  /\ call = "idle" => pc["video"] = "none"
  /\ pc["video"] \in Early => pc["audio"] = "none"
  /\ call \in {"audio", "done"} => pc["video"] \notin Early
  /\ call = "done" => pc["audio"] \notin Early

(* What a track has for its viewer is in order: the prebuffer, which only   *)
(* its own phases have, and then what the ring owes.                        *)
Ordered(t) ==
  /\ owed[t] \subseteq 1 .. count[t]
  /\ ring[t] # "serving" => owed[t] = {}
  /\ pc[t] = "start" => \A g \in owed[t] : first[t] < g
  /\ pc[t] \notin {"collect", "flush"} <=> pre[t] = <<>>
  /\ pc[t] \in Early \cup {"start", "collect"} => out[t] = <<>>
  /\ \A i \in 1 .. Len(pre[t]) :
       /\ pre[t][i] \in 1 .. count[t]
       /\ \A j \in 1 .. i - 1 : pre[t][j] < pre[t][i]
       /\ \A g \in owed[t] : pre[t][i] < g
  /\ pc[t] \notin Early => first[t] <= count[t]
  /\ pc[t] \notin Early \cup {"ended"} => first[t] > 0

FeedInv ==
  /\ TypeOK
  /\ InTurn
  /\ \A t \in Tracks : Stage(t) /\ Ordered(t)

(* While Subscribe waits for the first frame: what the ring copied is whole *)
(* from its oldest frame on, if it fits the channel.                        *)
CopyWhole(t) ==
  pc[t] = "waiting" =>
    \A f \in owed[t] :
      (\A g \in owed[t] : f <= g) /\ copied[t] + 1 - f <= EgressChCap
        => f .. copied[t] \subseteq owed[t]

(* From the first frame of the stream on, no more frames were given than    *)
(* lie between this one and those to come,                                  *)
InStep(t) ==
  Streaming(t) =>
    /\ \A g \in OnTheWay(t) : first[t] + Len(out[t]) <= g
    /\ first[t] + Len(out[t]) <= count[t] + 1

(* and of a history that fits both channels none is lost.                   *)
Kept(t) ==
  Streaming(t) /\ ring[t] = "serving" =>
    \/ copied[t] + 1 - first[t] > EgressChCap
    \/ copied[t] + 1 - first[t] > OutChCap
    \/ first[t] .. copied[t] \subseteq OnTheWay(t) \cup Range(out[t])

HistoryInv ==
  \A t \in Tracks :
    copied[t] <= count[t] /\ CopyWhole(t) /\ InStep(t) /\ Kept(t)

Begun == count["audio"] + (IF half = "audio" THEN 1 ELSE 0)

(* No picture is written before its time: audio is at most one picture and  *)
(* the skew ahead.                                                          *)
Apace == Time("audio", Begun) <= Time("video", Current("video") + 1) + Skew

(* The time up to which a viewer may look back.                             *)
Reach == Time("video", found["video"]) + Offset + Gop * Step["video"]

(* How far the tracks may have come since the look-up.                      *)
Ahead ==
  /\ found["video"] = 0 => age = 0
  /\ Subscribing => age <= Delay
  /\ found["video"] > 0 =>
       /\ Time("video", count["video"]) < Reach + Time("video", 1 + age)
       /\ Time("audio", Begun) < Reach + Time("video", 1 + age) + Skew

(* The video stream starts no earlier than the key frame found, the audio   *)
(* stream with the frame found for it, and this is near.                    *)
Near(f) == Distance(Time("audio", f), Time("video", first["video"])) <= Step["audio"]

Starts ==
  /\ \A g \in owed["video"] : found["video"] <= g
  /\ first["video"] > 0 => found["video"] <= first["video"]
  /\ found["audio"] > 0 => Near(found["audio"])
  /\ pc["audio"] = "waiting" /\ ring["audio"] = "serving" =>
       found["audio"] \in owed["audio"] /\ \A g \in owed["audio"] : found["audio"] <= g
  /\ first["audio"] > 0 => first["audio"] = found["audio"]
  /\ call \in {"audio", "done"} => first["video"] > 0
  /\ call = "done" => first["audio"] > 0

StartInv == Apace /\ Ahead /\ Starts

-----------------------------------------------------------------------------
(* The search for the closest frame.                                        *)

LEMMA Sizes ==
  /\ Step["video"] \in Nat /\ Step["video"] > 0
  /\ Step["audio"] \in Nat /\ Step["audio"] > 0
  /\ {Cap, EgressChCap, LiveChCap, OutChCap, Gop} \subseteq Nat \ {0}
  /\ {MinKeyFrames, ReadyAfter, Offset, Skew, Delay, MaxAge} \subseteq Nat
BY StepAssumption, SizeAssumption DEF Tracks

LEMMA Types ==
  ASSUME TypeOK, NEW t \in Tracks
  PROVE  /\ count[t] \in Nat /\ found[t] \in Nat /\ copied[t] \in Nat
         /\ first[t] \in Nat /\ newest[t] \in Int
         /\ owed[t] \in SUBSET Nat /\ pre[t] \in Seq(Nat) /\ out[t] \in Seq(Nat)
BY DEF TypeOK

LEMMA LeastNumber ==
  ASSUME NEW T, T \subseteq Nat, T # {}
  PROVE  \E x \in T : \A y \in T : x <= y
<1> DEFINE R == OpToRel(<, Nat)
<1>1. IsWellFoundedOn(R, Nat)
  BY NatLessThanWellFounded
<1> HIDE DEF R
<1>2. PICK x \in T : \A y \in T : ~ (<<y, x>> \in R)
  BY <1>1, WFMin
<1>3. ASSUME NEW y \in T PROVE x <= y
  <2>1. x \in Nat /\ y \in Nat
    OBVIOUS
  <2>2. y < x => <<y, x>> \in R
    BY <2>1 DEF R, OpToRel
  <2> QED BY <1>2, <2>1, <2>2
<1> QED BY <1>3

LEMMA Closeness ==
  ASSUME NEW t \in Tracks, NEW f \in Nat, NEW p \in Int
  PROVE  Distance(Time(t, f), p) \in Nat
<1> DEFINE s == Step[t]
<1>1. s \in Nat
  BY Sizes DEF Tracks
<1> HIDE DEF s
<1>2. f * s \in Int
  BY <1>1, Z3
<1>3. f * s < p => p - f * s \in Nat
  BY <1>2
<1>4. ~ (f * s < p) => f * s - p \in Nat
  BY <1>2
<1> QED BY <1>3, <1>4 DEF Time, Distance, s

(* What the search returns is in the set, and nothing in it is closer.      *)
LEMMA ClosestIs ==
  ASSUME NEW t \in Tracks, NEW S, S \subseteq Nat, S # {}, NEW p \in Int
  PROVE  /\ Closest(t, S, p) \in S
         /\ \A g \in S : Distance(Time(t, Closest(t, S, p)), p)
                           <= Distance(Time(t, g), p)
<1> DEFINE D(f) == Distance(Time(t, f), p)
           near == {f \in S : \A g \in S : D(f) <= D(g)}
<1>1. \A f \in S : D(f) \in Nat
  BY Closeness
<1>2. Closest(t, S, p) = CHOOSE f \in near : \A g \in near : f <= g
  BY DEF Closest
<1>3. near # {}
  <2> HIDE DEF D
  <2> DEFINE T == {D(f) : f \in S}
  <2>1. T \subseteq Nat /\ T # {}
    BY <1>1
  <2>2. PICK x \in T : \A y \in T : x <= y
    BY <2>1, LeastNumber
  <2> QED BY <2>2
<1> HIDE DEF D
<1>4. \E f \in near : \A g \in near : f <= g
  BY <1>3, LeastNumber
<1>5. Closest(t, S, p) \in near
  BY <1>2, <1>4
<1> QED BY <1>5 DEF D

(* There is always something to look up.                                    *)
LEMMA Candidates ==
  ASSUME FeedInv, NEW t \in Tracks, pc[t] = "asked"
  PROVE  /\ t = "video" => /\ KeyFrames(Current(t)) \subseteq 1 .. count[t]
                           /\ 1 \in KeyFrames(Current(t))
                           /\ Time(t, Current(t)) - Offset \in Int
         /\ t = "audio" => InRing(t) \subseteq 1 .. count[t] /\ count[t] \in InRing(t)
<1>1. count[t] \in Nat /\ count[t] > (IF t = "video" THEN 1 ELSE 0)
  BY Types DEF FeedInv, Stage
<1>2. CASE t = "video"
  <2>1. Current(t) \in 1 .. count[t]
    BY <1>1, <1>2 DEF Current
  <2>2. 1 \in 1 .. Current(t) /\ 1 .. Current(t) \subseteq 1 .. count[t]
    BY <1>1, <2>1
  <2>3. Time(t, Current(t)) - Offset \in Int
    <3>1. Step["video"] \in Int /\ Current(t) \in Int /\ Offset \in Int
      BY Sizes, <2>1
    <3> HIDE DEF Current
    <3> QED BY <1>2, <3>1, Z3 DEF Time
  <2> QED BY <1>2, <2>2, <2>3 DEF KeyFrames
<1>3. CASE t = "audio"
  BY <1>1, <1>3, Sizes DEF InRing
<1> QED BY <1>2, <1>3 DEF Tracks

-----------------------------------------------------------------------------
(* FeedInv is inductive.                                                    *)

LEMMA InitFeedInv == Init => FeedInv
<1> SUFFICES ASSUME Init PROVE FeedInv
  OBVIOUS
<1> USE DEF Init, Tracks, Early, Before
<1>1. TypeOK
  <2>1. pre \in [Tracks -> Seq(Nat)] /\ out \in [Tracks -> Seq(Nat)]
    <3>1. <<>> \in Seq(Nat)
      OBVIOUS
    <3> QED BY <3>1
  <2>2. owed \in [Tracks -> SUBSET Nat]
    OBVIOUS
  <2>3. /\ pc \in [Tracks -> Early \cup {"start", "collect", "flush", "live", "ended"}]
        /\ ring \in [Tracks -> {"none", "started", "serving", "left"}]
    OBVIOUS
  <2>4. /\ count \in [Tracks -> Nat] /\ found \in [Tracks -> Nat] /\ copied \in [Tracks -> Nat]
        /\ first \in [Tracks -> Nat] /\ newest \in [Tracks -> Int]
    BY 0 \in Nat, 0 \in Int
  <2>5. closing \in 0 .. 5 /\ age \in Nat /\ upDone \in BOOLEAN /\ ready \subseteq Tracks
    BY 0 \in 0 .. 5 /\ 0 \in Nat
  <2> HIDE DEF Tracks, Early
  <2> QED BY <2>1, <2>2, <2>3, <2>4, <2>5 DEF TypeOK
<1>2. InTurn
  BY DEF InTurn
<1>3. ASSUME NEW t \in Tracks PROVE Stage(t)
  BY DEF Stage
<1>4. ASSUME NEW t \in Tracks PROVE Ordered(t)
  BY DEF Ordered
<1> QED BY <1>1, <1>2, <1>3, <1>4 DEF FeedInv

LEMMA StoreFeedInv ==
  ASSUME FeedInv, NEW t \in Tracks, Store(t), half' \in Tracks \cup {"none"},
         age' \in Nat, ready' \subseteq Tracks, ready' \subseteq ready \cup {t},
         t = "video" /\ count[t] = 0 => t \notin ready',
         UNCHANGED <<call, found, ring, copied, streamVars, upDone, closing>>
  PROVE  FeedInv'
<1> USE DEF FeedInv
<1>0. count[t] \in Nat
  BY Types
<1>00. count[t] + 1 \in Nat
  BY <1>0
<1>a. count' \in [Tracks -> Nat]
  BY <1>00 DEF Store, TypeOK
<1>b. owed' \in [Tracks -> SUBSET Nat]
  BY <1>00 DEF Store, TypeOK
<1>1. TypeOK'
  BY <1>a, <1>b DEF TypeOK, streamVars
<1>2. InTurn'
  BY DEF InTurn, streamVars
<1>c. \A u \in Tracks : count[u] \in Nat /\ count'[u] = IF u = t THEN count[u] + 1 ELSE count[u]
  BY DEF Store, TypeOK
<1>d. \A u \in Tracks : found[u] \in Nat
  BY DEF TypeOK
<1>3. ASSUME NEW u \in Tracks PROVE Stage(u)'
  BY <1>3, <1>c, <1>d DEF streamVars, Stage
<1>e. \A u \in Tracks : owed'[u] = IF u = t /\ ring[t] = "serving"
                                     THEN owed[u] \cup {count[u] + 1} ELSE owed[u]
  BY DEF Store, TypeOK
<1>4. ASSUME NEW u \in Tracks PROVE Ordered(u)'
  <2>1. /\ Stage(u) /\ Ordered(u) /\ count[u] \in Nat /\ owed[u] \subseteq Nat
        /\ pre[u] \in Seq(Nat) /\ first[u] \in Nat
    BY Types
  <2>2. ring'[u] = ring[u] /\ pc'[u] = pc[u] /\ first'[u] = first[u] /\ pre'[u] = pre[u] /\ out'[u] = out[u]
    BY DEF streamVars
  <2>3. \A g \in owed'[u] : g \in owed[u] \/ (g = count[u] + 1 /\ ring[u] = "serving")
    BY <1>e
  <2>4. count[u] <= count'[u]
    BY <1>c
  <2>5. \A g \in owed[u] : g <= count[u] /\ g > 0
    BY <2>1 DEF Ordered
  <2>6. owed'[u] \subseteq 1 .. count'[u]
    <3>1. owed[u] \subseteq 1 .. count[u]
      BY <2>1 DEF Ordered
    <3>2. \A g \in 1 .. count[u] : g \in 1 .. count'[u]
      BY <2>1, <1>c
    <3>3. owed'[u] # owed[u] => /\ owed'[u] = owed[u] \cup {count[u] + 1}
                               /\ count'[u] = count[u] + 1
      BY <1>c, <1>e
    <3>4. count[u] + 1 \in 1 .. count[u] + 1
      BY <2>1
    <3> QED BY <3>1, <3>2, <3>3, <3>4
  <2>7. count[u] + 1 > count[u] /\ 1..count[u] \subseteq 1 ..count'[u]
    BY <2>1, <1>c
  <2>8. ring[u] # "serving" => owed'[u] = {}
    BY <1>e, <2>1 DEF Ordered
  <2>9. /\ pc[u] = "start" => first[u] <= count[u]
        /\ pc[u] \notin Early => first[u] <= count[u]
    BY <2>1 DEF Ordered, Early, Before
  <2>10. \A k \in 1 .. count[u] : k < count[u] + 1 /\ k \in 1 .. count'[u]
    BY <2>1, <1>c
  <2>11. ASSUME NEW i \in 1 .. Len(pre[u])
         PROVE  /\ pre[u][i] \in 1 .. count'[u]
                /\ \A j \in 1 .. i - 1 : pre[u][j] < pre[u][i]
                /\ \A g \in owed'[u] : pre[u][i] < g
    BY <2>1, <2>3, <2>10 DEF Ordered
  <2>12. pc[u] = "start" => \A g \in owed'[u] : first[u] < g
    <3> SUFFICES ASSUME pc[u] = "start", NEW g \in owed'[u] PROVE first[u] < g
      OBVIOUS
    <3>1. CASE g \in owed[u]
      BY <2>1, <3>1 DEF Ordered
    <3>2. CASE g = count[u] + 1
      BY <2>1, <2>9, <3>2
    <3> QED BY <2>3, <3>1, <3>2
  <2>13. pc[u] \notin Early => first[u] <= count'[u]
    BY <2>1, <2>4, <2>9, <1>c
  <2> QED BY <2>1, <2>2, <2>6, <2>8, <2>11, <2>12, <2>13 DEF Ordered
<1> QED BY <1>1, <1>2, <1>3, <1>4

LEMMA WriterFeedInv == FeedInv /\ Writer => FeedInv'
<1> SUFFICES ASSUME FeedInv, Writer PROVE FeedInv'
  OBVIOUS
<1> USE DEF Tracks
<1>0. age' \in Nat
  <2>1. age \in Nat
    BY DEF FeedInv, TypeOK
  <2>2. ASSUME NEW t \in Tracks, NextFrame(t) PROVE age' \in Nat
    BY <2>1, <2>2 DEF NextFrame
  <2>3. CASE StoreVideo
    BY <2>2, <2>3 DEF StoreVideo
  <2>4. CASE StampAudio
    BY <2>2, <2>4 DEF StampAudio
  <2>5. CASE StampVideo \/ StoreAudio
    BY <2>1, <2>5 DEF StampVideo, StoreAudio
  <2> QED BY <2>3, <2>4, <2>5 DEF Writer
<1>1. CASE StoreVideo
  <2>1. "video" \in ready => count["video"] > 1
    BY DEF FeedInv, Stage
  <2>2. ready \subseteq Tracks
    BY DEF FeedInv, TypeOK
  <2>3. count["video"] = 0 => "video" \notin ready
    BY <2>1
  <2> QED BY <1>0, <1>1, <2>2, <2>3, StoreFeedInv DEF StoreVideo
<1>2. CASE StampVideo
  <2>1. Time("video", count["video"] - 1) > ReadyAfter => count["video"] > 1
    <3> DEFINE c == count["video"]
               s == Step["video"]
    <3>1. c \in Nat /\ s \in Nat /\ ReadyAfter \in Nat
      BY Sizes DEF FeedInv, TypeOK
    <3> HIDE DEF c, s
    <3>2. (c - 1) * s > ReadyAfter => c > 1
      BY <3>1, Z3
    <3> QED BY <3>2 DEF Time, c, s
  <2>2. InTurn'
    BY <1>2 DEF StampVideo, InTurn, FeedInv, streamVars
  <2>3. ASSUME NEW u \in Tracks PROVE Stage(u)' /\ Ordered(u)'
    BY <1>2, <2>1 DEF StampVideo, Stage, Ordered, FeedInv, TypeOK, streamVars, ringVars
  <2>4. TypeOK'
    BY <1>2 DEF StampVideo, FeedInv, TypeOK, streamVars, ringVars
  <2> QED BY <2>2, <2>3, <2>4 DEF FeedInv
<1>3. CASE StampAudio
  <2>1. /\ half' = "audio"
        /\ UNCHANGED <<count, ready, call, found, ringVars, streamVars, upDone, closing>>
    BY <1>3 DEF StampAudio
  <2>2. TypeOK'
    BY <1>0, <2>1 DEF FeedInv, TypeOK, streamVars, ringVars
  <2>3. InTurn'
    BY <2>1 DEF FeedInv, InTurn, streamVars
  <2>4. ASSUME NEW u \in Tracks PROVE Stage(u)' /\ Ordered(u)'
    <3>1. Stage(u) /\ Ordered(u)
      BY DEF FeedInv
    <3> QED BY <2>1, <3>1 DEF Stage, Ordered, streamVars, ringVars
  <2> QED BY <2>2, <2>3, <2>4 DEF FeedInv
<1>4. CASE StoreAudio
  <2>1. ready \subseteq Tracks
    BY DEF FeedInv, TypeOK
  <2> QED BY <1>0, <1>4, <2>1, StoreFeedInv DEF StoreAudio
<1> QED BY <1>1, <1>2, <1>3, <1>4 DEF Writer

(* What a track has is as before if no step touched it.                     *)
LEMMA Untouched ==
  ASSUME FeedInv, NEW t \in Tracks, count'[t] = count[t], ring'[t] = ring[t],
         owed'[t] = owed[t], pc'[t] = pc[t], first'[t] = first[t],
         pre'[t] = pre[t], out'[t] = out[t]
  PROVE  Ordered(t)'
BY DEF FeedInv, Ordered

LEMMA SubscribeFeedInv ==
  ASSUME FeedInv, NEW t \in Tracks,
         Ask(t) \/ LookUpVideo \/ LookUpAudio \/ OpenRing(t)
  PROVE  FeedInv'
<1> USE DEF Tracks, Early, Before
<1>0. TypeOK /\ InTurn /\ \A u \in Tracks : Stage(u) /\ Ordered(u)
  BY DEF FeedInv
<1>1. CASE Ask(t)
  <2>1. TypeOK'
    BY <1>0, <1>1, SMTT(30) DEF Ask, TypeOK, writerVars, ringVars
  <2>2. ASSUME NEW u \in Tracks PROVE Ordered(u)'
    <3>1. pc'[u] # pc[u] => pc[u] = "none" /\ pc'[u] = "asked"
      BY <1>0, <1>1 DEF Ask, TypeOK
    <3> QED BY <1>0, <1>1, <3>1 DEF Ask, Ordered, writerVars, ringVars
  <2>3. ASSUME NEW u \in Tracks PROVE Stage(u)'
    BY <1>0, <1>1, SMTT(30) DEF Ask, TypeOK, InTurn, Stage, writerVars, ringVars
  <2>4. InTurn'
    BY <1>0, <1>1, SMTT(30) DEF Ask, TypeOK, InTurn, Stage, writerVars, ringVars
  <2> QED BY <2>1, <2>2, <2>3, <2>4 DEF FeedInv
<1>2. ASSUME NEW u \in Tracks, call = u /\ pc[u] = "asked", found'[u] \in 1 .. count[u],
             found' = [found EXCEPT ![u] = found'[u]], pc' = [pc EXCEPT ![u] = "found"],
             UNCHANGED <<writerVars, call, ringVars, first, newest, pre, out, upDone, closing>>
      PROVE  FeedInv'
  <2> DEFINE f == found'[u]
  <2>0. f \in Nat /\ f > 0 /\ f <= count[u] /\ found' = [found EXCEPT ![u] = f]
    BY <1>0, <1>2, Types, SMTT(30)
  <2> HIDE DEF f
  <2>1. TypeOK'
    BY <1>0, <1>2, <2>0 DEF TypeOK, writerVars, ringVars
  <2>2. ASSUME NEW v \in Tracks PROVE Ordered(v)'
    <3>1. pc'[v] # pc[v] => pc[v] = "asked" /\ pc'[v] = "found"
      BY <1>0, <1>2 DEF TypeOK
    <3> QED BY <1>0, <1>2, <3>1 DEF Ordered, writerVars, ringVars
  <2>3. ASSUME NEW v \in Tracks PROVE Stage(v)'
    BY <1>0, <1>2, <2>0, SMTT(30) DEF TypeOK, Stage, writerVars, ringVars
  <2>4. InTurn'
    BY <1>0, <1>2 DEF TypeOK, InTurn, Stage, writerVars, ringVars
  <2> QED BY <2>1, <2>2, <2>3, <2>4 DEF FeedInv
<1>a. ASSUME NEW u \in Tracks, call = u, pc[u] = "asked", call' \in {"failed", "panicked"},
             UNCHANGED <<writerVars, ringVars, pc, found, first, newest, pre, out, upDone, closing>>
      PROVE  FeedInv'
  <2>1. TypeOK'
    BY <1>0, <1>a DEF TypeOK, writerVars, ringVars
  <2>2. InTurn'
    BY <1>0, <1>a DEF InTurn, Stage
  <2>3. ASSUME NEW v \in Tracks PROVE Ordered(v)'
    BY <1>0, <1>a DEF Ordered, writerVars, ringVars
  <2>4. ASSUME NEW v \in Tracks PROVE Stage(v)'
    <3>1. v = u \/ pc[v] \notin {"waiting", "asked", "found"}
      BY <1>0, <1>a DEF Stage, InTurn
    <3> QED BY <1>0, <1>a, <3>1 DEF Stage, writerVars, ringVars
  <2> QED BY <2>1, <2>2, <2>3, <2>4 DEF FeedInv
<1>3. CASE LookUpVideo
  <2>1. CASE Closed("video")
    <3>1. /\ call = "video" /\ pc["video"] = "asked" /\ call' = "panicked"
          /\ UNCHANGED <<writerVars, ringVars, pc, found, first, newest, pre, out, upDone, closing>>
      BY <1>3, <2>1 DEF LookUpVideo
    <3> QED BY <1>a, <3>1
  <2>2. CASE ~Closed("video")
    <3> DEFINE c == Closest("video", KeyFrames(Current("video")),
                            Time("video", Current("video")) - Offset)
    <3>1. c \in 1 .. count["video"]
      <4>1. pc["video"] = "asked" /\ count["video"] \in Nat
        BY <1>0, <1>3, Types DEF LookUpVideo
      <4>2. 1 .. count["video"] \subseteq Nat
        OBVIOUS
      <4> QED BY <4>1, <4>2, Candidates, ClosestIs
    <3> HIDE DEF c
    <3>2. found' = [found EXCEPT !["video"] = c]
      BY <1>3, <2>2 DEF LookUpVideo, c
    <3>3. found'["video"] = c
      BY <3>2, <1>0 DEF TypeOK
    <3> QED BY <1>2, <1>3, <2>2, <3>1, <3>2, <3>3 DEF LookUpVideo
  <2> QED BY <2>1, <2>2
<1>5. CASE LookUpAudio
  <2> DEFINE target == Time("video", first["video"])
  <2>1. CASE Closed("audio") \/ target > Time("audio", Current("audio"))
    <3>1. /\ call = "audio" /\ pc["audio"] = "asked" /\ call' = "failed"
          /\ UNCHANGED <<writerVars, ringVars, pc, found, first, newest, pre, out, upDone, closing>>
      BY <1>5, <2>1 DEF LookUpAudio
    <3> QED BY <1>a, <3>1
  <2>2. CASE ~(Closed("audio") \/ target > Time("audio", Current("audio")))
    <3> DEFINE c == Closest("audio", InRing("audio"), target)
    <3>1. c \in 1 .. count["audio"]
      <4>1. pc["audio"] = "asked" /\ count["audio"] \in Nat /\ first["video"] \in Nat
        BY <1>0, <1>5, Types DEF LookUpAudio
      <4>2. 1 .. count["audio"] \subseteq Nat
        OBVIOUS
      <4>3. target \in Int
        BY <4>1, Sizes, Z3 DEF Time
      <4> QED BY <4>1, <4>2, <4>3, Candidates, ClosestIs
    <3> HIDE DEF c
    <3>2. found' = [found EXCEPT !["audio"] = c]
      BY <1>5, <2>2 DEF LookUpAudio, c
    <3>3. found'["audio"] = c
      BY <3>2, <1>0 DEF TypeOK
    <3> QED BY <1>2, <1>5, <2>2, <3>1, <3>2, <3>3 DEF LookUpAudio
  <2> QED BY <2>1, <2>2
<1>4. CASE OpenRing(t)
  <2>1. TypeOK'
    BY <1>0, <1>4, SMTT(30) DEF OpenRing, TypeOK, writerVars, ringVars
  <2>2. ASSUME NEW u \in Tracks PROVE Ordered(u)'
    <3>1. /\ pc'[u] # pc[u] => pc[u] = "found" /\ pc'[u] = "waiting"
          /\ ring'[u] # ring[u] => ring[u] # "serving" /\ ring'[u] = "started"
      BY <1>0, <1>4 DEF OpenRing, TypeOK, Stage
    <3> QED BY <1>0, <1>4, <3>1 DEF OpenRing, Ordered, writerVars
  <2>3. ASSUME NEW u \in Tracks PROVE Stage(u)'
    BY <1>0, <1>4, SMTT(30) DEF OpenRing, TypeOK, InTurn, Stage, writerVars, ringVars
  <2>4. InTurn'
    BY <1>0, <1>4 DEF OpenRing, TypeOK, InTurn, Stage, writerVars, ringVars
  <2> QED BY <2>1, <2>2, <2>3, <2>4 DEF FeedInv
<1> QED BY <1>1, <1>3, <1>4, <1>5

LEMMA TakeFirstFeedInv ==
  ASSUME FeedInv, NEW t \in Tracks, TakeFirst(t)
  PROVE  FeedInv'
<1> USE DEF Early, Before
<1>0. TypeOK /\ InTurn /\ \A u \in Tracks : Stage(u) /\ Ordered(u)
  BY DEF FeedInv
<1>a. call = t /\ pc[t] = "waiting"
  BY <1>0 DEF TakeFirst, Stage
<1>1. CASE ring[t] = "left" /\ call' = "failed" /\ pc' = [pc EXCEPT ![t] = "ended"]
           /\ UNCHANGED <<first, owed>>
  <2>1. TypeOK' /\ InTurn'
    BY <1>0, <1>a, <1>1 DEF TakeFirst, TypeOK, InTurn, Tracks, writerVars
  <2>2. ASSUME NEW u \in Tracks PROVE Stage(u)'
    BY <1>0, <1>a, <1>1 DEF TakeFirst, TypeOK, InTurn, Stage, Tracks, writerVars
  <2>3. ASSUME NEW u \in Tracks PROVE Ordered(u)'
    <3>1. u # t => pc'[u] = pc[u]
      BY <1>0, <1>1 DEF TypeOK
    <3>2. u = t => pc'[u] = "ended" /\ first[u] = 0
      BY <1>0, <1>a, <1>1 DEF TypeOK, Stage
    <3>3. count[u] \in Nat
      BY <1>0, Types
    <3> QED BY <1>0, <1>a, <1>1, <3>1, <3>2, <3>3 DEF TakeFirst, Ordered, writerVars
  <2> QED BY <2>1, <2>2, <2>3 DEF FeedInv
<1>2. CASE \E f \in owed[t] :
             /\ Receives(t, f)
             /\ first' = [first EXCEPT ![t] = f]
             /\ pc' = [pc EXCEPT ![t] = "start"]
             /\ call' = IF t = "video" THEN "audio" ELSE "done"
  <2>1. PICK f \in owed[t] :
             /\ Receives(t, f)
             /\ first' = [first EXCEPT ![t] = f]
             /\ pc' = [pc EXCEPT ![t] = "start"]
             /\ call' = IF t = "video" THEN "audio" ELSE "done"
    BY <1>2
  <2>2. f \in 1 .. count[t] /\ count[t] \in Nat
    BY <1>0, Types DEF Ordered
  <2>3. f \in Nat /\ f > 0 /\ f <= count[t]
    BY <2>2
  <2>4. TypeOK'
    <3>1. owed' \in [Tracks -> SUBSET Nat]
      BY <1>0, <2>1 DEF Receives, TypeOK
    <3>2. first' \in [Tracks -> Nat]
      BY <1>0, <2>1, <2>3 DEF TypeOK
    <3> QED BY <1>0, <2>1, <3>1, <3>2 DEF TakeFirst, TypeOK, Tracks, writerVars
  <2>5. InTurn'
    BY <1>0, <1>a, <2>1 DEF TypeOK, InTurn, Tracks
  <2>6. ASSUME NEW u \in Tracks PROVE Stage(u)'
    <3>1. CASE u = t
      <4>1. pc'[u] = "start" /\ first'[u] = f /\ ring[u] = "serving"
        BY <1>0, <2>1, <3>1 DEF TypeOK, Ordered
      <4> QED BY <1>0, <1>a, <3>1, <4>1 DEF TakeFirst, Stage, writerVars
    <3>2. CASE u # t
      <4>1. pc'[u] = pc[u] /\ first'[u] = first[u]
        BY <1>0, <2>1, <3>2 DEF TypeOK
      <4>2. pc[u] \notin {"waiting", "asked", "found"}
        BY <1>0, <1>a, <3>2 DEF Stage, InTurn, Tracks
      <4> QED BY <1>0, <3>2, <4>1, <4>2 DEF TakeFirst, Stage, writerVars
    <3> QED BY <3>1, <3>2
  <2>7. ASSUME NEW u \in Tracks PROVE Ordered(u)'
    <3>1. CASE u = t
      <4>1. owed'[u] = owed[u] \ {f} /\ pc'[u] = "start" /\ first'[u] = f
        BY <1>0, <2>1, <3>1 DEF Receives, TypeOK
      <4>2. \A g \in owed[u] : f <= g /\ g \in Nat
        BY <1>0, <2>1, <3>1, Types DEF Receives
      <4>3. \A g \in owed'[u] : f < g
        BY <2>3, <4>1, <4>2
      <4>4. pre[u] = <<>> /\ out[u] = <<>> /\ owed'[u] \subseteq 1 .. count[u]
        BY <1>0, <1>a, <3>1, <4>1 DEF Ordered
      <4>5. ring[u] = "serving"
        BY <1>0, <2>1, <3>1 DEF Ordered
      <4> QED BY <2>3, <3>1, <4>1, <4>3, <4>4, <4>5 DEF Ordered, TakeFirst, writerVars
    <3>2. CASE u # t
      <4>1. owed'[u] = owed[u] /\ pc'[u] = pc[u] /\ first'[u] = first[u]
        BY <1>0, <2>1, <3>2 DEF Receives, TypeOK
      <4> QED BY <4>1, Untouched DEF TakeFirst, writerVars
    <3> QED BY <3>1, <3>2
  <2> QED BY <2>4, <2>5, <2>6, <2>7 DEF FeedInv
<1> QED BY <1>1, <1>2 DEF TakeFirst

(* The ring counts the slots from the position found to the write position. *)
LEMMA CopyIs ==
  ASSUME FeedInv, NEW t \in Tracks, CopyRing(t)
  PROVE  \E n \in Nat : /\ n = (count[t] + 1 - found[t]) % Cap
                        /\ n <= count[t] + 1 - found[t]
                        /\ 0 < found[t] /\ found[t] <= count[t] - n + 1
                        /\ owed' = [owed EXCEPT ![t] = count[t] - n + 1 .. count[t]]
<1> DEFINE d == count[t] + 1 - found[t]
           n == d % Cap
<1>1. count[t] \in Nat /\ found[t] \in Nat /\ Cap \in Nat /\ Cap > 0
  BY Types, Sizes DEF FeedInv
<1>2. found[t] > 0 /\ found[t] <= count[t]
  BY <1>1 DEF CopyRing, FeedInv, Stage
<1>3. d \in Nat
  BY <1>1, <1>2
<1>4. n \in Nat /\ n <= d
  <2> HIDE DEF d
  <2> QED BY <1>1, <1>3, Z3
<1>5. owed' = [owed EXCEPT ![t] = count[t] - n + 1 .. count[t]]
  BY DEF CopyRing
<1>6. found[t] <= count[t] - n + 1
  <2> HIDE DEF n
  <2> QED BY <1>1, <1>4
<1> QED BY <1>2, <1>4, <1>5, <1>6

LEMMA RingFeedInv ==
  ASSUME FeedInv, NEW t \in Tracks, RingGoroutine(t)
  PROVE  FeedInv'
<1> USE DEF Early, Before
<1>0. TypeOK /\ InTurn /\ \A u \in Tracks : Stage(u) /\ Ordered(u)
  BY DEF FeedInv
<1>1. InTurn' /\ UNCHANGED <<writerVars, call, found, streamVars, upDone, closing>>
  BY <1>0 DEF RingGoroutine, CopyRing, SkipFrame, LeaveRing, InTurn, streamVars
<1>2. ASSUME NEW S \in SUBSET (1 .. count[t]), NEW r \in {"serving", "left"},
             owed' = [owed EXCEPT ![t] = S], ring' = [ring EXCEPT ![t] = r],
             ring[t] \in {"started", "serving"}, r = "left" => S = {},
             S \subseteq owed[t] \/ (ring[t] = "started" /\ r = "serving"),
             copied' \in [Tracks -> Nat]
      PROVE  FeedInv'
  <2>1. count[t] \in Nat /\ S \subseteq Nat
    BY <1>0, Types
  <2>2. TypeOK'
    BY <1>0, <1>1, <1>2, <2>1 DEF TypeOK, writerVars, streamVars
  <2>3. ASSUME NEW u \in Tracks PROVE Stage(u)'
    BY <1>0, <1>1, <1>2 DEF TypeOK, Stage, writerVars, streamVars
  <2>4. ASSUME NEW u \in Tracks PROVE Ordered(u)'
    <3>1. CASE u = t
      <4>1. owed'[u] = S /\ ring'[u] = r
        BY <1>0, <1>2, <3>1 DEF TypeOK
      <4>2. ring[t] = "started" => pc[t] = "waiting" /\ pre[t] = <<>>
        BY <1>0 DEF Stage, Ordered
      <4>3. S \subseteq owed[t] \/ (pc[t] = "waiting" /\ pre[t] = <<>>)
        BY <1>2, <4>2
      <4>4. /\ count'[u] = count[u] /\ pc'[u] = pc[u] /\ pre'[u] = pre[u]
            /\ out'[u] = out[u] /\ first'[u] = first[u]
        BY <1>1 DEF writerVars, streamVars
      <4>5. CASE S \subseteq owed[t]
        BY <1>0, <1>2, <3>1, <4>1, <4>4, <4>5 DEF Ordered
      <4>6. CASE pc[t] = "waiting" /\ pre[t] = <<>>
        <5>0. pre'[u] = <<>> /\ owed'[u] \subseteq 1 .. count'[u]
          BY <1>2, <3>1, <4>1, <4>4, <4>6
        <5>1. Len(pre'[u]) = 0
          BY <5>0
        <5>2. \A i \in 1 .. Len(pre'[u]) : FALSE
          BY <5>1
        <5>3. ring'[u] # "serving" => owed'[u] = {}
          BY <1>2, <4>1
        <5> QED BY <1>0, <3>1, <4>4, <4>6, <5>0, <5>2, <5>3 DEF Ordered
      <4> QED BY <4>3, <4>5, <4>6
    <3>2. CASE u # t
      <4>1. owed'[u] = owed[u] /\ ring'[u] = ring[u]
        BY <1>0, <1>2, <3>2 DEF TypeOK
      <4> QED BY <1>1, <4>1, Untouched DEF writerVars, streamVars
    <3> QED BY <3>1, <3>2
  <2> QED BY <1>1, <2>2, <2>3, <2>4 DEF FeedInv
<1>3. CASE CopyRing(t)
  <2>1. PICK n \in Nat : /\ 0 < found[t] /\ found[t] <= count[t] - n + 1
                         /\ owed' = [owed EXCEPT ![t] = count[t] - n + 1 .. count[t]]
    BY <1>3, CopyIs
  <2>2. count[t] \in Nat /\ found[t] \in Nat
    BY <1>0, Types
  <2>3. (count[t] - n + 1 .. count[t]) \subseteq 1 .. count[t]
    BY <2>1, <2>2
  <2>4. copied' \in [Tracks -> Nat]
    BY <1>0, <1>3, <2>2 DEF CopyRing, TypeOK
  <2> QED BY <1>2, <1>3, <2>1, <2>3, <2>4 DEF CopyRing
<1>4. CASE SkipFrame(t)
  <2>1. PICK f \in owed[t] : owed' = [owed EXCEPT ![t] = owed[t] \ {f}]
    BY <1>4 DEF SkipFrame
  <2>2. ring' = [ring EXCEPT ![t] = "serving"] /\ ring[t] = "serving" /\ copied' = copied
    BY <1>0, <1>4 DEF SkipFrame, TypeOK
  <2>3. owed[t] \ {f} \in SUBSET (1 .. count[t])
    BY <1>0 DEF Ordered
  <2> QED BY <1>0, <1>2, <2>1, <2>2, <2>3 DEF TypeOK
<1>5. CASE LeaveRing(t)
  BY <1>0, <1>2, <1>5 DEF LeaveRing, TypeOK
<1> QED BY <1>3, <1>4, <1>5 DEF RingGoroutine

LEMMA StartFeedInv ==
  ASSUME FeedInv, NEW t \in Tracks, Start(t)
  PROVE  FeedInv'
<1> USE DEF Early, Before
<1>0. TypeOK /\ InTurn /\ \A u \in Tracks : Stage(u) /\ Ordered(u)
  BY DEF FeedInv
<1>1. /\ pc[t] = "start" /\ UNCHANGED <<writerVars, call, found, ringVars, first, out, upDone, closing>>
      /\ pc' = [pc EXCEPT ![t] = pc'[t]] /\ pc'[t] \in {"collect", "flush"}
      /\ pre' = [pre EXCEPT ![t] = <<first[t]>>]
  BY <1>0 DEF Start, TypeOK
<1>2. count[t] \in Nat /\ first[t] \in Nat /\ first[t] <= count[t] /\ first[t] > 0
  BY <1>0, <1>1, Types DEF Ordered
<1>3. newest' \in [Tracks -> Int]
  <2>1. Current(t) \in Int
    BY <1>2 DEF Current
  <2> QED BY <1>0, <2>1 DEF Start, TypeOK
<1>4. TypeOK'
  <2>1. <<first[t]>> \in Seq(Nat)
    BY <1>2
  <2>2. pre' \in [Tracks -> Seq(Nat)]
    BY <1>0, <1>1, <2>1 DEF TypeOK
  <2>3. pc' \in [Tracks -> Early \cup {"start", "collect", "flush", "live", "ended"}]
    BY <1>0, <1>1 DEF TypeOK
  <2> HIDE DEF Early
  <2> QED BY <1>0, <1>1, <1>3, <2>2, <2>3 DEF TypeOK, writerVars, ringVars
<1>5. InTurn' /\ \A u \in Tracks : Stage(u)'
  BY <1>0, <1>1 DEF TypeOK, InTurn, Stage, Tracks, writerVars, ringVars
<1>6. ASSUME NEW u \in Tracks PROVE Ordered(u)'
  <2>1. CASE u = t
    <3>1. pre'[u] = <<first[t]>> /\ pc'[u] \in {"collect", "flush"}
      BY <1>0, <1>1, <2>1 DEF TypeOK
    <3>2. Len(pre'[u]) = 1 /\ pre'[u][1] = first[t] /\ pre'[u] # <<>>
      BY <3>1
    <3>3. \A i \in 1 .. Len(pre'[u]) : i = 1
      BY <3>2
    <3>4. first[t] \in 1 .. count[t] /\ 1 .. 0 = {}
      BY <1>2
    <3>5. out[u] = <<>> /\ \A g \in owed[u] : first[t] < g
      BY <1>0, <1>1, <2>1 DEF Ordered
    <3>6. ASSUME NEW i \in 1 .. Len(pre'[u])
          PROVE  /\ pre'[u][i] \in 1 .. count'[u]
                 /\ \A j \in 1 .. i - 1 : pre'[u][j] < pre'[u][i]
                 /\ \A g \in owed'[u] : pre'[u][i] < g
      <4>1. i = 1 /\ count'[u] = count[t] /\ owed'[u] = owed[u]
        BY <1>1, <2>1, <3>3 DEF writerVars, ringVars
      <4>2. \A j \in 1 .. i - 1 : FALSE
        BY <4>1
      <4> QED BY <3>2, <3>4, <3>5, <4>1, <4>2
    <3> QED BY <1>0, <1>1, <1>2, <2>1, <3>1, <3>2, <3>5, <3>6 DEF Ordered, writerVars, ringVars
  <2>2. CASE u # t
    <3>1. pc'[u] = pc[u] /\ pre'[u] = pre[u]
      BY <1>0, <1>1, <2>2 DEF TypeOK
    <3> QED BY <1>1, <3>1, Untouched DEF writerVars, ringVars
  <2> QED BY <2>1, <2>2
<1> QED BY <1>4, <1>5, <1>6 DEF FeedInv

LEMMA CollectFeedInv ==
  ASSUME FeedInv, NEW t \in Tracks, Collect(t)
  PROVE  FeedInv'
<1> USE DEF Early, Before
<1>0. TypeOK /\ InTurn /\ \A u \in Tracks : Stage(u) /\ Ordered(u)
  BY DEF FeedInv
<1>1. PICK f \in owed[t] :
        /\ Receives(t, f)
        /\ pre' = [pre EXCEPT ![t] = Append(pre[t], f)]
        /\ pc' = [pc EXCEPT ![t] = IF Missing(f, newest[t]) THEN "collect"
                                                            ELSE "flush"]
  BY DEF Collect
<1>2. /\ pc[t] = "collect" /\ UNCHANGED <<writerVars, call, found, ring, copied, first, newest, out, upDone, closing>>
      /\ pc' = [pc EXCEPT ![t] = pc'[t]] /\ pc'[t] \in {"collect", "flush"}
  BY <1>0, <1>1 DEF Collect, TypeOK
<1>3. f \in 1 .. count[t] /\ count[t] \in Nat /\ f \in Nat /\ pre[t] \in Seq(Nat)
  BY <1>0, Types DEF Ordered
<1>4. TypeOK'
  <2>1. Append(pre[t], f) \in Seq(Nat)
    BY <1>3
  <2>2. pre' \in [Tracks -> Seq(Nat)]
    BY <1>0, <1>1, <2>1 DEF TypeOK
  <2>3. pc' \in [Tracks -> Early \cup {"start", "collect", "flush", "live", "ended"}]
    BY <1>0, <1>2 DEF TypeOK
  <2>4. owed' \in [Tracks -> SUBSET Nat]
    BY <1>0, <1>1 DEF Receives, TypeOK
  <2> HIDE DEF Early
  <2> QED BY <1>0, <1>2, <2>2, <2>3, <2>4 DEF TypeOK, writerVars
<1>5. InTurn' /\ \A u \in Tracks : Stage(u)'
  BY <1>0, <1>2, SMTT(30) DEF TypeOK, InTurn, Stage, Tracks, writerVars
<1>6. ASSUME NEW u \in Tracks PROVE Ordered(u)'
  <2>1. CASE u = t
    <3> DEFINE n == Len(pre[t])
    <3>1. pre'[u] = Append(pre[t], f) /\ pc'[u] \in {"collect", "flush"} /\ owed'[u] = owed[t] \ {f}
      BY <1>0, <1>1, <1>2, <2>1 DEF TypeOK, Receives
    <3>2. /\ n \in Nat /\ Len(pre'[u]) = n + 1 /\ pre'[u] # <<>>
          /\ \A i \in 1 .. n : pre'[u][i] = pre[t][i]
          /\ pre'[u][n + 1] = f
      BY <1>3, <3>1, SMTT(30)
    <3>3. \A g \in owed'[u] : f < g /\ g \in owed[t]
      <4>1. \A g \in owed[t] : f <= g /\ g \in Nat
        BY <1>0, <1>1, Types DEF Receives
      <4> QED BY <1>3, <3>1, <4>1
    <3>4. \A i \in 1 .. n : pre[t][i] < f /\ pre[t][i] \in 1 .. count[t]
      BY <1>0 DEF Ordered
    <3>5. out[u] = <<>> /\ ring[u] = "serving" /\ first[u] <= count[u] /\ first[u] > 0
      BY <1>0, <1>2, <2>1 DEF Ordered
    <3>6. ASSUME NEW i \in 1 .. Len(pre'[u])
          PROVE  /\ pre'[u][i] \in 1 .. count'[u]
                 /\ \A j \in 1 .. i - 1 : pre'[u][j] < pre'[u][i]
                 /\ \A g \in owed'[u] : pre'[u][i] < g
      <4>1. count'[u] = count[t]
        BY <1>2, <2>1 DEF writerVars
      <4>2. CASE i \in 1 .. n
        <5>1. \A j \in 1 .. i - 1 : j \in 1 .. n
          BY <3>2, <4>2
        <5>2. pre[t][i] \in 1 .. count[t] /\ \A j \in 1 .. i - 1 : pre[t][j] < pre[t][i]
          BY <1>0, <4>2 DEF Ordered
        <5>3. \A g \in owed'[u] : pre[t][i] < g
          BY <1>0, <3>3, <4>2 DEF Ordered
        <5> QED BY <3>2, <4>1, <4>2, <5>1, <5>2, <5>3
      <4>3. CASE i = n + 1
        <5>1. \A j \in 1 .. i - 1 : j \in 1 .. n
          BY <3>2, <4>3
        <5> QED BY <1>3, <3>2, <3>3, <3>4, <4>1, <4>3, <5>1
      <4>4. i \in 1 .. n \/ i = n + 1
        BY <3>2
      <4> QED BY <4>2, <4>3, <4>4
    <3>7. owed'[u] \subseteq 1 .. count[u]
      BY <1>0, <2>1, <3>1 DEF Ordered
    <3>8. first'[u] = first[u] /\ count'[u] = count[u] /\ ring'[u] = ring[u] /\ out'[u] = out[u]
      BY <1>2 DEF writerVars
    <3> HIDE DEF n
    <3> QED BY <3>1, <3>2, <3>5, <3>6, <3>7, <3>8 DEF Ordered
  <2>2. CASE u # t
    <3>1. pc'[u] = pc[u] /\ pre'[u] = pre[u] /\ owed'[u] = owed[u]
      BY <1>0, <1>1, <1>2, <2>2 DEF TypeOK, Receives
    <3> QED BY <1>2, <3>1, Untouched DEF writerVars
  <2> QED BY <2>1, <2>2
<1> QED BY <1>4, <1>5, <1>6 DEF FeedInv

(* The prebuffer gives its first frame away, or is dropped.                 *)
LEMMA FlushFeedInv ==
  ASSUME FeedInv, NEW t \in Tracks, Flush(t)
  PROVE  FeedInv'
<1> USE DEF Early, Before
<1>0. TypeOK /\ InTurn /\ \A u \in Tracks : Stage(u) /\ Ordered(u)
  BY DEF FeedInv
<1> DEFINE p == pre[t]
           n == Len(p)
<1>1. /\ pc[t] = "flush" /\ p \in Seq(Nat) /\ p # <<>>
      /\ UNCHANGED <<writerVars, call, found, ringVars, first, newest, upDone, closing>>
      /\ pre' = [pre EXCEPT ![t] = Tail(p)]
      /\ pc' = [pc EXCEPT ![t] = IF n = 1 THEN "live" ELSE "flush"]
  BY <1>0, Types DEF Flush, Ordered
<1>2. /\ n \in Nat /\ n > 0 /\ Len(Tail(p)) = n - 1 /\ Tail(p) \in Seq(Nat) /\ Head(p) = p[1]
      /\ \A i \in 1 .. n - 1 : Tail(p)[i] = p[i + 1]
  BY <1>1
<1>3. out' \in [Tracks -> Seq(Nat)] /\ \A u \in Tracks : u # t => out'[u] = out[u]
  <2>1. Head(p) \in Nat /\ out[t] \in Seq(Nat)
    BY <1>0, <1>1, Types
  <2>2. Append(out[t], Head(p)) \in Seq(Nat)
    BY <2>1
  <2>3. out' = out \/ out' = [out EXCEPT ![t] = Append(out[t], Head(p))]
    BY DEF Flush, Output
  <2>4. out \in [Tracks -> Seq(Nat)]
    BY <1>0 DEF TypeOK
  <2> QED BY <2>2, <2>3, <2>4
<1> HIDE DEF n, p
<1>4. TypeOK'
  <2>2. pre' \in [Tracks -> Seq(Nat)]
    BY <1>0, <1>1, <1>2 DEF TypeOK
  <2>3. pc' \in [Tracks -> Early \cup {"start", "collect", "flush", "live", "ended"}]
    BY <1>0, <1>1 DEF TypeOK
  <2> HIDE DEF Early
  <2> QED BY <1>0, <1>1, <1>3, <2>2, <2>3 DEF TypeOK, writerVars, ringVars
<1>5. InTurn' /\ \A u \in Tracks : Stage(u)'
  BY <1>0, <1>1, SMTT(30) DEF TypeOK, InTurn, Stage, Tracks, writerVars, ringVars
<1>6. ASSUME NEW u \in Tracks PROVE Ordered(u)'
  <2>1. CASE u = t
    <3>1. pre'[u] = Tail(p) /\ pc'[u] \in {"live", "flush"} /\ (pc'[u] = "live" <=> n = 1)
      BY <1>0, <1>1, <2>1 DEF TypeOK
    <3>2. Tail(p) = <<>> <=> n = 1
      <4>1. Tail(p) = <<>> <=> Len(Tail(p)) = 0
        BY <1>2, SMTT(30)
      <4>2. n - 1 = 0 <=> n = 1
        BY <1>2
      <4> QED BY <1>2, <4>1, <4>2
    <3>3. ASSUME NEW i \in 1 .. n - 1
          PROVE  /\ Tail(p)[i] \in 1 .. count[t]
                 /\ \A j \in 1 .. i - 1 : Tail(p)[j] < Tail(p)[i]
                 /\ \A g \in owed[t] : Tail(p)[i] < g
      <4>1. i + 1 \in 1 .. n /\ \A j \in 1 .. i - 1 : j \in 1 .. n - 1 /\ j + 1 \in 1 .. i + 1 - 1
        BY <1>2
      <4> QED BY <1>0, <1>2, <4>1 DEF Ordered, n, p
    <3>4. first'[u] = first[u] /\ count'[u] = count[u] /\ ring'[u] = ring[u] /\ owed'[u] = owed[u]
      BY <1>1 DEF writerVars, ringVars
    <3>5. /\ owed[u] \subseteq 1 .. count[u] /\ (ring[u] # "serving" => owed[u] = {})
          /\ first[u] <= count[u] /\ first[u] > 0
      BY <1>0, <1>1, <2>1 DEF Ordered
    <3> QED BY <1>2, <2>1, <3>1, <3>2, <3>3, <3>4, <3>5 DEF Ordered
  <2>2. CASE u # t
    <3>1. pc'[u] = pc[u] /\ pre'[u] = pre[u]
      BY <1>0, <1>1, <2>2 DEF TypeOK
    <3> QED BY <1>1, <1>3, <2>2, <3>1, Untouched DEF writerVars, ringVars
  <2> QED BY <2>1, <2>2
<1> QED BY <1>4, <1>5, <1>6 DEF FeedInv

LEMMA RelayFeedInv ==
  ASSUME FeedInv, NEW t \in Tracks, Relay(t)
  PROVE  FeedInv'
<1> USE DEF Early, Before
<1>0. TypeOK /\ InTurn /\ \A u \in Tracks : Stage(u) /\ Ordered(u)
  BY DEF FeedInv
<1>1. PICK f \in owed[t] : Receives(t, f) /\ Output(t, f)
  BY DEF Relay
<1>2. pc[t] = "live" /\ UNCHANGED <<writerVars, call, found, ring, copied, pc, first, newest, pre, upDone, closing>>
  BY DEF Relay
<1>3. out' \in [Tracks -> Seq(Nat)] /\ \A u \in Tracks : u # t => out'[u] = out[u]
  <2>1. f \in Nat /\ out[t] \in Seq(Nat)
    BY <1>0, <1>1, Types
  <2>2. Append(out[t], f) \in Seq(Nat)
    BY <2>1
  <2>3. out' = [out EXCEPT ![t] = Append(out[t], f)] \/ out' = out
    BY <1>1 DEF Output
  <2>4. out \in [Tracks -> Seq(Nat)]
    BY <1>0 DEF TypeOK
  <2> QED BY <2>2, <2>3, <2>4
<1>4. owed' \in [Tracks -> SUBSET Nat]
  BY <1>0, <1>1 DEF Receives, TypeOK
<1>5. TypeOK' /\ InTurn' /\ \A u \in Tracks : Stage(u)'
  BY <1>0, <1>2, <1>3, <1>4 DEF TypeOK, InTurn, Stage, writerVars
<1>6. ASSUME NEW u \in Tracks PROVE Ordered(u)'
  <2>1. CASE u = t
    BY <1>0, <1>1, <1>2, <2>1 DEF Receives, TypeOK, Ordered, writerVars
  <2>2. CASE u # t
    <3>1. owed'[u] = owed[u]
      BY <1>0, <1>1, <2>2 DEF TypeOK, Receives
    <3> QED BY <1>2, <1>3, <2>2, <3>1, Untouched DEF writerVars
  <2> QED BY <2>1, <2>2
<1> QED BY <1>5, <1>6 DEF FeedInv

LEMMA EndFeedInv ==
  ASSUME FeedInv, NEW t \in Tracks, End(t)
  PROVE  FeedInv'
<1> USE DEF Early, Before
<1>0. TypeOK /\ InTurn /\ \A u \in Tracks : Stage(u) /\ Ordered(u)
  BY DEF FeedInv
<1>1. /\ pc[t] \in {"collect", "flush", "live"} /\ pc' = [pc EXCEPT ![t] = "ended"]
      /\ pre' = [pre EXCEPT ![t] = <<>>]
      /\ UNCHANGED <<writerVars, call, found, ringVars, first, newest, out, upDone, closing>>
  BY DEF End
<1>2. TypeOK'
  <2>1. <<>> \in Seq(Nat)
    OBVIOUS
  <2>2. pre' \in [Tracks -> Seq(Nat)]
    BY <1>0, <1>1, <2>1 DEF TypeOK
  <2> QED BY <1>0, <1>1, <2>2 DEF TypeOK, writerVars, ringVars
<1>3. InTurn' /\ \A u \in Tracks : Stage(u)'
  BY <1>0, <1>1, SMTT(30) DEF TypeOK, InTurn, Stage, Tracks, writerVars, ringVars
<1>4. ASSUME NEW u \in Tracks PROVE Ordered(u)'
  <2>1. CASE u = t
    <3>1. pre'[u] = <<>> /\ pc'[u] = "ended"
      BY <1>0, <1>1, <2>1 DEF TypeOK
    <3>2. Len(pre'[u]) = 0
      BY <3>1
    <3>3. \A i \in 1 .. Len(pre'[u]) : FALSE
      BY <3>2
    <3> QED BY <1>0, <1>1, <2>1, <3>1, <3>3 DEF Ordered, writerVars, ringVars
  <2>2. CASE u # t
    <3>1. pc'[u] = pc[u] /\ pre'[u] = pre[u]
      BY <1>0, <1>1, <2>2 DEF TypeOK
    <3> QED BY <1>1, <3>1, Untouched DEF writerVars, ringVars
  <2> QED BY <2>1, <2>2
<1> QED BY <1>2, <1>3, <1>4 DEF FeedInv

LEMMA RestFeedInv ==
  ASSUME FeedInv, UpstreamDone \/ Close \/ UNCHANGED vars
  PROVE  FeedInv'
<1>1. /\ UNCHANGED <<count, half, age, call, found, ringVars, streamVars>>
      /\ closing' \in 0 .. 5 /\ upDone' \in BOOLEAN /\ ready' \subseteq ready
  <2>1. closing \in 0 .. 5 /\ upDone \in BOOLEAN
    BY DEF FeedInv, TypeOK
  <2>2. CASE UpstreamDone
    BY <2>1, <2>2 DEF UpstreamDone, writerVars
  <2>3. CASE Close
    BY <2>1, <2>3 DEF Close
  <2>4. CASE UNCHANGED vars
    BY <2>1, <2>4 DEF vars, writerVars
  <2> QED BY <2>2, <2>3, <2>4
<1>2. TypeOK' /\ InTurn'
  BY <1>1 DEF FeedInv, TypeOK, InTurn, ringVars, streamVars
<1>3. \A t \in Tracks : Stage(t)' /\ Ordered(t)'
  BY <1>1 DEF FeedInv, Stage, Ordered, ringVars, streamVars
<1> QED BY <1>2, <1>3 DEF FeedInv

LEMMA NextFeedInv == FeedInv /\ [Next]_vars => FeedInv'
BY WriterFeedInv, SubscribeFeedInv, TakeFirstFeedInv, RingFeedInv, StartFeedInv,
   CollectFeedInv, FlushFeedInv, RelayFeedInv, EndFeedInv, RestFeedInv
DEF Next, SubscribeGoesOn, StreamGoroutine, Tracks

-----------------------------------------------------------------------------
(* What steps do to the frames on their way to the viewer.                  *)

(* A frame reaches the viewer's channel, or is skipped because it is full.  *)
Passes(t) ==
  \E f \in OnTheWay(t) :
    /\ \A g \in OnTheWay(t) : f <= g
    /\ OnTheWay(t)' = OnTheWay(t) \ {f}
    /\ \/ out'[t] = Append(out[t], f)
       \/ out'[t] = out[t] /\ Len(out[t]) >= OutChCap

LEMMA OnTheWayIs ==
  ASSUME FeedInv, NEW t \in Tracks
  PROVE  /\ OnTheWay(t) \subseteq 1 .. count[t]
         /\ pc[t] \in Early \cup {"live", "ended"} => OnTheWay(t) = owed[t]
         /\ pc[t] \in Early \cup {"live", "ended", "start"} => Range(pre[t]) = {}
<1>1. Stage(t) /\ Ordered(t) /\ pre[t] \in Seq(Nat) /\ first[t] \in Nat /\ count[t] \in Nat
  BY Types DEF FeedInv
<1>2. \A x \in Range(pre[t]) : x \in 1 .. count[t]
  BY <1>1 DEF Range, Ordered
<1>3. pc[t] = "start" => first[t] \in 1 .. count[t]
  BY <1>1 DEF Ordered, Early, Before
<1>4. pc[t] \in Early \cup {"live", "ended", "start"} => Range(pre[t]) = {}
  <2>1. Len(<<>>) = 0 /\ DOMAIN <<>> = {}
    OBVIOUS
  <2> QED BY <1>1, <2>1 DEF Range, Ordered, Early, Before
<1> QED BY <1>1, <1>2, <1>3, <1>4 DEF OnTheWay, Ordered, Early, Before

(* The stream takes frames from the ring into the prebuffer.                *)
LEMMA MovesOn ==
  ASSUME FeedInv, NEW t \in Tracks, TakeFirst(t) \/ Start(t) \/ Collect(t)
  PROVE  OnTheWay(t)' = OnTheWay(t) /\ UNCHANGED out
<1>0. TypeOK /\ Stage(t) /\ Ordered(t)
  BY DEF FeedInv
<1>1. CASE TakeFirst(t)
  <2>1. pc[t] = "waiting" /\ pre' = pre /\ out' = out
    BY <1>1 DEF TakeFirst
  <2>2. OnTheWay(t) = owed[t] /\ Range(pre[t]) = {}
    BY <2>1, OnTheWayIs DEF Early
  <2>3. CASE \E f \in owed[t] : Receives(t, f) /\ first' = [first EXCEPT ![t] = f]
                                /\ pc' = [pc EXCEPT ![t] = "start"]
    <3>1. PICK f \in owed[t] : Receives(t, f) /\ first' = [first EXCEPT ![t] = f]
                                /\ pc' = [pc EXCEPT ![t] = "start"]
      BY <2>3
    <3>2. owed'[t] = owed[t] \ {f} /\ first'[t] = f /\ pc'[t] = "start"
      BY <1>0, <3>1 DEF Receives, TypeOK
    <3> QED BY <2>1, <2>2, <3>1, <3>2 DEF OnTheWay
  <2>4. CASE pc' = [pc EXCEPT ![t] = "ended"] /\ UNCHANGED <<first, owed>>
    <3>1. pc'[t] = "ended"
      BY <1>0, <2>4 DEF TypeOK
    <3> QED BY <2>1, <2>2, <2>4, <3>1 DEF OnTheWay
  <2> QED BY <1>1, <2>1, <2>3, <2>4 DEF TakeFirst
<1>2. CASE Start(t)
  <2>1. pc[t] = "start" /\ owed' = owed /\ out' = out /\ pc'[t] # "start" /\ pre'[t] = <<first[t]>>
    BY <1>0, <1>2 DEF Start, ringVars, TypeOK
  <2>2. Range(pre'[t]) = {first[t]}
    <3>1. DOMAIN <<first[t]>> = {1} /\ <<first[t]>>[1] = first[t]
      OBVIOUS
    <3> QED BY <2>1, <3>1 DEF Range
  <2>3. Range(pre[t]) = {}
    BY <2>1, OnTheWayIs
  <2> QED BY <2>1, <2>2, <2>3 DEF OnTheWay
<1>3. CASE Collect(t)
  <2>1. PICK f \in owed[t] : Receives(t, f) /\ pre' = [pre EXCEPT ![t] = Append(pre[t], f)]
    BY <1>3 DEF Collect
  <2>2. pc[t] = "collect" /\ out' = out /\ pc'[t] # "start"
    BY <1>0, <1>3 DEF Collect, TypeOK
  <2>3. owed'[t] = owed[t] \ {f} /\ pre'[t] = Append(pre[t], f) /\ pre[t] \in Seq(Nat) /\ f \in Nat
    BY <1>0, <2>1, Types DEF Receives, TypeOK
  <2>4. Range(pre'[t]) = Range(pre[t]) \cup {f}
    <3> DEFINE n == Len(pre[t])
    <3>1. /\ DOMAIN pre[t] = 1 .. n /\ DOMAIN pre'[t] = 1 .. n + 1 /\ n \in Nat
          /\ \A i \in 1 .. n : pre'[t][i] = pre[t][i]
          /\ pre'[t][n + 1] = f
      BY <2>3
    <3> HIDE DEF n
    <3>2. (1 .. n + 1) = (1 .. n) \cup {n + 1}
      BY <3>1
    <3> QED BY <3>1, <3>2 DEF Range
  <2> QED BY <2>1, <2>2, <2>3, <2>4 DEF OnTheWay
<1> QED BY <1>1, <1>2, <1>3

(* The oldest frame comes first, out of the prebuffer or from the ring.     *)
LEMMA PassesOn ==
  ASSUME FeedInv, NEW t \in Tracks, Flush(t) \/ Relay(t)
  PROVE  Passes(t)
<1>0. TypeOK /\ Stage(t) /\ Ordered(t)
  BY DEF FeedInv
<1>1. CASE Flush(t)
  <2> DEFINE p == pre[t]
             n == Len(p)
             f == Head(p)
  <2>1. /\ pc[t] = "flush" /\ p \in Seq(Nat) /\ p # <<>> /\ pc'[t] # "start"
        /\ owed' = owed /\ pre'[t] = Tail(p) /\ Output(t, f)
    BY <1>0, <1>1, Types DEF Flush, Ordered, ringVars, TypeOK
  <2>2. /\ n \in Nat /\ n > 0 /\ f = p[1] /\ DOMAIN p = 1 .. n /\ DOMAIN Tail(p) = 1 .. n - 1
        /\ \A i \in 1 .. n - 1 : Tail(p)[i] = p[i + 1]
    BY <2>1
  <2>3. /\ \A i \in 1 .. n : p[i] \in Nat /\ \A j \in 1 .. i - 1 : p[j] < p[i]
        /\ \A i \in 1 .. n : \A g \in owed[t] : p[i] < g
    <3>1. \A i \in 1 .. n : p[i] \in Nat
      BY <2>1
    <3> QED BY <1>0, <3>1 DEF Ordered
  <2>4. OnTheWay(t) = owed[t] \cup Range(p) /\ OnTheWay(t)' = owed[t] \cup Range(Tail(p))
    BY <2>1 DEF OnTheWay
  <2>5. out'[t] = Append(out[t], f) \/ (out'[t] = out[t] /\ Len(out[t]) >= OutChCap)
    BY <1>0, <2>1 DEF Output, MayBeFull, TypeOK
  <2> HIDE DEF p, n, f
  <2>6. f \in Nat /\ f \in Range(p) /\ \A i \in 1 .. n - 1 : f < p[i + 1]
    <3>1. 1 \in 1 .. n /\ \A i \in 1 .. n - 1 : i + 1 \in 1 .. n /\ 1 \in 1 .. (i + 1) - 1
      BY <2>2
    <3> QED BY <2>2, <2>3, <3>1 DEF Range
  <2>7. \A i \in 1 .. n : i = 1 \/ \E j \in 1 .. n - 1 : i = j + 1
    <3> TAKE i \in 1 .. n
    <3>1. i # 1 => i - 1 \in 1 .. n - 1 /\ i = (i - 1) + 1
      BY <2>2
    <3> QED BY <3>1
  <2>8. Range(Tail(p)) = Range(p) \ {f}
    <3>1. ASSUME NEW x \in Range(Tail(p)) PROVE x \in Range(p) /\ x # f
      <4>1. PICK i \in 1 .. n - 1 : x = p[i + 1]
        BY <2>2, <3>1 DEF Range
      <4>2. i + 1 \in 1 .. n /\ p[i + 1] \in Nat /\ f < p[i + 1]
        BY <2>2, <2>3, <2>6
      <4> QED BY <2>2, <2>6, <4>1, <4>2 DEF Range
    <3>2. ASSUME NEW x \in Range(p), x # f PROVE x \in Range(Tail(p))
      <4>1. PICK i \in 1 .. n : x = p[i]
        BY <2>2, <3>2 DEF Range
      <4>2. PICK j \in 1 .. n - 1 : i = j + 1
        BY <2>2, <2>7, <3>2, <4>1
      <4>3. x = Tail(p)[j]
        BY <2>2, <4>1, <4>2
      <4> QED BY <2>2, <4>3 DEF Range
    <3> QED BY <3>1, <3>2
  <2>9. \A g \in OnTheWay(t) : f <= g /\ (g = f => g \notin owed[t])
    <3>1. ASSUME NEW g \in Range(p) PROVE f <= g
      <4>1. PICK i \in 1 .. n : g = p[i]
        BY <2>2, <3>1 DEF Range
      <4> QED BY <2>2, <2>6, <2>7, <2>3, <4>1
    <3>2. ASSUME NEW g \in owed[t] PROVE f <= g /\ g # f
      <4>1. 1 \in 1 .. n
        BY <2>2
      <4>2. f < g /\ g \in Nat
        BY <1>0, <2>2, <2>3, <4>1, Types
      <4> QED BY <2>6, <4>2
    <3> QED BY <2>4, <3>1, <3>2
  <2> QED BY <2>4, <2>5, <2>6, <2>8, <2>9 DEF Passes
<1>2. CASE Relay(t)
  <2>1. PICK f \in owed[t] : Receives(t, f) /\ Output(t, f)
    BY <1>2 DEF Relay
  <2>2. pc[t] = "live" /\ pc' = pc /\ pre' = pre /\ first' = first
    BY <1>2 DEF Relay
  <2>3. OnTheWay(t) = owed[t] /\ Range(pre[t]) = {}
    BY <2>2, OnTheWayIs
  <2>4. owed'[t] = owed[t] \ {f} /\ \A g \in owed[t] : f <= g
    BY <1>0, <2>1 DEF Receives, TypeOK
  <2>5. OnTheWay(t)' = owed'[t]
    BY <2>2, <2>3 DEF OnTheWay
  <2>6. out'[t] = Append(out[t], f) \/ (out'[t] = out[t] /\ Len(out[t]) >= OutChCap)
    BY <1>0, <2>1 DEF Output, MayBeFull, TypeOK
  <2> QED BY <2>1, <2>3, <2>4, <2>5, <2>6 DEF Passes
<1> QED BY <1>1, <1>2

(* Frames are lost with a full channel, with the ring and with the stream.  *)
LEMMA Loses ==
  ASSUME FeedInv, NEW t \in Tracks, SkipFrame(t) \/ LeaveRing(t) \/ End(t)
  PROVE  OnTheWay(t)' \subseteq OnTheWay(t) /\ UNCHANGED <<count, out, copied, first>>
<1>0. TypeOK /\ Stage(t) /\ Ordered(t)
  BY DEF FeedInv
<1>1. CASE SkipFrame(t) \/ LeaveRing(t)
  <2>1. owed'[t] \subseteq owed[t]
    BY <1>0, <1>1 DEF SkipFrame, LeaveRing, TypeOK
  <2>2. UNCHANGED <<streamVars, writerVars, copied>>
    BY <1>1 DEF SkipFrame, LeaveRing
  <2> QED BY <2>1, <2>2 DEF OnTheWay, streamVars, writerVars
<1>2. CASE End(t)
  <2>1. /\ pc[t] # "start" /\ pc'[t] = "ended" /\ owed' = owed /\ pre'[t] = <<>>
        /\ UNCHANGED <<count, out, copied, first>>
    BY <1>0, <1>2 DEF End, ringVars, writerVars, TypeOK
  <2>2. Range(<<>>) = {}
    BY DEF Range
  <2> QED BY <2>1, <2>2 DEF OnTheWay
<1> QED BY <1>1, <1>2

(* A goroutine touches its own track only.                                  *)
LEMMA OtherTrack ==
  ASSUME FeedInv, NEW t \in Tracks, NEW u \in Tracks, u # t,
         RingGoroutine(t) \/ StreamGoroutine(t) \/ TakeFirst(t)
  PROVE  /\ count'[u] = count[u] /\ ring'[u] = ring[u] /\ owed'[u] = owed[u]
         /\ copied'[u] = copied[u] /\ pc'[u] = pc[u] /\ first'[u] = first[u]
         /\ pre'[u] = pre[u] /\ out'[u] = out[u] /\ OnTheWay(u)' = OnTheWay(u)
<1>0. TypeOK
  BY DEF FeedInv
<1>1. /\ count'[u] = count[u] /\ ring'[u] = ring[u] /\ owed'[u] = owed[u]
      /\ copied'[u] = copied[u] /\ pc'[u] = pc[u] /\ first'[u] = first[u]
      /\ pre'[u] = pre[u] /\ out'[u] = out[u]
  <2>1. CASE RingGoroutine(t)
    BY <1>0, <2>1 DEF RingGoroutine, CopyRing, SkipFrame, LeaveRing, TypeOK, streamVars, writerVars
  <2>2. CASE StreamGoroutine(t)
    BY <1>0, <2>2 DEF StreamGoroutine, Start, Collect, Flush, Relay, End, Receives, Output,
                      TypeOK, ringVars, writerVars
  <2>3. CASE TakeFirst(t)
    BY <1>0, <2>3 DEF TakeFirst, Receives, TypeOK, writerVars
  <2> QED BY <2>1, <2>2, <2>3
<1> QED BY <1>1 DEF OnTheWay

-----------------------------------------------------------------------------
(* The history.                                                             *)

LEMMA InitHistoryInv == Init => HistoryInv
BY DEF Init, HistoryInv, CopyWhole, InStep, Kept, Streaming, Tracks

(* A step that gives the viewer nothing and takes nothing from it.          *)
LEMMA SameHistory ==
  ASSUME FeedInv, HistoryInv, NEW t \in Tracks,
         count'[t] = count[t], copied'[t] = copied[t], owed'[t] = owed[t],
         out'[t] = out[t], first'[t] = first[t], ring'[t] = ring[t],
         OnTheWay(t)' = OnTheWay(t), Streaming(t)' => Streaming(t),
         pc'[t] = "waiting" => pc[t] = "waiting" \/ owed[t] = {}
  PROVE  copied'[t] <= count'[t] /\ CopyWhole(t)' /\ InStep(t)' /\ Kept(t)'
BY DEF HistoryInv, CopyWhole, InStep, Kept

LEMMA StoreHistoryInv ==
  ASSUME FeedInv, HistoryInv, NEW t \in Tracks, Store(t),
         UNCHANGED <<ring, copied, streamVars>>
  PROVE  HistoryInv'
<1>0. TypeOK /\ \A u \in Tracks : Stage(u) /\ Ordered(u)
  BY DEF FeedInv
<1>1. ASSUME NEW u \in Tracks
      PROVE  copied'[u] <= count'[u] /\ CopyWhole(u)' /\ InStep(u)' /\ Kept(u)'
  <2>1. CASE u # t \/ ring[t] # "serving"
    <3>1. count'[u] = count[u] \/ (u = t /\ count'[u] = count[u] + 1)
      BY <1>0 DEF Store, TypeOK
    <3>2. owed'[u] = owed[u]
      BY <1>0, <2>1 DEF Store, TypeOK
    <3>3. OnTheWay(u)' = OnTheWay(u)
      BY <3>2 DEF OnTheWay, streamVars
    <3>4. /\ count[u] \in Nat /\ copied[u] \in Nat /\ first[u] \in Nat
          /\ out[u] \in Seq(Nat) /\ Len(out[u]) \in Nat
      BY <1>0, Types
    <3>5. copied[u] <= count[u] /\ CopyWhole(u) /\ InStep(u) /\ Kept(u)
      BY DEF HistoryInv
    <3>6. copied'[u] <= count'[u]
      BY <3>1, <3>4, <3>5
    <3>7. CopyWhole(u)' /\ Kept(u)'
      BY <3>2, <3>3, <3>5 DEF CopyWhole, Kept, Streaming, streamVars
    <3>8. InStep(u)'
      BY <3>1, <3>3, <3>4, <3>5 DEF InStep, Streaming, streamVars
    <3> QED BY <3>6, <3>7, <3>8
  <2>2. CASE u = t /\ ring[t] = "serving"
    <3> DEFINE c == count[u] + 1
    <3>1. owed'[u] = owed[u] \cup {c} /\ count'[u] = c
      BY <1>0, <2>2 DEF Store, TypeOK
    <3>2. OnTheWay(u)' = OnTheWay(u) \cup {c}
      BY <3>1 DEF OnTheWay, streamVars
    <3>3. /\ count[u] \in Nat /\ copied[u] \in Nat /\ first[u] \in Nat
          /\ out[u] \in Seq(Nat) /\ Len(out[u]) \in Nat /\ EgressChCap \in Nat
          /\ c \in Nat /\ count[u] < c /\ owed[u] \subseteq 1 .. count[u]
      <4>1. count[u] \in Nat /\ count[u] + 1 > count[u]
        BY <1>0, Types
      <4>2. copied[u] \in Nat /\ first[u] \in Nat /\ out[u] \in Seq(Nat) /\ EgressChCap \in Nat
        BY <1>0, Types, Sizes
      <4>3. owed[u] \subseteq 1 .. count[u]
        BY <1>0 DEF Ordered
      <4> QED BY <4>1, <4>2, <4>3
    <3>4. copied[u] <= count[u] /\ CopyWhole(u) /\ InStep(u) /\ Kept(u)
      BY DEF HistoryInv
    <3> HIDE DEF c
    <3>5. copied'[u] <= count'[u]
      BY <3>1, <3>3, <3>4
    <3>6. CopyWhole(u)'
      <4> SUFFICES ASSUME pc[u] = "waiting", NEW f \in owed'[u],
                          \A g \in owed'[u] : f <= g, copied[u] + 1 - f <= EgressChCap
                   PROVE  f .. copied[u] \subseteq owed'[u]
        BY DEF CopyWhole, streamVars
      <4>1. CASE f \in owed[u]
        BY <3>1, <3>4, <4>1 DEF CopyWhole
      <4>2. CASE f = c
        <5>1. f .. copied[u] = {}
          BY <3>3, <3>4, <4>2
        <5> QED BY <5>1
      <4> QED BY <3>1, <4>1, <4>2
    <3>7. InStep(u)'
      <4>1. Streaming(u) => /\ \A g \in OnTheWay(u) : first[u] + Len(out[u]) <= g
                            /\ first[u] + Len(out[u]) <= c
        BY <3>4 DEF InStep, c
      <4>2. Streaming(u) => first[u] + Len(out[u]) <= c + 1
        BY <3>3, <4>1
      <4> QED BY <3>1, <3>2, <4>1, <4>2 DEF InStep, Streaming, streamVars
    <3>8. Kept(u)'
      BY <3>2, <3>4 DEF Kept, Streaming, streamVars
    <3> QED BY <3>5, <3>6, <3>7, <3>8
  <2> QED BY <2>1, <2>2
<1> QED BY <1>1 DEF HistoryInv

(* The oldest frame is never skipped, and a frame of the copy only if the   *)
(* copy, from any frame on that starts it, does not fit the channel.        *)
LEMMA SkipIs ==
  ASSUME FeedInv, NEW t \in Tracks, SkipFrame(t)
  PROVE  \E f \in owed[t] :
           /\ owed' = [owed EXCEPT ![t] = owed[t] \ {f}]
           /\ \E h \in owed[t] : h < f
           /\ \A a \in Nat : (\A h \in owed[t] : a <= h) /\ f <= copied[t]
                               => copied[t] + 1 - a > EgressChCap
<1>0. TypeOK /\ Stage(t) /\ Ordered(t)
  BY DEF FeedInv
<1>1. PICK f \in owed[t] :
        /\ \/ Cardinality({g \in owed[t] : copied[t] < g /\ g < f}) >= LiveChCap
           \/ Cardinality({g \in owed[t] : g < f}) >= EgressChCap
        /\ owed' = [owed EXCEPT ![t] = owed[t] \ {f}]
  BY DEF SkipFrame
<1>2. /\ owed[t] \subseteq 1 .. count[t] /\ count[t] \in Nat /\ copied[t] \in Nat
      /\ f \in Nat /\ owed[t] \subseteq Nat
      /\ EgressChCap \in Nat /\ EgressChCap > 0 /\ LiveChCap \in Nat /\ LiveChCap > 0
  <2>1. count[t] \in Nat /\ copied[t] \in Nat /\ f \in Nat /\ owed[t] \subseteq Nat
    BY <1>0, Types
  <2>2. owed[t] \subseteq 1 .. count[t]
    BY <1>0 DEF Ordered
  <2>3. EgressChCap \in Nat \ {0} /\ LiveChCap \in Nat \ {0}
    BY Sizes
  <2>4. EgressChCap > 0 /\ LiveChCap > 0
    BY <2>3
  <2> QED BY <2>1, <2>2, <2>3, <2>4
<1>3. Cardinality({}) = 0
  BY FS_EmptySet
<1>4. CASE Cardinality({g \in owed[t] : copied[t] < g /\ g < f}) >= LiveChCap
  <2>1. {g \in owed[t] : copied[t] < g /\ g < f} # {}
    BY <1>2, <1>3, <1>4
  <2>2. PICK h \in owed[t] : copied[t] < h /\ h < f
    BY <2>1
  <2>3. ~ (f <= copied[t])
    BY <1>2, <2>2
  <2> QED BY <1>1, <2>2, <2>3
<1>5. CASE Cardinality({g \in owed[t] : g < f}) >= EgressChCap
  <2> DEFINE S == {g \in owed[t] : g < f}
  <2>1. S # {}
    BY <1>2, <1>3, <1>5
  <2>2. PICK h \in owed[t] : h < f
    BY <2>1
  <2>3. ASSUME NEW a \in Nat, \A g \in owed[t] : a <= g, f <= copied[t]
        PROVE  copied[t] + 1 - a > EgressChCap
    <3>1. a <= h /\ h \in Nat /\ a <= f - 1 /\ f - 1 \in Int
      BY <1>2, <2>2, <2>3
    <3>2. S \subseteq a .. f - 1
      BY <1>2, <2>3
    <3>3. IsFiniteSet(a .. f - 1) /\ Cardinality(a .. f - 1) = f - a
      <4>1. f - 1 - a + 1 = f - a
        BY <1>2
      <4> QED BY <3>1, <4>1, FS_Interval
    <3>4. Cardinality(S) <= f - a /\ Cardinality(S) \in Nat
      <4>1. IsFiniteSet(S) /\ Cardinality(S) <= Cardinality(a .. f - 1)
        BY <3>2, <3>3, FS_Subset
      <4> QED BY <3>3, <4>1, FS_CardinalityType
    <3>5. Cardinality(S) >= EgressChCap
      BY <1>5
    <3> HIDE DEF S
    <3> QED BY <1>2, <2>3, <3>1, <3>4, <3>5
  <2> QED BY <1>1, <2>2, <2>3
<1> QED BY <1>1, <1>4, <1>5

LEMMA RingHistoryInv ==
  ASSUME FeedInv, HistoryInv, NEW t \in Tracks, RingGoroutine(t)
  PROVE  copied'[t] <= count'[t] /\ CopyWhole(t)' /\ InStep(t)' /\ Kept(t)'
<1>0. TypeOK /\ Stage(t) /\ Ordered(t)
  BY DEF FeedInv
<1>a. copied[t] <= count[t] /\ CopyWhole(t) /\ InStep(t) /\ Kept(t)
  BY DEF HistoryInv
<1>b. /\ count[t] \in Nat /\ copied[t] \in Nat /\ first[t] \in Nat /\ owed[t] \subseteq Nat
      /\ out[t] \in Seq(Nat) /\ EgressChCap \in Nat
  BY <1>0, Types, Sizes
<1>1. CASE CopyRing(t)
  <2>1. PICK n \in Nat : owed' = [owed EXCEPT ![t] = count[t] - n + 1 .. count[t]]
    BY <1>1, CopyIs
  <2>2. owed'[t] = count[t] - n + 1 .. count[t] /\ copied'[t] = count[t]
    BY <1>0, <1>1, <2>1 DEF CopyRing, TypeOK
  <2>3. count' = count /\ pc' = pc /\ ~Streaming(t) /\ pc[t] = "waiting"
    BY <1>0, <1>1 DEF CopyRing, Stage, Streaming, writerVars, streamVars
  <2>4. ASSUME NEW f \in owed'[t] PROVE f .. copied'[t] \subseteq owed'[t]
    BY <1>b, <2>2
  <2>5. copied'[t] <= count'[t]
    BY <1>b, <2>2, <2>3
  <2> QED BY <2>3, <2>4, <2>5 DEF CopyWhole, InStep, Kept, Streaming
<1>2. CASE SkipFrame(t)
  <2>1. PICK f \in owed[t] :
           /\ owed' = [owed EXCEPT ![t] = owed[t] \ {f}]
           /\ \E h \in owed[t] : h < f
           /\ \A a \in Nat : (\A h \in owed[t] : a <= h) /\ f <= copied[t]
                               => copied[t] + 1 - a > EgressChCap
    BY <1>2, SkipIs
  <2>2. PICK h \in owed[t] : h < f
    BY <2>1
  <2>3. owed'[t] = owed[t] \ {f} /\ f \in Nat /\ h \in Nat
    BY <1>0, <1>b, <2>1 DEF TypeOK
  <2>4. UNCHANGED <<writerVars, ring, copied, streamVars>>
    BY <1>2 DEF SkipFrame
  <2>5. CopyWhole(t)'
    <3> SUFFICES ASSUME pc[t] = "waiting", NEW g \in owed'[t],
                        \A x \in owed'[t] : g <= x, copied[t] + 1 - g <= EgressChCap
                 PROVE  g .. copied[t] \subseteq owed'[t]
      BY <2>4 DEF CopyWhole, streamVars
    <3>1. g \in owed[t] /\ g \in Nat /\ h \in owed'[t]
      BY <1>b, <2>2, <2>3
    <3>2. \A x \in owed[t] : g <= x
      <4>1. g <= h
        BY <3>1
      <4>2. g <= f
        BY <2>2, <2>3, <3>1, <4>1
      <4> QED BY <2>3, <4>2
    <3>3. g .. copied[t] \subseteq owed[t]
      BY <1>a, <3>1, <3>2 DEF CopyWhole
    <3>4. ~ (f <= copied[t])
      <4>1. ~ (copied[t] + 1 - g > EgressChCap)
        BY <1>b, <3>1
      <4> QED BY <2>1, <3>1, <3>2, <4>1
    <3>5. f \notin g .. copied[t]
      BY <1>b, <2>3, <3>4
    <3> QED BY <2>3, <3>3, <3>5
  <2>6. OnTheWay(t)' \subseteq OnTheWay(t) /\ \A x \in OnTheWay(t) : x # f => x \in OnTheWay(t)'
    BY <2>3, <2>4 DEF OnTheWay, streamVars
  <2>7. InStep(t)'
    BY <1>a, <2>4, <2>6 DEF InStep, Streaming, writerVars, streamVars
  <2>8. Kept(t)'
    <3> SUFFICES ASSUME Streaming(t), ring[t] = "serving",
                        ~ (copied[t] + 1 - first[t] > EgressChCap),
                        ~ (copied[t] + 1 - first[t] > OutChCap)
                 PROVE  first[t] .. copied[t] \subseteq OnTheWay(t)' \cup Range(out[t])
      BY <2>4 DEF Kept, Streaming, streamVars
    <3>1. first[t] .. copied[t] \subseteq OnTheWay(t) \cup Range(out[t])
      BY <1>a DEF Kept
    <3>2. \A x \in owed[t] : first[t] <= x
      <4> SUFFICES ASSUME NEW x \in owed[t] PROVE first[t] <= x
        OBVIOUS
      <4>1. first[t] + Len(out[t]) <= x
        BY <1>a DEF InStep, OnTheWay
      <4>2. Len(out[t]) \in Nat /\ x \in Nat
        BY <1>b
      <4> QED BY <1>b, <4>1, <4>2
    <3>3. ~ (f <= copied[t])
      BY <1>b, <2>1, <3>2
    <3>4. f \notin first[t] .. copied[t]
      BY <1>b, <2>3, <3>3
    <3> QED BY <2>6, <3>1, <3>4
  <2>9. copied'[t] <= count'[t]
    BY <1>a, <2>4 DEF writerVars
  <2> QED BY <2>5, <2>7, <2>8, <2>9
<1>3. CASE LeaveRing(t)
  <2>1. owed'[t] = {} /\ ring'[t] = "left" /\ UNCHANGED <<writerVars, copied, streamVars>>
    BY <1>0, <1>3 DEF LeaveRing, TypeOK
  <2>2. OnTheWay(t)' \subseteq OnTheWay(t)
    BY <1>3, Loses
  <2> QED BY <1>a, <2>1, <2>2 DEF CopyWhole, InStep, Kept, Streaming, writerVars, streamVars
<1> QED BY <1>1, <1>2, <1>3 DEF RingGoroutine

(* Passing a frame on keeps the count of those given, and loses a frame of  *)
(* the history only if it is longer than the channel.                       *)
LEMMA PassHistoryInv ==
  ASSUME FeedInv, HistoryInv, NEW t \in Tracks, Flush(t) \/ Relay(t)
  PROVE  copied'[t] <= count'[t] /\ CopyWhole(t)' /\ InStep(t)' /\ Kept(t)'
<1>0. TypeOK /\ Stage(t) /\ Ordered(t)
  BY DEF FeedInv
<1>a. copied[t] <= count[t] /\ InStep(t) /\ Kept(t)
  BY DEF HistoryInv
<1>b. /\ count[t] \in Nat /\ copied[t] \in Nat /\ first[t] \in Nat
      /\ out[t] \in Seq(Nat) /\ Len(out[t]) \in Nat /\ OutChCap \in Nat
  BY <1>0, Types, Sizes
<1>1. /\ UNCHANGED <<writerVars, ring, copied, first>>
      /\ Streaming(t) /\ pc'[t] # "waiting"
  BY <1>0 DEF Flush, Relay, Streaming, ringVars, TypeOK
<1>2. PICK f \in OnTheWay(t) :
        /\ \A g \in OnTheWay(t) : f <= g
        /\ OnTheWay(t)' = OnTheWay(t) \ {f}
        /\ \/ out'[t] = Append(out[t], f)
           \/ out'[t] = out[t] /\ Len(out[t]) >= OutChCap
  BY PassesOn DEF Passes
<1>3. OnTheWay(t) \subseteq 1 .. count[t] /\ f \in Nat /\ f <= count[t]
  BY <1>b, OnTheWayIs
<1>4. first[t] + Len(out[t]) <= f
  BY <1>a, <1>1 DEF InStep
<1>5. out'[t] = Append(out[t], f) =>
        /\ Len(out'[t]) = Len(out[t]) + 1
        /\ Range(out'[t]) = Range(out[t]) \cup {f}
  <2> SUFFICES ASSUME out'[t] = Append(out[t], f) 
               PROVE  /\ Len(out'[t]) = Len(out[t]) + 1
                      /\ Range(out'[t]) = Range(out[t]) \cup {f}
    OBVIOUS
  <2> DEFINE n == Len(out[t])
  <2>1. /\ DOMAIN out[t] = 1 .. n /\ DOMAIN out'[t] = 1 .. n + 1 /\ n \in Nat
        /\ \A i \in 1 .. n : out'[t][i] = out[t][i]
        /\ out'[t][n + 1] = f /\ Len(out'[t]) = n + 1
    BY <1>b, <1>3
  <2> HIDE DEF n
  <2>2. (1 .. n + 1) = (1 .. n) \cup {n + 1}
    BY <2>1
  <2>3. Range(out'[t]) = Range(out[t]) \cup {f}
    BY <2>1, <2>2 DEF Range
  <2> QED BY <2>1, <2>3 DEF n
<1>6. InStep(t)'
  <2>1. \A g \in OnTheWay(t)' : f + 1 <= g
    BY <1>2, <1>3
  <2>2. f + 1 <= count[t] + 1 /\ first[t] + Len(out'[t]) <= f + 1 /\ Len(out'[t]) \in Nat
    <3>1. Len(out'[t]) = Len(out[t]) \/ Len(out'[t]) = Len(out[t]) + 1
      BY <1>2, <1>5
    <3> QED BY <1>3, <1>4, <1>b, <3>1, SMTT(30)
  <2>3. first[t] + Len(out'[t]) <= count[t] + 1
    BY <1>b, <1>3, <2>2
  <2>4. \A g \in OnTheWay(t)' : first[t] + Len(out'[t]) <= g
    <3> TAKE g \in OnTheWay(t)'
    <3>1. g \in Nat /\ f + 1 <= g
      BY <1>2, <1>3, <2>1
    <3> QED BY <1>b, <1>3, <2>2, <3>1
  <2>5. count' = count /\ first' = first
    BY <1>1 DEF writerVars
  <2> QED BY <2>3, <2>4, <2>5 DEF InStep
<1>7. Kept(t)'
  <2> SUFFICES ASSUME ring[t] = "serving",
                      ~ (copied[t] + 1 - first[t] > EgressChCap),
                      ~ (copied[t] + 1 - first[t] > OutChCap)
               PROVE  first[t] .. copied[t] \subseteq OnTheWay(t)' \cup Range(out'[t])
    BY <1>1 DEF Kept
  <2>1. first[t] .. copied[t] \subseteq OnTheWay(t) \cup Range(out[t])
    BY <1>a, <1>1 DEF Kept
  <2>2. CASE out'[t] = Append(out[t], f)
    BY <1>2, <1>5, <2>1, <2>2
  <2>3. CASE out'[t] = out[t] /\ Len(out[t]) >= OutChCap
    <3>1. f \notin first[t] .. copied[t]
      BY <1>b, <1>3, <1>4, <2>3
    <3> QED BY <1>2, <2>1, <2>3, <3>1
  <2> QED BY <1>2, <2>2, <2>3
<1>8. copied'[t] <= count'[t] /\ CopyWhole(t)'
  BY <1>a, <1>1 DEF CopyWhole, writerVars
<1> QED BY <1>6, <1>7, <1>8

LEMMA MoveHistoryInv ==
  ASSUME FeedInv, HistoryInv, NEW t \in Tracks,
         TakeFirst(t) \/ Start(t) \/ Collect(t) \/ End(t)
  PROVE  copied'[t] <= count'[t] /\ CopyWhole(t)' /\ InStep(t)' /\ Kept(t)'
<1>0. TypeOK /\ Stage(t) /\ Ordered(t)
  BY DEF FeedInv
<1>a. copied[t] <= count[t] /\ CopyWhole(t) /\ InStep(t) /\ Kept(t)
  BY DEF HistoryInv
<1>b. /\ count[t] \in Nat /\ copied[t] \in Nat /\ first[t] \in Nat /\ EgressChCap \in Nat
      /\ out[t] \in Seq(Nat) /\ owed[t] \subseteq Nat
  BY <1>0, Types, Sizes
<1>1. UNCHANGED <<writerVars, copied, ring, out>> /\ pc'[t] # "waiting"
  BY <1>0 DEF TakeFirst, Start, Collect, End, TypeOK, ringVars
<1>2. copied'[t] <= count'[t] /\ CopyWhole(t)'
  BY <1>a, <1>1 DEF CopyWhole, writerVars
<1>3. CASE End(t)
  <2>1. pc'[t] = "ended"
    BY <1>0, <1>3 DEF End, TypeOK
  <2> QED BY <1>2, <2>1 DEF InStep, Kept, Streaming
<1>4. CASE Start(t) \/ Collect(t)
  <2>1. OnTheWay(t)' = OnTheWay(t)
    BY <1>4, MovesOn
  <2>2. first' = first /\ Streaming(t)
    BY <1>4 DEF Start, Collect, Streaming
  <2> QED BY <1>a, <1>1, <1>2, <2>1, <2>2 DEF InStep, Kept, writerVars
<1>5. CASE TakeFirst(t)
  <2>1. OnTheWay(t)' = OnTheWay(t) /\ OnTheWay(t) = owed[t] /\ pc[t] = "waiting"
    BY <1>5, MovesOn, OnTheWayIs DEF TakeFirst, Early
  <2>2. CASE pc'[t] = "ended"
    BY <1>2, <2>2 DEF InStep, Kept, Streaming
  <2>3. CASE \E f \in owed[t] : Receives(t, f) /\ first' = [first EXCEPT ![t] = f]
    <3>1. PICK f \in owed[t] : Receives(t, f) /\ first' = [first EXCEPT ![t] = f]
      BY <2>3
    <3>2. /\ first'[t] = f /\ f \in Nat /\ f <= count[t] /\ \A g \in owed[t] : f <= g
          /\ owed[t] \subseteq Nat
      <4>1. first'[t] = f /\ \A g \in owed[t] : f <= g
        BY <1>0, <3>1 DEF Receives, TypeOK
      <4>2. owed[t] \subseteq 1 .. count[t]
        BY <1>0 DEF Ordered
      <4> QED BY <1>b, <3>1, <4>1, <4>2
    <3>3. Len(out'[t]) = 0
      <4>1. out'[t] = <<>>
        BY <1>0, <1>1, <2>1 DEF Ordered, Early
      <4> QED BY <4>1
    <3>4. InStep(t)'
      <4>1. f + 0 = f /\ f <= count[t] + 1
        BY <1>b, <3>2
      <4>2. count' = count
        BY <1>1 DEF writerVars
      <4> QED BY <2>1, <3>2, <3>3, <4>1, <4>2 DEF InStep
    <3>5. Kept(t)'
      <4> SUFFICES ASSUME ~ (copied[t] + 1 - f > EgressChCap)
                   PROVE  f .. copied[t] \subseteq owed[t]
        BY <1>1, <2>1, <3>2 DEF Kept
      <4>1. copied[t] + 1 - f <= EgressChCap
        BY <1>b, <3>2
      <4> QED BY <1>a, <2>1, <3>1, <3>2, <4>1 DEF CopyWhole
    <3> QED BY <1>2, <3>4, <3>5
  <2>4. pc'[t] = "ended" \/ \E f \in owed[t] : Receives(t, f) /\ first' = [first EXCEPT ![t] = f]
    BY <1>0, <1>5 DEF TakeFirst, TypeOK
  <2> QED BY <2>2, <2>3, <2>4
<1> QED BY <1>3, <1>4, <1>5

LEMMA NextHistoryInv ==
  ASSUME FeedInv, HistoryInv, [Next]_vars
  PROVE  HistoryInv'
<1>0. TypeOK /\ \A u \in Tracks : Stage(u) /\ Ordered(u)
  BY DEF FeedInv
<1>1. CASE StoreVideo
  BY <1>1, StoreHistoryInv DEF StoreVideo, Tracks
<1>2. CASE StoreAudio
  BY <1>2, StoreHistoryInv DEF StoreAudio, Tracks
<1>3. ASSUME NEW t \in Tracks, RingGoroutine(t) \/ StreamGoroutine(t) \/ TakeFirst(t)
      PROVE  HistoryInv'
  <2>1. ASSUME NEW u \in Tracks
        PROVE  copied'[u] <= count'[u] /\ CopyWhole(u)' /\ InStep(u)' /\ Kept(u)'
    <3>1. CASE u = t
      BY <1>3, <3>1, RingHistoryInv, PassHistoryInv, MoveHistoryInv DEF StreamGoroutine
    <3>2. CASE u # t
      <4>1. OnTheWay(u)' = OnTheWay(u) /\ Streaming(u)' = Streaming(u) /\ pc'[u] = pc[u]
        BY <1>3, <3>2, OtherTrack DEF Streaming
      <4> QED BY <1>3, <3>2, <4>1, OtherTrack, SameHistory
    <3> QED BY <3>1, <3>2
  <2> QED BY <2>1 DEF HistoryInv
<1>4. ASSUME UNCHANGED <<count, copied, owed, first, pre, out>>,
             \A u \in Tracks : ring'[u] # ring[u] => pc'[u] = "waiting" /\ ring'[u] # "serving",
             \A u \in Tracks : pc'[u] # pc[u] => pc[u] \in Before /\ pc'[u] \in Early
      PROVE  HistoryInv'
  <2>1. ASSUME NEW u \in Tracks
        PROVE  copied'[u] <= count'[u] /\ CopyWhole(u)' /\ InStep(u)' /\ Kept(u)'
    <3>1. CASE pc'[u] = pc[u]
      <4>1. OnTheWay(u)' = OnTheWay(u) /\ Streaming(u)' = Streaming(u)
        BY <1>4, <3>1 DEF OnTheWay, Streaming
      <4>2. ring'[u] = ring[u] \/ ring'[u] # "serving"
        BY <1>4
      <4> QED BY <1>4, <3>1, <4>1, <4>2 DEF HistoryInv, CopyWhole, InStep, Kept
    <3>2. CASE pc[u] \in Before /\ pc'[u] \in Early
      <4>1. owed[u] = {} /\ ~Streaming(u)'
        BY <1>0, <3>2 DEF Stage, Ordered, Streaming, Early, Before
      <4> QED BY <1>4, <4>1 DEF HistoryInv, CopyWhole, InStep, Kept
    <3> QED BY <1>4, <3>1, <3>2
  <2> QED BY <2>1 DEF HistoryInv
<1>5. CASE StampVideo \/ StampAudio \/ UpstreamDone \/ Close \/ UNCHANGED vars
  BY <1>4, <1>5 DEF StampVideo, StampAudio, UpstreamDone, Close, vars, writerVars, ringVars, streamVars
<1>6. CASE LookUpVideo \/ LookUpAudio \/ \E t \in Tracks : Ask(t) \/ OpenRing(t)
  <2>1. UNCHANGED <<count, copied, owed, first, pre, out>>
    BY <1>6 DEF LookUpVideo, LookUpAudio, Ask, OpenRing, writerVars, ringVars
  <2>2. \A u \in Tracks : ring'[u] # ring[u] => pc'[u] = "waiting" /\ ring'[u] # "serving"
    BY <1>0, <1>6, SMTT(30) DEF LookUpVideo, LookUpAudio, Ask, OpenRing, ringVars, TypeOK
  <2>3. \A u \in Tracks : pc'[u] # pc[u] => pc[u] \in Before /\ pc'[u] \in Early
    BY <1>0, <1>6, SMTT(30) DEF LookUpVideo, LookUpAudio, Ask, OpenRing, TypeOK, Early, Before
  <2> QED BY <1>4, <2>1, <2>2, <2>3
<1> QED BY <1>1, <1>2, <1>3, <1>5, <1>6 DEF Next, Writer, SubscribeGoesOn, Tracks

-----------------------------------------------------------------------------
(* Each track is a FrameFeed for the viewer.                                *)

SameView(t) ==
  /\ count'[t] = count[t] /\ Joined(t)' = Joined(t) /\ out'[t] = out[t]
  /\ OnTheWay(t)' = OnTheWay(t)

Publishes(t) ==
  /\ count'[t] = count[t] + 1 /\ Joined(t)' = Joined(t) /\ out'[t] = out[t]
  /\ OnTheWay(t)' = IF ring[t] = "serving" THEN OnTheWay(t) \cup {count[t] + 1}
                                           ELSE OnTheWay(t)

Joins(t) ==
  /\ ring[t] # "serving" /\ ring'[t] = "serving" /\ out[t] = <<>>
  /\ count'[t] = count[t] /\ out'[t] = out[t]
  /\ \E f \in 1 .. count[t] + 1 : OnTheWay(t)' = f .. count[t]

Delivers(t) ==
  /\ count'[t] = count[t] /\ Joined(t)' = Joined(t)
  /\ \E f \in OnTheWay(t) : /\ \A g \in OnTheWay(t) : f <= g
                            /\ OnTheWay(t)' = OnTheWay(t) \ {f}
                            /\ out'[t] = Append(out[t], f)

LosesSome(t) ==
  /\ count'[t] = count[t] /\ Joined(t)' = Joined(t) /\ out'[t] = out[t]
  /\ OnTheWay(t)' \subseteq OnTheWay(t)

Leaves(t) ==
  /\ ring[t] = "serving" /\ ring'[t] # "serving"
  /\ count'[t] = count[t] /\ out'[t] = out[t]
  /\ OnTheWay(t)' \subseteq OnTheWay(t)

TrackStep(t) ==
  \/ SameView(t) \/ Publishes(t) \/ Joins(t) \/ Delivers(t) \/ LosesSome(t)
  \/ Leaves(t)

LEMMA StoreView ==
  ASSUME FeedInv, NEW t \in Tracks, NEW u \in Tracks, Store(t),
         UNCHANGED <<ring, streamVars>>
  PROVE  TrackStep(u)
<1>0. TypeOK
  BY DEF FeedInv
<1>1. CASE u = t
  <2>1. /\ count'[u] = count[u] + 1
        /\ owed'[u] = IF ring[u] = "serving" THEN owed[u] \cup {count[u] + 1} ELSE owed[u]
    BY <1>0, <1>1 DEF Store, TypeOK
  <2>2. OnTheWay(u)' = IF ring[u] = "serving" THEN OnTheWay(u) \cup {count[u] + 1}
                                              ELSE OnTheWay(u)
    BY <2>1 DEF OnTheWay, streamVars
  <2> QED BY <2>1, <2>2 DEF TrackStep, Publishes, Joined, streamVars
<1>2. CASE u # t
  <2>1. count'[u] = count[u] /\ owed'[u] = owed[u]
    BY <1>0, <1>2 DEF Store, TypeOK
  <2> QED BY <2>1 DEF TrackStep, SameView, OnTheWay, Joined, streamVars
<1> QED BY <1>1, <1>2

LEMMA GoroutineView ==
  ASSUME FeedInv, NEW t \in Tracks,
         RingGoroutine(t) \/ StreamGoroutine(t) \/ TakeFirst(t)
  PROVE  TrackStep(t)
<1>0. TypeOK /\ Stage(t) /\ Ordered(t)
  BY DEF FeedInv
<1>1. CASE TakeFirst(t) \/ Start(t) \/ Collect(t)
  <2>1. count' = count /\ ring' = ring
    BY <1>1 DEF TakeFirst, Start, Collect, writerVars, ringVars
  <2> QED BY <1>1, <2>1, MovesOn DEF TrackStep, SameView, Joined
<1>2. CASE Flush(t) \/ Relay(t)
  <2>1. count' = count /\ ring' = ring
    BY <1>2 DEF Flush, Relay, writerVars, ringVars
  <2>2. Passes(t)
    BY <1>2, PassesOn
  <2> QED BY <2>1, <2>2 DEF Passes, TrackStep, Delivers, LosesSome, Joined
<1>3. CASE SkipFrame(t) \/ End(t)
  <2>1. ring' = ring
    BY <1>3 DEF SkipFrame, End, ringVars
  <2> QED BY <1>3, <2>1, Loses DEF TrackStep, LosesSome, Joined
<1>4. CASE LeaveRing(t)
  <2>1. ring[t] = "serving" /\ ring'[t] = "left"
    BY <1>0, <1>4 DEF LeaveRing, TypeOK
  <2> QED BY <1>4, <2>1, Loses DEF TrackStep, Leaves
<1>5. CASE CopyRing(t)
  <2>1. PICK n \in Nat : /\ 0 < found[t] /\ found[t] <= count[t] - n + 1
                         /\ owed' = [owed EXCEPT ![t] = count[t] - n + 1 .. count[t]]
    BY <1>5, CopyIs
  <2>2. count[t] - n + 1 \in 1 .. count[t] + 1
    <3>1. count[t] \in Nat /\ found[t] \in Nat
      BY <1>0, Types
    <3> QED BY <2>1, <3>1
  <2>3. /\ ring[t] # "serving" /\ ring'[t] = "serving" /\ pc[t] = "waiting"
        /\ owed'[t] = count[t] - n + 1 .. count[t] /\ UNCHANGED <<count, streamVars>>
    BY <1>0, <1>5, <2>1 DEF CopyRing, Stage, TypeOK, writerVars
  <2>4. Range(pre[t]) = {} /\ out[t] = <<>>
    BY <1>0, <2>3, OnTheWayIs DEF Ordered, Early
  <2>5. OnTheWay(t)' = owed'[t]
    BY <2>3, <2>4 DEF OnTheWay, streamVars
  <2> QED BY <2>2, <2>3, <2>4, <2>5 DEF TrackStep, Joins, streamVars
<1> QED BY <1>1, <1>2, <1>3, <1>4, <1>5 DEF RingGoroutine, StreamGoroutine

LEMMA NextView ==
  ASSUME FeedInv, [Next]_vars, NEW u \in Tracks
  PROVE  TrackStep(u)
<1>0. TypeOK /\ Stage(u) /\ Ordered(u)
  BY DEF FeedInv
<1>1. CASE StoreVideo
  BY <1>1, StoreView DEF StoreVideo, Tracks
<1>2. CASE StoreAudio
  BY <1>2, StoreView DEF StoreAudio, Tracks
<1>3. CASE \E t \in Tracks : RingGoroutine(t) \/ StreamGoroutine(t) \/ TakeFirst(t)
  <2>1. PICK t \in Tracks : RingGoroutine(t) \/ StreamGoroutine(t) \/ TakeFirst(t)
    BY <1>3
  <2>2. CASE u = t
    BY <2>1, <2>2, GoroutineView
  <2>3. CASE u # t
    BY <2>1, <2>3, OtherTrack DEF TrackStep, SameView, Joined
  <2> QED BY <2>2, <2>3
<1>4. CASE StampVideo \/ StampAudio \/ UpstreamDone \/ Close \/ UNCHANGED vars
  BY <1>4 DEF StampVideo, StampAudio, UpstreamDone, Close, vars, writerVars, ringVars,
              streamVars, TrackStep, SameView, OnTheWay, Joined
<1>5. CASE LookUpVideo \/ LookUpAudio \/ \E t \in Tracks : Ask(t) \/ OpenRing(t)
  <2>1. UNCHANGED <<count, owed, first, pre, out>>
    BY <1>5 DEF LookUpVideo, LookUpAudio, Ask, OpenRing, writerVars, ringVars
  <2>2. /\ ring'[u] = ring[u] \/ (ring[u] = "none" /\ ring'[u] = "started")
        /\ pc'[u] = pc[u] \/ (pc[u] # "start" /\ pc'[u] # "start")
    BY <1>0, <1>5, SMTT(30) DEF LookUpVideo, LookUpAudio, Ask, OpenRing, Stage, Before, TypeOK, ringVars
  <2>3. OnTheWay(u)' = OnTheWay(u) /\ Joined(u)' = Joined(u)
    BY <2>1, <2>2 DEF OnTheWay, Joined
  <2> QED BY <2>1, <2>3 DEF TrackStep, SameView
<1> QED BY <1>1, <1>2, <1>3, <1>4, <1>5 DEF Next, Writer, SubscribeGoesOn, Tracks

-----------------------------------------------------------------------------
(* Times.                                                                   *)

LEMMA Clock ==
  ASSUME NEW t \in Tracks, NEW a \in Int, NEW b \in Int
  PROVE  /\ Time(t, a) \in Int /\ Time(t, 0) = 0 /\ Time(t, 1) = Step[t]
         /\ Step[t] \in Nat /\ Step[t] > 0
         /\ Time(t, a + b) = Time(t, a) + Time(t, b)
         /\ a <= b => Time(t, a) <= Time(t, b)
         /\ a < b <=> Time(t, a) < Time(t, b)
<1> DEFINE s == Step[t]
<1>1. s \in Nat /\ s > 0
  BY Sizes DEF Tracks
<1> HIDE DEF s
<1>2. a * s \in Int /\ 0 * s = 0 /\ 1 * s = s /\ (a + b) * s = a * s + b * s
  BY <1>1, Z3
<1>3. a <= b => a * s <= b * s
  BY <1>1, Z3
<1>4. a < b => a * s < b * s
  BY <1>1, Z3
<1>5. a < b <=> a * s < b * s
  <2>1. a * s \in Int /\ b * s \in Int
    BY <1>1, Z3
  <2>2. b <= a => b * s <= a * s
    BY <1>1, Z3
  <2> QED BY <1>4, <2>1, <2>2
<1> QED BY <1>1, <1>2, <1>3, <1>5 DEF Time, s

(* What RoomAssumption says of times.                                       *)
LEMMA Room ==
  /\ Offset + Gop * Step["video"] \in Int
  /\ Offset + Gop * Step["video"] + Time("video", 1 + Delay) + Skew
       <= Time("audio", Cap - 2)
<1> DEFINE v == Step["video"]
           u == Step["audio"]
<1>1. v \in Int /\ u \in Int /\ {Gop, Delay, Offset, Skew, Cap} \subseteq Int
  BY Sizes
<1>2. Offset + Skew + (Gop + Delay + 1) * v <= (Cap - 2) * u
  BY RoomAssumption
<1> HIDE DEF v, u
<1>3. (Gop + Delay + 1) * v = Gop * v + (1 + Delay) * v /\ Gop * v \in Int
      /\ (1 + Delay) * v \in Int /\ (Cap - 2) * u \in Int
  BY <1>1, Z3
<1>4. Offset + Gop * v + (1 + Delay) * v + Skew <= (Cap - 2) * u /\ Offset + Gop * v \in Int
  BY <1>1, <1>2, <1>3
<1> QED BY <1>4 DEF Time, v, u

(* Every turn of Gop frames has a key frame.                                *)
LEMMA KeyFrameNear ==
  ASSUME NEW m \in Nat, m > 0
  PROVE  \E g \in 1 .. m : g % Gop = 1 % Gop /\ m - g < Gop
<1>1. Gop \in Nat /\ Gop > 0
  BY Sizes
<1> DEFINE k == Gop
           r == (m - 1) % k
           q == (m - 1) \div k
<1>2. r \in 0 .. k - 1 /\ q \in Int
  BY <1>1
<1>3. m - 1 = k * q + r
  BY <1>1, Z3
<1>4. r <= m - 1
  <2> HIDE DEF q
  <2> QED BY <1>1, Z3
<1>5. (m - r) % k = 1 % k
  <2>1. CASE k = 1
    BY <1>2, <2>1
  <2>2. CASE k > 1
    <3> DEFINE x == m - r
    <3>0. k \in Nat /\ k > 0 /\ 1 \in 0 .. k - 1 /\ x \in Int
      BY <1>1, <1>2, <2>2
    <3> HIDE DEF k, r, q
    <3>1. k * q \in Int
      BY <3>0, <1>2, Z3
    <3>2. x = k * q + 1
      BY <1>2, <1>3, <3>1
    <3> HIDE DEF x
    <3>3. x % k = 1
      BY <3>0, <1>2, <3>2, Z3
    <3>4. 1 % k = 1
      BY <2>2, <3>0, Z3
    <3> QED BY <3>3, <3>4 DEF x
  <2> QED BY <1>1, <2>1, <2>2
<1> HIDE DEF r, q
<1>6. m - r \in 1 .. m /\ m - (m - r) < k
  BY <1>1, <1>2, <1>4
<1> QED BY <1>5, <1>6

(* A frame is presented at any time, or the next one comes after it.        *)
LEMMA FrameBefore ==
  ASSUME NEW t \in Tracks, NEW p \in Int, p >= Step[t]
  PROVE  \E m \in Nat : m > 0 /\ Time(t, m) <= p /\ p < Time(t, m) + Step[t]
<1> DEFINE T == {k \in Nat : p < Time(t, k + 1)}
<1>1. Step[t] \in Nat /\ Step[t] > 0 /\ Time(t, 1) = Step[t]
  BY Clock
<1>2. p \in Nat
  BY <1>1
<1>3. p \in T
  <2>1. Step[t] \in Nat /\ Step[t] > 0
    BY <1>1
  <2> DEFINE s == Step[t]
  <2> HIDE DEF s
  <2>2. s \in Nat /\ s > 0 => p < (p + 1) * s
    BY <1>2, Z3
  <2> QED BY <1>2, <2>1, <2>2 DEF Time, s
<1>4. PICK m \in T : \A k \in T : m <= k
  BY <1>3, LeastNumber
<1>5. m # 0
  <2> SUFFICES ASSUME m = 0 PROVE FALSE
    OBVIOUS
  <2>1. p < Time(t, 1)
    BY <1>4
  <2> QED BY <1>1, <2>1
<1>6. m - 1 \in Nat /\ m - 1 \notin T /\ (m - 1) + 1 = m
  BY <1>4, <1>5
<1>7. Time(t, m) <= p
  <2>1. Time(t, m) \in Int
    BY <1>4, Clock
  <2>2. ~ (p < Time(t, m))
    BY <1>6
  <2> QED BY <2>1, <2>2
<1>8. Time(t, m + 1) = Time(t, m) + Step[t]
  <2>1. m \in Int /\ 1 \in Int
    BY <1>4
  <2>2. Time(t, m + 1) = Time(t, m) + Time(t, 1)
    BY <2>1, Clock
  <2> QED BY <1>1, <2>2
<1> QED BY <1>4, <1>5, <1>7, <1>8

(* The closest key frame is less than a turn of Gop frames too early.       *)
LEMMA KeyFrameFound ==
  ASSUME NEW n \in Nat, n > 0, NEW p \in Int, p <= Time("video", n)
  PROVE  p < Time("video", Closest("video", KeyFrames(n), p)) + Gop * Step["video"]
<1> DEFINE c == Closest("video", KeyFrames(n), p)
           v == Step["video"]
           T(f) == Time("video", f)
<1>1. c \in KeyFrames(n) /\ \A g \in KeyFrames(n) : Distance(T(c), p) <= Distance(T(g), p)
  <2>1. 1 \in KeyFrames(n) /\ KeyFrames(n) \subseteq Nat
    BY DEF KeyFrames
  <2> QED BY <2>1, ClosestIs DEF Tracks
<1>2. c \in Nat /\ c >= 1
  BY <1>1 DEF KeyFrames
<1>3. v \in Nat /\ v > 0 /\ T(c) \in Int /\ v <= T(c) /\ T(1) = v
  <2>1. "video" \in Tracks /\ 1 \in Int /\ c \in Int /\ 1 <= c
    BY <1>2 DEF Tracks
  <2> HIDE DEF c
  <2>2. T(1) = v /\ v \in Nat /\ v > 0 /\ T(c) \in Int
    BY <2>1, Clock
  <2>3. T(1) <= T(c)
    BY <2>1, Clock
  <2> QED BY <2>2, <2>3
<1>4. Gop * v \in Int /\ v <= Gop * v
  <2>1. Gop \in Nat /\ Gop >= 1
    BY Sizes
  <2> HIDE DEF v
  <2> QED BY <1>3, <2>1, Z3
<1> HIDE DEF c, v
<1>5. CASE p < v
  BY <1>3, <1>4, <1>5 DEF c, v
<1>6. CASE p >= v
  <2>1. PICK m \in Nat : m > 0 /\ T(m) <= p /\ p < T(m) + v
    BY <1>6, FrameBefore DEF Tracks, v
  <2>2. PICK g \in 1 .. m : g % Gop = 1 % Gop /\ m - g < Gop
    BY <2>1, KeyFrameNear
  <2>3. T(m) \in Int /\ T(n) \in Int /\ T(g) \in Int
    <3>1. m \in Int /\ n \in Int /\ g \in Int /\ "video" \in Tracks
      BY DEF Tracks
    <3> QED BY <3>1, Clock
  <2>4. m <= n
    <3>1. ~ (T(n) < T(m))
      BY <2>1, <2>3
    <3>2. ~ (n < m)
      BY <3>1, Clock DEF Tracks
    <3> QED BY <3>2
  <2>5. g \in KeyFrames(n)
    BY <2>2, <2>4 DEF KeyFrames
  <2>6. T(m) <= T(g) + (Gop * v - v) /\ T(g) <= T(m)
    <3>1. Gop \in Nat /\ Gop >= 1
      BY Sizes
    <3>2. m * v <= g * v + (Gop * v - v)
      <4>1. m <= g + (Gop - 1)
        BY <2>2, <3>1
      <4>2. m * v <= (g + (Gop - 1)) * v
        BY <1>3, <3>1, <4>1, Z3
      <4>3. (g + (Gop - 1)) * v = g * v + (Gop * v - v)
        BY <1>3, <3>1, Z3
      <4> QED BY <4>2, <4>3
    <3>3. T(g) <= T(m)
      BY <2>2, Clock DEF Tracks
    <3> QED BY <3>2, <3>3 DEF Time, v
  <2>7. Distance(T(g), p) = p - T(g)
    <3>1. ~ (p < T(g)) 
      BY <2>1, <2>3, <2>6
    <3>2. T(g) < p \/ T(g) = p
      BY <2>3, <3>1
    <3> QED BY <2>3, <3>2 DEF Distance
  <2>8. Distance(T(c), p) <= p - T(g)
    BY <1>1, <2>5, <2>7
  <2>9. T(c) < p => Distance(T(c), p) = p - T(c)
    BY DEF Distance
  <2> HIDE DEF T
  <2>10. p - T(g) < Gop * v
    BY <1>3, <1>4, <2>1, <2>3, <2>6
  <2>11. p < T(c) + Gop * v
    <3>1. CASE T(c) < p
      BY <1>3, <1>4, <2>3, <2>8, <2>9, <2>10, <3>1
    <3>2. CASE ~ (T(c) < p)
      BY <1>3, <1>4, <3>2
    <3> QED BY <3>1, <3>2
  <2> QED BY <2>11 DEF c, v, T
<1> QED BY <1>3, <1>5, <1>6

-----------------------------------------------------------------------------
(* The streams start together.                                              *)

LEMMA Counts ==
  ASSUME FeedInv
  PROVE  /\ "video" \in Tracks /\ "audio" \in Tracks
         /\ {count["video"], count["audio"], found["video"], found["audio"],
             first["video"], first["audio"], age, Delay, Skew, Offset, Cap} \subseteq Nat
         /\ {Begun, Current("video"), Current("audio")} \subseteq Int
         /\ Begun = count["audio"] \/ Begun = count["audio"] + 1
         /\ Current("video") = count["video"] \/ Current("video") = count["video"] - 1
         /\ Current("audio") = count["audio"] \/ Current("audio") = count["audio"] + 1
         /\ Reach \in Int
<1>1. "video" \in Tracks /\ "audio" \in Tracks
  BY DEF Tracks
<1>2. {count["video"], count["audio"], found["video"], found["audio"],
       first["video"], first["audio"], age, Delay, Skew, Offset, Cap} \subseteq Nat
  BY <1>1, Types, Sizes DEF FeedInv, TypeOK
<1>3. /\ Begun = count["audio"] \/ Begun = count["audio"] + 1
      /\ Current("video") = count["video"] \/ Current("video") = count["video"] - 1
      /\ Current("audio") = count["audio"] \/ Current("audio") = count["audio"] + 1
  BY <1>2 DEF Begun, Current
<1>4. {Begun, Current("video"), Current("audio")} \subseteq Int
  BY <1>2, <1>3
<1>5. Reach \in Int
  <2>1. Time("video", found["video"]) \in Int
    BY <1>1, <1>2, Clock
  <2>2. Time("video", found["video"]) + (Offset + Gop * Step["video"]) \in Int
    BY <2>1, Room
  <2>3. Offset \in Int /\ Gop * Step["video"] \in Int
    <3>1. Gop \in Int /\ Step["video"] \in Int /\ Offset \in Int
      BY Sizes
    <3> QED BY <3>1, Z3
  <2> QED BY <2>1, <2>3 DEF Reach
<1> QED BY <1>1, <1>2, <1>3, <1>4, <1>5

LEMMA InitStartInv == Init => StartInv
<1> SUFFICES ASSUME Init PROVE StartInv
  OBVIOUS
<1>1. /\ count["audio"] = 0 /\ count["video"] = 0 /\ half = "none" /\ age = 0 /\ call = "idle"
      /\ \A t \in Tracks : found[t] = 0 /\ first[t] = 0 /\ pc[t] = "none" /\ owed[t] = {}
  BY DEF Init, Tracks
<1>2. Begun = 0 /\ Current("video") = 0
  BY <1>1 DEF Begun, Current
<1>3. Apace
  <2>1. Time("audio", 0) = 0 /\ Time("video", 1) = Step["video"]
    BY Clock DEF Tracks
  <2> QED BY <1>2, <2>1, Sizes DEF Apace
<1>4. Ahead
  BY <1>1 DEF Ahead, Subscribing, Tracks
<1>5. Starts
  BY <1>1 DEF Starts, Tracks
<1> QED BY <1>3, <1>4, <1>5 DEF StartInv

(* Steps that find nothing and write nothing.                               *)
LEMMA KeepsStart ==
  ASSUME StartInv, UNCHANGED <<count, half, age, found, first>>,
         Subscribing' => Subscribing,
         \A g \in owed'["video"] : found["video"] <= g,
         pc'["audio"] = "waiting" /\ ring'["audio"] = "serving" =>
           found["audio"] \in owed'["audio"] /\ \A g \in owed'["audio"] : found["audio"] <= g,
         call' = call \/ call' \notin {"audio", "done"}
  PROVE  StartInv'
<1>1. Apace'
  BY DEF StartInv, Apace, Begun, Current
<1>2. Ahead'
  BY DEF StartInv, Ahead, Begun, Reach
<1>3. Starts'
  BY DEF StartInv, Starts, Near
<1> QED BY <1>1, <1>2, <1>3 DEF StartInv

LEMMA StoreIs ==
  ASSUME FeedInv, NEW t \in Tracks, Store(t), NEW u \in Tracks
  PROVE  /\ count'[u] = IF u = t THEN count[u] + 1 ELSE count[u]
         /\ owed'[u] = IF u = t /\ ring[u] = "serving" THEN owed[u] \cup {count[u] + 1}
                                                       ELSE owed[u]
BY DEF FeedInv, Store, TypeOK

LEMMA WriterStartInv ==
  ASSUME FeedInv, FeedInv', StartInv, Writer
  PROVE  StartInv'
<1>0. TypeOK
  BY DEF FeedInv
<1> DEFINE cv == count["video"]
           ca == count["audio"]
           V(n) == Time("video", n)
           A(n) == Time("audio", n)
           b == Begun
           c == Current("video")
           r == Reach
<1>1. /\ UNCHANGED <<call, found, first, pc, ring>> /\ r' = r /\ Subscribing' = Subscribing
      /\ \A t \in Tracks : owed'[t] \subseteq owed[t] \cup {count[t] + 1}
      /\ \A t \in Tracks : ring[t] = "serving" => owed[t] \subseteq owed'[t]
  <2>1. /\ UNCHANGED <<call, found, first, pc, ring>>
        /\ owed' = owed \/ Store("video") \/ Store("audio")
    BY DEF Writer, StoreVideo, StampVideo, StampAudio, StoreAudio, ringVars, streamVars
  <2>2. /\ \A t \in Tracks : owed'[t] \subseteq owed[t] \cup {count[t] + 1}
        /\ \A t \in Tracks : ring[t] = "serving" => owed[t] \subseteq owed'[t]
    BY <2>1, StoreIs, Counts
  <2> QED BY <2>1, <2>2 DEF Reach, Subscribing
<1>2. Starts'
  <2>1. /\ found["video"] <= count["video"] /\ found["audio"] <= count["audio"]
        /\ count["video"] \in Nat /\ count["audio"] \in Nat
        /\ found["video"] \in Nat /\ found["audio"] \in Nat
    BY Counts DEF FeedInv, Stage
  <2>2. found["video"] <= count["video"] + 1 /\ found["audio"] <= count["audio"] + 1
    BY <2>1
  <2> QED BY <1>1, <2>2 DEF StartInv, Starts, Near, Tracks
<1>3. /\ cv \in Nat /\ ca \in Nat /\ age \in Nat /\ Skew \in Nat /\ Delay \in Nat /\ r \in Int
      /\ b \in Int /\ c \in Int
  BY Counts
<1>4. /\ \A n \in Int : V(n) \in Int /\ V(n + 1) = V(n) + V(1) /\ A(n) \in Int
      /\ V(1) \in Nat
  <2>1. "video" \in Tracks /\ "audio" \in Tracks /\ 1 \in Int
    BY DEF Tracks
  <2>2. \A n \in Int : V(n) \in Int /\ V(n + 1) = V(n) + V(1) /\ A(n) \in Int
    BY <2>1, Clock
  <2> QED BY <2>1, <2>2, Clock
<1>5. CASE StoreVideo
  <2>1. /\ cv' = cv + 1 /\ ca' = ca /\ half = "none" /\ half' = "video"
        /\ IF found["video"] > 0 THEN age' = age + 1 ELSE age' = age
        /\ Subscribing => age < Delay
    <3>1. cv' = cv + 1 /\ ca' = ca
      BY <1>5, Counts, StoreIs DEF StoreVideo
    <3>2. /\ half = "none" /\ half' = "video" /\ (Subscribing => age < Delay)
          /\ IF found["video"] > 0 THEN age' = age + 1 ELSE age' = age
      BY <1>5 DEF StoreVideo, NextFrame
    <3> QED BY <3>1, <3>2
  <2>2. b' = b /\ c' = c
    BY <1>3, <2>1 DEF Begun, Current
  <2>3. Apace'
    BY <2>2 DEF StartInv, Apace
  <2> HIDE DEF V, A, b, c, r, cv, ca
  <2>4. found["video"] > 0 => /\ V(cv) < r + V(1 + age) /\ A(b) < r + V(1 + age) + Skew
    BY DEF StartInv, Ahead, V, A, b, r, cv
  <2>5. V(cv + 1) = V(cv) + V(1) /\ V(1 + (age + 1)) = V(1 + age) + V(1)
    <3>1. 1 + (age + 1) = (1 + age) + 1 /\ 1 + age \in Int /\ cv \in Int
      BY <1>3
    <3> QED BY <1>4, <3>1
  <2>6. /\ V(cv) \in Int /\ V(1 + age) \in Int /\ A(b) \in Int
    <3>1. 1 + age \in Int /\ cv \in Int
      BY <1>3
    <3> QED BY <1>3, <1>4, <3>1
  <2>7. found["video"] > 0 => /\ V(cv') < r + V(1 + age') /\ A(b') < r + V(1 + age') + Skew
    <3>1. found["video"] > 0 => V(1 + age') = V(1 + age) + V(1)
      BY <2>1, <2>5
    <3>2. V(cv') = V(cv) + V(1) /\ A(b') = A(b)
      BY <2>1, <2>2, <2>5
    <3>3. V(1) \in Nat /\ r \in Int /\ Skew \in Nat
      BY <1>3, <1>4
    <3> QED BY <2>4, <2>6, <3>1, <3>2, <3>3
  <2>8. Subscribing => age' <= Delay
    BY <1>3, <2>1
  <2>9. found["video"] = 0 => age' = 0
    BY <2>1 DEF StartInv, Ahead
  <2>10. Ahead'
    BY <1>1, <2>7, <2>8, <2>9 DEF Ahead, V, A, b, r, cv
  <2> QED BY <1>2, <2>3, <2>10 DEF StartInv
<1>6. CASE StampVideo
  <2>1. /\ count' = count /\ age' = age /\ half = "video" /\ half' = "none"
    BY <1>6 DEF StampVideo
  <2>2. b' = b /\ c' = c + 1
    BY <1>3, <2>1 DEF Begun, Current
  <2>3. Ahead'
    BY <1>1, <2>1, <2>2 DEF StartInv, Ahead
  <2> HIDE DEF V, A, b, c, r, cv, ca
  <2>4. A(b) <= V(c + 1) + Skew
    BY DEF StartInv, Apace, V, A, b, c
  <2>5. A(b) <= V((c + 1) + 1) + Skew
    <3>1. c + 1 \in Int
      BY <1>3
    <3>2. V((c + 1) + 1) = V(c + 1) + V(1) /\ A(b) \in Int /\ V(c + 1) \in Int
      BY <1>3, <1>4, <3>1
    <3> QED BY <1>3, <1>4, <2>4, <3>2
  <2>6. Apace'
    BY <2>2, <2>5 DEF Apace, V, A, b, c
  <2> QED BY <1>2, <2>3, <2>6 DEF StartInv
<1>7. CASE StampAudio
  <2>1. /\ count' = count /\ half = "none" /\ half' = "audio"
        /\ IF found["video"] > 0 THEN age' = age + 1 ELSE age' = age
        /\ Subscribing => age < Delay
        /\ A(ca + 1) <= V(cv + 1) + Skew
    BY <1>7 DEF StampAudio, NextFrame, Tracks
  <2>2. b' = ca + 1 /\ b = ca /\ c' = cv
    BY <1>3, <2>1 DEF Begun, Current
  <2>3. Apace'
    BY <2>1, <2>2 DEF Apace
  <2> HIDE DEF V, A, b, c, r, cv, ca
  <2>4. found["video"] > 0 => V(cv) < r + V(1 + age)
    BY DEF StartInv, Ahead, V, r, cv
  <2>5. V(cv + 1) = V(cv) + V(1) /\ V(1 + (age + 1)) = V(1 + age) + V(1)
    <3>1. 1 + (age + 1) = (1 + age) + 1 /\ 1 + age \in Int /\ cv \in Int
      BY <1>3
    <3> QED BY <1>4, <3>1
  <2>6. /\ V(cv) \in Int /\ V(1 + age) \in Int /\ A(ca + 1) \in Int
    <3>1. 1 + age \in Int /\ cv \in Int /\ ca + 1 \in Int
      BY <1>3
    <3> QED BY <1>4, <3>1
  <2>7. found["video"] > 0 => /\ V(cv) < r + V(1 + age') /\ A(b') < r + V(1 + age') + Skew
    <3>1. found["video"] > 0 => V(1 + age') = V(1 + age) + V(1)
      BY <2>1, <2>5
    <3>2. cv' = cv /\ V(cv') = V(cv) /\ A(b') = A(ca + 1)
      BY <2>1, <2>2 DEF cv
    <3>3. V(1) \in Nat /\ r \in Int /\ Skew \in Nat
      BY <1>3, <1>4
    <3> QED BY <2>1, <2>4, <2>5, <2>6, <3>1, <3>2, <3>3
  <2>8. Subscribing => age' <= Delay
    BY <1>3, <2>1
  <2>9. found["video"] = 0 => age' = 0
    BY <2>1 DEF StartInv, Ahead
  <2>10. Ahead'
    BY <1>1, <2>1, <2>7, <2>8, <2>9 DEF Ahead, V, A, b, r, cv
  <2> QED BY <1>2, <2>3, <2>10 DEF StartInv
<1>8. CASE StoreAudio
  <2>1. /\ cv' = cv /\ ca' = ca + 1 /\ half = "audio" /\ half' = "none" /\ age' = age
    BY <1>8, Counts, StoreIs DEF StoreAudio
  <2>2. b' = b /\ c' = c
    BY <1>3, <2>1 DEF Begun, Current
  <2>3. Apace' /\ Ahead'
    BY <1>1, <2>1, <2>2 DEF StartInv, Apace, Ahead
  <2> QED BY <1>2, <2>3 DEF StartInv
<1> QED BY <1>5, <1>6, <1>7, <1>8 DEF Writer

LEMMA LookUpVideoStartInv ==
  ASSUME FeedInv, StartInv, LookUpVideo
  PROVE  StartInv'
<1>0. TypeOK /\ InTurn /\ \A u \in Tracks : Stage(u) /\ Ordered(u)
  BY DEF FeedInv
<1>1. CASE Closed("video")
  <2>1. UNCHANGED <<count, half, age, found, first, owed, pc, ring>> /\ call' = "panicked"
    BY <1>1 DEF LookUpVideo, writerVars, ringVars
  <2> QED BY <2>1, KeepsStart DEF Subscribing, StartInv, Starts, Tracks
<1>2. CASE ~Closed("video")
  <2> DEFINE n == Current("video")
             p == Time("video", n) - Offset
             f == Closest("video", KeyFrames(n), p)
             V(k) == Time("video", k)
             A(k) == Time("audio", k)
             cv == count["video"]
             b == Begun
  <2>1. /\ UNCHANGED <<count, half, age, call, first, owed, ring>>
        /\ call = "video" /\ pc["video"] = "asked" /\ pc'["video"] = "found"
        /\ pc'["audio"] = pc["audio"] /\ found'["audio"] = found["audio"]
        /\ found'["video"] = f
    BY <1>0, <1>2, Counts DEF LookUpVideo, TypeOK, writerVars, ringVars
  <2>2. /\ found["video"] = 0 /\ found["audio"] = 0 /\ age = 0 /\ pc["audio"] = "none"
        /\ owed["video"] = {} /\ first["video"] = 0 /\ first["audio"] = 0
        /\ cv > 1
    <3>1. pc["audio"] = "none" /\ found["video"] = 0 /\ first["video"] = 0 /\ cv > 1
      BY <1>0, <2>1, Counts DEF InTurn, Stage, Early, Before
    <3>2. found["audio"] = 0 /\ first["audio"] = 0 /\ ring["video"] = "none"
      BY <1>0, <2>1, <3>1, Counts DEF Stage, Early, Before
    <3>3. owed["video"] = {}
      BY <1>0, <3>2, Counts DEF Ordered
    <3> QED BY <3>1, <3>2, <3>3 DEF StartInv, Ahead
  <2>3. /\ n \in Nat /\ n > 0 /\ cv <= n + 1 /\ cv \in Nat /\ b \in Int /\ Skew \in Nat
        /\ Offset \in Nat /\ Delay \in Nat
    <3>1. cv \in Nat /\ b \in Int /\ Skew \in Nat /\ Offset \in Nat /\ Delay \in Nat
          /\ (n = cv \/ n = cv - 1)
      BY Counts
    <3> HIDE DEF n
    <3> QED BY <2>2, <3>1
  <2>4. /\ V(n) \in Int /\ V(n + 1) = V(n) + V(1) /\ V(1) \in Nat /\ V(cv) <= V(n + 1)
        /\ A(b) \in Int /\ V(cv) \in Int
    <3>1. "video" \in Tracks /\ "audio" \in Tracks /\ 1 \in Int /\ n \in Int /\ n + 1 \in Int
          /\ cv \in Int
      BY <2>3 DEF Tracks
    <3> HIDE DEF n, b, cv
    <3>2. V(n) \in Int /\ V(n + 1) = V(n) + V(1)
      BY <3>1, Clock
    <3>3. V(1) \in Nat /\ V(cv) \in Int /\ A(b) \in Int
      BY <2>3, <3>1, Clock
    <3>4. V(cv) <= V(n + 1)
      BY <2>3, <3>1, Clock
    <3> QED BY <3>2, <3>3, <3>4
  <2>5. p \in Int /\ p <= V(n)
    <3> HIDE DEF n, V
    <3> QED BY <2>3, <2>4 DEF V
  <2>6. p < V(f) + Gop * Step["video"]
    BY <2>3, <2>5, KeyFrameFound
  <2>7. Reach' = V(f) + Offset + Gop * Step["video"]
    BY <2>1 DEF Reach
  <2>8. V(n) < Reach'
    <3>1. V(f) \in Int /\ Gop * Step["video"] \in Int
      <4>1. 1 \in KeyFrames(n) /\ KeyFrames(n) \subseteq Nat
        BY <2>3 DEF KeyFrames
      <4>2. f \in Nat
        BY <2>5, <4>1, Counts, ClosestIs
      <4>3. Gop \in Int /\ Step["video"] \in Int
        BY Sizes
      <4>4. Gop * Step["video"] \in Int
        BY <4>3, Z3
      <4> HIDE DEF f
      <4> QED BY <4>2, <4>4, Clock, Counts
    <3> DEFINE x == V(f)
               y == Gop * Step["video"]
               z == V(n)
    <3>2. z - Offset < x + y /\ Reach' = x + Offset + y
      BY <2>6, <2>7
    <3>3. x \in Int /\ y \in Int /\ z \in Int
      BY <2>4, <3>1
    <3> HIDE DEF x, y, z
    <3>4. z < Reach'
      BY <2>3, <3>2, <3>3
    <3> QED BY <3>4 DEF z
  <2>9. Reach' \in Int
    BY <2>1, <2>7, NextFeedInv, Counts DEF Next, SubscribeGoesOn
  <2>10. V(cv) < Reach' + V(1) /\ A(b) < Reach' + V(1) + Skew
    <3>1. A(b) <= V(n + 1) + Skew
      BY DEF StartInv, Apace
    <3> HIDE DEF V, A, n, cv, b
    <3> QED BY <2>3, <2>4, <2>8, <2>9, <3>1
  <2>11. Ahead'
    <3>1. count'["video"] = cv /\ Begun' = b /\ age' = 0 /\ 1 + 0 = 1
      BY <2>1, <2>2 DEF Begun
    <3>2. f > 0 /\ 0 <= Delay
      <4>1. 1 \in KeyFrames(n) /\ KeyFrames(n) \subseteq Nat /\ \A k \in KeyFrames(n) : k > 0
        BY <2>3 DEF KeyFrames
      <4>2. f \in KeyFrames(n)
        BY <2>5, <4>1, Counts, ClosestIs
      <4>3. f > 0
        BY <4>1, <4>2
      <4> QED BY <2>3, <4>3
    <3> HIDE DEF f
    <3> QED BY <2>1, <2>10, <3>1, <3>2 DEF Ahead
  <2>12. Apace'
    BY <2>1 DEF StartInv, Apace, Begun, Current
  <2>13. Starts'
    BY <2>1, <2>2 DEF StartInv, Starts
  <2> QED BY <2>11, <2>12, <2>13 DEF StartInv
<1> QED BY <1>1, <1>2

(* Where Subscribe looks for audio, the ring has not moved on too far.      *)
LEMMA AudioRecent ==
  ASSUME FeedInv, StartInv, Subscribing, first["video"] > 0
  PROVE  Time("audio", count["audio"]) < Time("video", first["video"]) + Time("audio", Cap - 2)
<1> DEFINE V(k) == Time("video", k)
           A(k) == Time("audio", k)
           f == found["video"]
           g == first["video"]
           ca == count["audio"]
           b == Begun
           y == Gop * Step["video"]
<1>1. /\ "video" \in Tracks /\ "audio" \in Tracks /\ ca \in Int /\ b \in Int /\ f \in Int /\ g \in Int
      /\ f > 0 /\ age \in Int /\ Delay \in Int /\ Skew \in Int /\ Offset \in Int /\ Cap \in Int
      /\ ca <= b /\ f <= g /\ age <= Delay
  <2>1. f > 0 /\ f <= g /\ age <= Delay
    BY DEF Subscribing, StartInv, Starts, Ahead
  <2>2. b = ca \/ b = ca + 1
    BY Counts
  <2>3. ca \in Int /\ b \in Int
    BY Counts
  <2> HIDE DEF b
  <2>4. ca <= b
    BY <2>2, <2>3
  <2> QED BY <2>1, <2>3, <2>4, Counts DEF b
<1>2. y \in Int
  <2>1. Gop \in Int /\ Step["video"] \in Int
    BY Sizes
  <2> QED BY <2>1, Z3
<1>3. A(b) < V(f) + Offset + y + V(1 + age) + Skew
  BY <1>1 DEF StartInv, Ahead, Reach
<1>4. Offset + y + V(1 + Delay) + Skew <= A(Cap - 2)
  BY Room
<1> HIDE DEF b, f, g, ca, y
<1>5. A(ca) <= A(b) /\ V(f) <= V(g) /\ V(1 + age) <= V(1 + Delay)
  <2>1. 1 + age \in Int /\ 1 + Delay \in Int /\ 1 + age <= 1 + Delay
    BY <1>1
  <2> QED BY <1>1, <2>1, Clock
<1>6. /\ A(ca) \in Int /\ A(b) \in Int /\ V(f) \in Int /\ V(g) \in Int
      /\ V(1 + age) \in Int /\ V(1 + Delay) \in Int /\ A(Cap - 2) \in Int
  <2>1. 1 + age \in Int /\ 1 + Delay \in Int /\ Cap - 2 \in Int
    BY <1>1
  <2> QED BY <1>1, <2>1, Clock
<1> HIDE DEF A, V
<1>7. A(ca) < V(g) + A(Cap - 2)
  BY <1>1, <1>2, <1>3, <1>4, <1>5, <1>6
<1> QED BY <1>7 DEF A, V, ca, g

LEMMA LookUpAudioStartInv ==
  ASSUME FeedInv, StartInv, LookUpAudio
  PROVE  StartInv'
<1>0. TypeOK /\ InTurn /\ \A u \in Tracks : Stage(u) /\ Ordered(u)
  BY DEF FeedInv
<1> DEFINE p == Time("video", first["video"])
           f == Closest("audio", InRing("audio"), p)
           A(k) == Time("audio", k)
           s == Step["audio"]
           ca == count["audio"]
<1>1. CASE Closed("audio") \/ p > A(Current("audio"))
  <2>1. UNCHANGED <<count, half, age, found, first, owed, pc, ring>> /\ call' = "failed"
    BY <1>1 DEF LookUpAudio, writerVars, ringVars
  <2> QED BY <2>1, KeepsStart DEF Subscribing, StartInv, Starts, Tracks
<1>2. CASE ~ (Closed("audio") \/ p > A(Current("audio")))
  <2>1. /\ UNCHANGED <<count, half, age, call, first, owed, ring>>
        /\ call = "audio" /\ pc["audio"] = "asked" /\ pc'["audio"] = "found"
        /\ pc'["video"] = pc["video"] /\ found'["video"] = found["video"]
        /\ found'["audio"] = f
    BY <1>0, <1>2, Counts DEF LookUpAudio, TypeOK, writerVars, ringVars
  <2>2. /\ ring["audio"] = "none" /\ first["audio"] = 0 /\ first["video"] > 0 /\ Subscribing
    <3>1. ring["audio"] = "none" /\ first["audio"] = 0
      BY <1>0, <2>1, Counts DEF Stage, Early, Before
    <3>2. first["video"] > 0 /\ found["video"] > 0
      <4>1. first["video"] > 0 /\ pc["video"] \notin Early
        BY <1>0, <2>1 DEF StartInv, Starts, InTurn
      <4>2. found["video"] # 0 /\ found["video"] \in Nat
        BY <1>0, <4>1, Counts DEF Stage, Early, Before
      <4> QED BY <4>1, <4>2
    <3> QED BY <2>1, <3>1, <3>2 DEF Subscribing
  <2>3. /\ "audio" \in Tracks /\ ca \in Nat /\ Cap \in Int /\ s \in Nat /\ s > 0 /\ p \in Int
        /\ A(1) = s /\ A(ca) \in Int /\ A(ca + 1) \in Int /\ A(ca + 1) = A(ca) + s
        /\ A(Cap - 2) \in Int /\ p > 0
    <3>1. "audio" \in Tracks /\ "video" \in Tracks /\ ca \in Nat /\ Cap \in Int
          /\ first["video"] \in Int /\ Cap - 2 \in Int /\ ca \in Int /\ 1 \in Int /\ 0 \in Int
      BY Counts
    <3> HIDE DEF ca
    <3>2. /\ s \in Nat /\ s > 0 /\ A(1) = s /\ A(ca) \in Int /\ A(Cap - 2) \in Int /\ p \in Int
      BY <3>1, Clock
    <3>3. A(ca + 1) = A(ca) + A(1)
      BY <3>1, Clock
    <3>4. p > 0
      <4>1. Time("video", 0) = 0 /\ Time("video", 0) < Time("video", first["video"])
        BY <2>2, <3>1, Clock
      <4> QED BY <3>2, <4>1
    <3> HIDE DEF p, s, A
    <3> QED BY <3>1, <3>2, <3>3, <3>4
  <2>4. A(ca) < p + A(Cap - 2)
    BY <2>2, AudioRecent
  <2>5. p <= A(ca + 1)
    <3>1. Current("audio") = ca \/ Current("audio") = ca + 1
      BY Counts
    <3>2. ~ (p > A(ca)) \/ ~ (p > A(ca + 1))
      BY <1>2, <3>1
    <3> HIDE DEF p, A, ca
    <3> QED BY <2>3, <3>2
  <2>6. \E g \in InRing("audio") : Distance(A(g), p) <= s
    <3>1. CASE p < s
      <4>1. A(ca) < A(1) + A(Cap - 2)
        <5> HIDE DEF p, s, A, ca
        <5> QED BY <2>3, <2>4, <3>1
      <4>2. ca < Cap - 1
        <5>1. Cap - 2 \in Int /\ 1 \in Int /\ ca \in Int /\ 1 + (Cap - 2) = Cap - 1 /\ Cap - 1 \in Int
          BY <2>3
        <5> HIDE DEF ca
        <5>2. A(1 + (Cap - 2)) = A(1) + A(Cap - 2)
          BY <2>3, <5>1, Clock
        <5>3. A(ca) < A(Cap - 1)
          BY <4>1, <5>1, <5>2
        <5> QED BY <2>3, <5>1, <5>3, Clock
      <4>3. 1 \in InRing("audio")
        <5>1. ca \in InRing("audio")
          BY <2>1, <2>3, Candidates
        <5> QED BY <2>3, <4>2, <5>1 DEF InRing
      <4>4. Distance(A(1), p) = s - p
        <5>1. ~ (A(1) < p)
          BY <2>3, <3>1
        <5> QED BY <2>3, <5>1 DEF Distance
      <4>5. s - p <= s
        <5> HIDE DEF p, s, A, ca
        <5> QED BY <2>3
      <4> QED BY <4>3, <4>4, <4>5
    <3>2. CASE ~ (p < s)
      <4>1. PICK m \in Nat : m > 0 /\ A(m) <= p /\ p < A(m) + s
        <5>1. p >= s
          <6> HIDE DEF p, s
          <6> QED BY <2>3, <3>2
        <5> QED BY <2>3, <5>1, FrameBefore
      <4>2. A(m) \in Int /\ m \in Int
        BY <2>3, Clock
      <4>3. CASE m <= ca
        <5>1. ca < m + 1 + (Cap - 2)
          <6>1. /\ Cap - 2 \in Int /\ m + 1 \in Int /\ 1 \in Int /\ ca \in Int
                /\ m + 1 + (Cap - 2) \in Int
            BY <2>3, <4>2
          <6>2. A(m + 1) = A(m) + A(1) /\ A(m + 1 + (Cap - 2)) = A(m + 1) + A(Cap - 2)
            <7>1. A(m + 1) = A(m) + A(1)
              BY <2>3, <4>2, <6>1, Clock
            <7> DEFINE x == m + 1
                       y == Cap - 2
            <7>2. x \in Int /\ y \in Int /\ "audio" \in Tracks
              BY <2>3, <6>1
            <7> HIDE DEF x, y
            <7>3. A(x + y) = A(x) + A(y)
              BY <7>2, Clock
            <7> QED BY <7>1, <7>3 DEF x, y
          <6>3. A(ca) < A(m + 1 + (Cap - 2))
            <7> HIDE DEF p, s, A, ca
            <7> QED BY <2>3, <2>4, <4>1, <4>2, <6>2
          <6> HIDE DEF ca
          <6> QED BY <2>3, <6>1, <6>3, Clock
        <5>2. m \in InRing("audio")
          <6>1. m > ca - Cap /\ m \in 1 .. ca
            <7> HIDE DEF ca
            <7> QED BY <2>3, <4>1, <4>3, <5>1
          <6> QED BY <6>1 DEF InRing
        <5>3. Distance(A(m), p) = p - A(m)
          <6>1. A(m) < p \/ A(m) = p
            <7> HIDE DEF p, A
            <7> QED BY <2>3, <4>1, <4>2
          <6>2. A(m) = p => A(m) - p = p - A(m)
            BY <4>2
          <6> QED BY <6>1, <6>2 DEF Distance
        <5>4. p - A(m) <= s
          <6> HIDE DEF p, A, s
          <6> QED BY <2>3, <4>1, <4>2
        <5> QED BY <5>2, <5>3, <5>4
      <4>4. CASE ~ (m <= ca)
        <5>1. A(ca + 1) <= A(m)
          <6>1. ca + 1 <= m /\ ca + 1 \in Int /\ m \in Int /\ "audio" \in Tracks
            <7> HIDE DEF ca
            <7> QED BY <2>3, <4>2, <4>4
          <6> DEFINE k == ca + 1
          <6> HIDE DEF k
          <6>2. k <= m /\ k \in Int /\ m \in Int /\ "audio" \in Tracks
            BY <6>1 DEF k
          <6>3. A(k) <= A(m)
            BY <6>2, Clock
          <6> QED BY <6>3 DEF k
        <5>2. p = A(ca) + s
          <6> HIDE DEF p, A, s, ca
          <6> QED BY <2>3, <2>5, <4>1, <4>2, <5>1
        <5>3. Distance(A(ca), p) = s
          <6>1. A(ca) < p /\ p - A(ca) = s
            <7> HIDE DEF p, A, s, ca
            <7> QED BY <2>3, <5>2
          <6> QED BY <6>1 DEF Distance
        <5>4. ca \in InRing("audio") /\ s <= s
          BY <2>1, <2>3, Candidates
        <5> QED BY <5>3, <5>4
      <4> QED BY <4>3, <4>4
    <3> QED BY <3>1, <3>2
  <2>7. PICK g \in InRing("audio") : Distance(A(g), p) <= s
    BY <2>6
  <2>8. Distance(A(f), p) <= s
    <3>1. InRing("audio") \subseteq Nat
      BY DEF InRing
    <3>2. f \in InRing("audio") /\ Distance(A(f), p) <= Distance(A(g), p)
      BY <2>3, <2>7, <3>1, ClosestIs
    <3>3. Distance(A(f), p) \in Int /\ Distance(A(g), p) \in Int
      <4>1. f \in Nat /\ g \in Nat
        BY <2>7, <3>1, <3>2
      <4> HIDE DEF f, p
      <4>2. "audio" \in Tracks /\ p \in Int
        BY <2>3
      <4>3. \A k \in Nat : Distance(A(k), p) \in Nat
        BY <4>2, Closeness
      <4> QED BY <4>1, <4>3
    <3> HIDE DEF A, s, p, f
    <3> QED BY <2>3, <2>7, <3>2, <3>3
  <2>9. Near(found["audio"])'
    BY <2>1, <2>8 DEF Near
  <2>10. Starts'
    BY <2>1, <2>2, <2>9 DEF StartInv, Starts
  <2>11. Apace' /\ Ahead'
    BY <2>1 DEF StartInv, Apace, Ahead, Begun, Current, Reach, Subscribing
  <2> QED BY <2>10, <2>11 DEF StartInv
<1> QED BY <1>1, <1>2

(* The first frame of a stream is the oldest the ring has given.            *)
LEMMA TakeFirstStartInv ==
  ASSUME FeedInv, StartInv, NEW t \in Tracks, TakeFirst(t)
  PROVE  StartInv'
<1>0. TypeOK /\ InTurn /\ \A u \in Tracks : Stage(u) /\ Ordered(u)
  BY DEF FeedInv
<1>1. /\ UNCHANGED <<count, half, age, found, ring>> /\ pc[t] = "waiting" /\ call = t
  BY <1>0 DEF TakeFirst, Stage, writerVars
<1>2. CASE ring[t] = "left" /\ call' = "failed" /\ pc' = [pc EXCEPT ![t] = "ended"]
           /\ UNCHANGED <<first, owed>>
  <2>1. pc'["audio"] = "waiting" => pc["audio"] = "waiting"
    BY <1>0, <1>2, Counts DEF TypeOK
  <2> QED BY <1>1, <1>2, <2>1, KeepsStart DEF Subscribing, StartInv, Starts
<1>3. ASSUME NEW f \in owed[t], Receives(t, f), first' = [first EXCEPT ![t] = f],
             pc' = [pc EXCEPT ![t] = "start"],
             call' = IF t = "video" THEN "audio" ELSE "done"
      PROVE  StartInv'
  <2>1. /\ \A g \in owed[t] : f <= g
        /\ \A u \in Tracks : /\ owed'[u] = IF u = t THEN owed[u] \ {f} ELSE owed[u]
                             /\ first'[u] = IF u = t THEN f ELSE first[u]
                             /\ pc'[u] = IF u = t THEN "start" ELSE pc[u]
    BY <1>0, <1>3 DEF Receives, TypeOK
  <2>2. f \in Nat /\ f > 0
    BY <1>0, <1>3, Types DEF Ordered
  <2>3. ring[t] = "serving"
    BY <1>0, <1>3 DEF Ordered
  <2>4. Apace'
    BY <1>1 DEF StartInv, Apace, Begun, Current
  <2>5. Subscribing' => Subscribing
    BY <1>1, <1>3, Counts DEF Subscribing, Tracks
  <2>6. Ahead'
    BY <1>1, <2>5 DEF StartInv, Ahead, Begun, Reach
  <2>7. CASE t = "video"
    <3>1. pc["audio"] = "none"
      BY <1>0, <1>1, <2>7 DEF InTurn, Early
    <3>2. found["audio"] = 0 /\ first["audio"] = 0 /\ ring["audio"] = "none"
      BY <1>0, <3>1, Counts DEF Stage, Early, Before
    <3>3. found["video"] <= f
      BY <2>7 DEF StartInv, Starts
    <3>4. /\ owed'["video"] \subseteq owed["video"] /\ first'["video"] = f
          /\ first'["audio"] = 0 /\ pc'["audio"] = "none" /\ call' = "audio"
      BY <1>3, <2>1, <2>7, <3>1, <3>2, Counts
    <3>5. Starts'
      BY <1>1, <2>2, <3>2, <3>3, <3>4 DEF StartInv, Starts
    <3> QED BY <2>4, <2>6, <3>5 DEF StartInv
  <2>8. CASE t = "audio"
    <3>1. /\ found["audio"] \in owed["audio"] /\ \A g \in owed["audio"] : found["audio"] <= g
      BY <1>1, <2>3, <2>8 DEF StartInv, Starts
    <3>2. f = found["audio"]
      <4>1. f <= found["audio"] /\ found["audio"] <= f
        BY <2>1, <2>8, <3>1
      <4>2. found["audio"] \in Nat
        BY Counts
      <4> QED BY <2>2, <4>1, <4>2
    <3>3. /\ owed'["video"] = owed["video"] /\ first'["video"] = first["video"]
          /\ first'["audio"] = f /\ pc'["audio"] = "start" /\ call' = "done"
      BY <1>3, <2>1, <2>8, Counts
    <3>4. first["video"] > 0
      BY <1>1, <2>8 DEF StartInv, Starts
    <3>5. Starts'
      BY <1>1, <2>2, <3>2, <3>3, <3>4 DEF StartInv, Starts, Near
    <3> QED BY <2>4, <2>6, <3>5 DEF StartInv
  <2> QED BY <2>7, <2>8 DEF Tracks
<1> QED BY <1>2, <1>3 DEF TakeFirst

(* The copy of the ring has all frames from the one found.                  *)
LEMMA CopyRingStartInv ==
  ASSUME FeedInv, StartInv, NEW t \in Tracks, CopyRing(t)
  PROVE  StartInv'
<1>0. TypeOK /\ InTurn /\ \A u \in Tracks : Stage(u) /\ Ordered(u)
  BY DEF FeedInv
<1>1. /\ UNCHANGED <<count, half, age, found, first, pc, call>> /\ ring[t] = "started"
      /\ \A u \in Tracks : ring'[u] = IF u = t THEN "serving" ELSE ring[u]
  BY <1>0 DEF CopyRing, writerVars, streamVars, TypeOK
<1>2. pc[t] = "waiting" /\ call = t
  BY <1>0, <1>1 DEF Stage
<1>3. Subscribing' => Subscribing
  BY <1>1, Counts DEF Subscribing
<1>4. PICK n \in Nat : /\ n = (count[t] + 1 - found[t]) % Cap
                       /\ n <= count[t] + 1 - found[t]
                       /\ 0 < found[t] /\ found[t] <= count[t] - n + 1
                       /\ owed' = [owed EXCEPT ![t] = count[t] - n + 1 .. count[t]]
  BY CopyIs
<1>5. /\ owed'[t] = count[t] - n + 1 .. count[t]
      /\ \A u \in Tracks : u # t => owed'[u] = owed[u]
  BY <1>0, <1>4 DEF TypeOK
<1>6. count[t] \in Nat /\ found[t] \in Nat /\ found[t] > 0 /\ found[t] <= count[t]
      /\ Cap \in Nat /\ Cap > 0
  BY <1>0, <1>4, Types, Sizes DEF Stage
<1>7. \A g \in owed'[t] : found[t] <= g
  BY <1>4, <1>5, <1>6
<1>8. CASE t = "video"
  <2>1. pc["audio"] = "none"
    BY <1>0, <1>2, <1>8 DEF InTurn, Early
  <2> QED BY <1>1, <1>3, <1>7, <1>8, <2>1, KeepsStart
<1>9. CASE t = "audio"
  <2> DEFINE f == found["audio"]
             ca == count["audio"]
             p == Time("video", first["video"])
             A(k) == Time("audio", k)
             s == Step["audio"]
  <2>1. first["video"] > 0 /\ Near(f)
    BY <1>2, <1>6, <1>9 DEF StartInv, Starts
  <2>2. Subscribing
    <3>1. pc["video"] \notin Early
      BY <1>0, <1>2, <1>9 DEF InTurn
    <3>2. found["video"] # 0 /\ found["video"] \in Nat
      BY <1>0, <3>1, Counts DEF Stage, Early, Before
    <3> QED BY <1>1, <1>2, <1>9, <3>2 DEF Subscribing
  <2>3. A(ca) < p + A(Cap - 2)
    BY <2>1, <2>2, AudioRecent
  <2>4. /\ f \in Int /\ ca \in Int /\ Cap - 2 \in Int /\ 1 \in Int /\ f + 1 \in Int
        /\ f + 1 + (Cap - 2) \in Int /\ "audio" \in Tracks /\ "video" \in Tracks
        /\ first["video"] \in Int
    BY <1>6, <1>9, Counts
  <2> HIDE DEF f, ca
  <2>5. /\ A(f) \in Int /\ A(ca) \in Int /\ A(Cap - 2) \in Int /\ p \in Int /\ s \in Int
        /\ A(f + 1) = A(f) + A(1) /\ A(1) = s
        /\ A(f + 1 + (Cap - 2)) = A(f + 1) + A(Cap - 2)
    <3>1. A(f) \in Int /\ A(ca) \in Int /\ A(f + 1) = A(f) + A(1) /\ A(1) = s
      <4>1. A(f + 1) = A(f) + A(1)
        BY <2>4, Clock
      <4>2. A(f) \in Int /\ A(ca) \in Int
        BY <2>4, Clock
      <4>3. A(1) = s
        BY <2>4, Clock
      <4> QED BY <4>1, <4>2, <4>3
    <3>2. p \in Int /\ s \in Int
      <4>1. p \in Int
        BY <2>4, Clock
      <4> QED BY <4>1, Sizes
    <3> DEFINE x == f + 1
               y == Cap - 2
    <3>3. x \in Int /\ y \in Int /\ "audio" \in Tracks
      BY <2>4
    <3> HIDE DEF x, y
    <3>4. A(x + y) = A(x) + A(y) /\ A(y) \in Int
      BY <3>3, Clock
    <3> QED BY <3>1, <3>2, <3>4 DEF x, y
  <2>6. p <= A(f) + s
    <3>1. Distance(A(f), p) <= s
      BY <2>1 DEF Near
    <3> HIDE DEF A, p, s
    <3>2. CASE A(f) < p
      BY <2>5, <3>1, <3>2 DEF Distance
    <3>3. CASE ~ (A(f) < p)
      <4>1. A(f) - p <= s
        BY <3>1, <3>3 DEF Distance
      <4>2. s >= 0
        BY Sizes DEF s
      <4> QED BY <2>5, <3>3, <4>2
    <3> QED BY <3>2, <3>3
  <2>7. A(ca) < A(f + 1 + (Cap - 2))
    <3> HIDE DEF A, p, s
    <3> QED BY <2>3, <2>5, <2>6
  <2>8. ca < f + 1 + (Cap - 2)
    <3> DEFINE k == f + 1 + (Cap - 2)
    <3> HIDE DEF k
    <3>1. k \in Int /\ A(ca) < A(k)
      BY <2>4, <2>7 DEF k
    <3>2. ca < k
      BY <2>4, <3>1, Clock
    <3> QED BY <3>2 DEF k
  <2>9. n = ca + 1 - f
    <3> DEFINE d == ca + 1 - f
    <3>1. f <= ca /\ n = d % Cap
      BY <1>4, <1>6, <1>9 DEF f, ca
    <3>2. d \in Int /\ 0 <= d /\ d < Cap
      BY <1>6, <2>4, <2>8, <3>1
    <3> HIDE DEF d
    <3>3. d % Cap = d
      BY <1>6, <3>2, Z3
    <3> QED BY <3>1, <3>3 DEF d
  <2>10. f \in owed'["audio"]
    <3>1. f <= ca /\ ca - n + 1 = f
      BY <1>6, <1>9, <2>4, <2>9 DEF f, ca
    <3>2. owed'["audio"] = f .. ca
      BY <1>5, <1>9, <3>1 DEF ca
    <3> QED BY <2>4, <3>1, <3>2
  <2>11. owed'["video"] = owed["video"]
    BY <1>5, <1>9, Counts
  <2>12. \A g \in owed'["video"] : found["video"] <= g
    BY <2>11 DEF StartInv, Starts
  <2> QED BY <1>1, <1>3, <1>7, <1>9, <2>10, <2>12, KeepsStart DEF f
<1> QED BY <1>8, <1>9 DEF Tracks

(* The ring skips a frame only behind an older one.                         *)
LEMMA SkipFrameStartInv ==
  ASSUME FeedInv, StartInv, NEW t \in Tracks, SkipFrame(t)
  PROVE  StartInv'
<1>0. TypeOK /\ \A u \in Tracks : Stage(u) /\ Ordered(u)
  BY DEF FeedInv
<1>1. UNCHANGED <<count, half, age, found, first, pc, call, ring>>
  BY DEF SkipFrame, writerVars, streamVars
<1>2. PICK f \in owed[t] : /\ owed' = [owed EXCEPT ![t] = owed[t] \ {f}]
                           /\ \E h \in owed[t] : h < f
  BY SkipIs
<1>3. \A u \in Tracks : owed'[u] = IF u = t THEN owed[u] \ {f} ELSE owed[u]
  BY <1>0, <1>2 DEF TypeOK
<1>4. \A g \in owed'["video"] : found["video"] <= g
  BY <1>3, Counts DEF StartInv, Starts
<1>5. pc'["audio"] = "waiting" /\ ring'["audio"] = "serving" =>
        found["audio"] \in owed'["audio"] /\ \A g \in owed'["audio"] : found["audio"] <= g
  <2> SUFFICES ASSUME pc["audio"] = "waiting", ring["audio"] = "serving"
               PROVE  /\ found["audio"] \in owed'["audio"]
                      /\ \A g \in owed'["audio"] : found["audio"] <= g
    BY <1>1
  <2>1. /\ found["audio"] \in owed["audio"] /\ \A g \in owed["audio"] : found["audio"] <= g
    BY DEF StartInv, Starts
  <2>2. CASE t = "audio"
    <3>1. PICK h \in owed["audio"] : h < f
      BY <1>2, <2>2
    <3>2. h \in Nat /\ f \in Nat /\ found["audio"] \in Nat
      BY <1>0, <2>2, Types, Counts
    <3>3. found["audio"] # f
      BY <2>1, <3>1, <3>2
    <3> QED BY <1>3, <2>1, <2>2, <3>3, Counts
  <2>3. CASE t # "audio"
    BY <1>3, <2>1, <2>3, Counts
  <2> QED BY <2>2, <2>3
<1> QED BY <1>1, <1>4, <1>5, KeepsStart DEF Subscribing

(* All other steps leave what Subscribe has found alone.                    *)
LEMMA OtherStartInv ==
  ASSUME FeedInv, StartInv, NEW t \in Tracks,
         Ask(t) \/ OpenRing(t) \/ LeaveRing(t) \/ StreamGoroutine(t) \/ UpstreamDone \/ Close
         \/ UNCHANGED vars
  PROVE  StartInv'
<1>0. TypeOK /\ \A u \in Tracks : Stage(u) /\ Ordered(u)
  BY DEF FeedInv
<1>1. CASE Ask(t)
  <2>1. /\ UNCHANGED <<count, half, age, found, first, owed, ring>>
        /\ call' = t \/ call' = "failed"
        /\ \A u \in Tracks : pc'[u] = pc[u] \/ pc'[u] = "asked"
        /\ call = IF t = "video" THEN "idle" ELSE "audio"
    BY <1>0, <1>1 DEF Ask, writerVars, ringVars, TypeOK
  <2>2. found["video"] = 0 \/ call = "audio"
    <3>1. CASE t = "video"
      BY <1>0, <1>1, <3>1, Counts DEF Ask, Stage, Before
    <3>2. CASE t # "video"
      BY <2>1, <3>2
    <3> QED BY <3>1, <3>2
  <2>3. Subscribing' => Subscribing
    BY <2>1, <2>2, Counts DEF Subscribing
  <2>4. call' = call \/ call' \notin {"audio", "done"}
    BY <2>1 DEF Tracks
  <2>5. pc'["audio"] = "waiting" => pc["audio"] = "waiting"
    BY <2>1, Counts
  <2> QED BY <2>1, <2>3, <2>4, <2>5, KeepsStart DEF StartInv, Starts
<1>2. CASE OpenRing(t)
  <2>1. /\ UNCHANGED <<count, half, age, found, first, owed>>
        /\ call' = call \/ call' = "panicked"
        /\ \A u \in Tracks : ring'[u] = ring[u] \/ (u = t /\ ring'[u] = "started")
        /\ call = t /\ pc[t] = "found"
        /\ \A u \in Tracks : pc'[u] = pc[u] \/ (u = t /\ ring'[u] = ring[u])
                             \/ (u = t /\ ring'[u] = "started")
    BY <1>0, <1>2 DEF OpenRing, writerVars, TypeOK
  <2>2. ring[t] = "none"
    BY <1>0, <2>1 DEF Stage, Before
  <2>3. Subscribing' => Subscribing
    BY <2>1, <2>2, Counts DEF Subscribing
  <2>4. pc'["audio"] = "waiting" /\ ring'["audio"] = "serving" =>
          pc["audio"] = "waiting" /\ ring["audio"] = "serving"
    BY <2>1, <2>2, Counts
  <2> QED BY <2>1, <2>3, <2>4, KeepsStart DEF StartInv, Starts
<1>3. CASE LeaveRing(t)
  <2>1. /\ UNCHANGED <<count, half, age, found, first, pc, call>> /\ ring[t] = "serving"
        /\ \A u \in Tracks : /\ ring'[u] = IF u = t THEN "left" ELSE ring[u]
                             /\ owed'[u] = IF u = t THEN {} ELSE owed[u]
    BY <1>0, <1>3 DEF LeaveRing, writerVars, streamVars, TypeOK
  <2>2. Subscribing' => Subscribing
    BY <2>1, Counts DEF Subscribing
  <2>3. \A g \in owed'["video"] : found["video"] <= g
    BY <2>1, Counts DEF StartInv, Starts
  <2>4. pc'["audio"] = "waiting" /\ ring'["audio"] = "serving" =>
          found["audio"] \in owed'["audio"] /\ \A g \in owed'["audio"] : found["audio"] <= g
    BY <2>1, Counts DEF StartInv, Starts
  <2> QED BY <2>1, <2>2, <2>3, <2>4, KeepsStart
<1>4. CASE StreamGoroutine(t)
  <2>1. /\ UNCHANGED <<count, half, age, found, first, ring, call>>
        /\ \A u \in Tracks : pc'[u] = pc[u] \/ pc'[u] # "waiting"
    BY <1>0, <1>4 DEF StreamGoroutine, Start, Collect, Flush, Relay, End, writerVars, ringVars,
                      TypeOK
  <2>2. \A u \in Tracks : \/ owed'[u] = owed[u]
                          \/ owed'[u] \subseteq owed[u] /\ pc[u] # "waiting"
    <3>1. owed' = owed \/ \E f : owed' = [owed EXCEPT ![t] = @ \ {f}] /\ pc[t] # "waiting"
      BY <1>4 DEF StreamGoroutine, Start, Collect, Flush, Relay, End, ringVars, Receives
    <3> QED BY <1>0, <3>1 DEF TypeOK
  <2>3. \A g \in owed'["video"] : found["video"] <= g
    BY <2>2, Counts DEF StartInv, Starts
  <2>4. pc'["audio"] = "waiting" /\ ring'["audio"] = "serving" =>
          found["audio"] \in owed'["audio"] /\ \A g \in owed'["audio"] : found["audio"] <= g
    BY <2>1, <2>2, Counts DEF StartInv, Starts
  <2> QED BY <2>1, <2>3, <2>4, KeepsStart DEF Subscribing
<1>5. CASE UpstreamDone \/ Close \/ UNCHANGED vars
  <2>1. UNCHANGED <<count, half, age, found, first, ring, call, pc, owed>>
    BY <1>5 DEF UpstreamDone, Close, vars, writerVars, ringVars, streamVars
  <2> QED BY <2>1, KeepsStart DEF Subscribing, StartInv, Starts
<1> QED BY <1>1, <1>2, <1>3, <1>4, <1>5

LEMMA NextStartInv ==
  ASSUME FeedInv, StartInv, [Next]_vars
  PROVE  StartInv'
<1>1. CASE Writer
  BY <1>1, WriterStartInv, NextFeedInv
<1>2. CASE LookUpVideo \/ LookUpAudio
  BY <1>2, LookUpVideoStartInv, LookUpAudioStartInv
<1>3. ASSUME NEW t \in Tracks, TakeFirst(t) \/ CopyRing(t) \/ SkipFrame(t)
      PROVE  StartInv'
  BY <1>3, TakeFirstStartInv, CopyRingStartInv, SkipFrameStartInv
<1>4. ASSUME NEW t \in Tracks,
             Ask(t) \/ OpenRing(t) \/ LeaveRing(t) \/ StreamGoroutine(t) \/ UpstreamDone \/ Close
             \/ UNCHANGED vars
      PROVE  StartInv'
  BY <1>4, OtherStartInv
<1>5. "video" \in Tracks /\ "audio" \in Tracks
  BY DEF Tracks
<1> QED BY <1>1, <1>2, <1>3, <1>4, <1>5 DEF Next, SubscribeGoesOn, RingGoroutine

LEMMA VideoFeedStep ==
  ASSUME TrackStep("video")
  PROVE  [VideoFeed!Next]_VideoFeed!vars
<1> DEFINE due == [t \in {"video"} |-> OnTheWay(t)]
           seen == [t \in {"video"} |-> out[t]]
<1>0. /\ due["video"] = OnTheWay("video") /\ seen["video"] = out["video"]
      /\ due' = [t \in {"video"} |-> OnTheWay(t)'] /\ seen' = [t \in {"video"} |-> out'[t]]
  OBVIOUS
<1>1. CASE SameView("video")
  BY <1>1 DEF SameView, VideoFeed!vars
<1>2. CASE Publishes("video")
  BY <1>2 DEF Publishes, VideoFeed!Next, VideoFeed!Publish, Joined
<1>3. CASE Joins("video")
  <2>1. PICK f \in 1 .. count["video"] + 1 : OnTheWay("video")' = f .. count["video"]
    BY <1>3 DEF Joins
  <2>2. due' = [due EXCEPT !["video"] = f .. count["video"]]
    BY <2>1
  <2>3. "video" \notin Joined("video") /\ Joined("video")' = Joined("video") \cup {"video"}
    BY <1>3 DEF Joins, Joined
  <2>4. seen' = seen /\ seen["video"] = <<>> /\ count'["video"] = count["video"]
    BY <1>3 DEF Joins
  <2>5. VideoFeed!Join("video")
    BY <2>1, <2>2, <2>3, <2>4 DEF VideoFeed!Join
  <2> QED BY <2>5 DEF VideoFeed!Next
<1>4. CASE Delivers("video")
  <2>1. PICK f \in OnTheWay("video") : /\ \A g \in OnTheWay("video") : f <= g
                            /\ OnTheWay("video")' = OnTheWay("video") \ {f}
                            /\ out'["video"] = Append(out["video"], f)
    BY <1>4 DEF Delivers
  <2>2. due' = [due EXCEPT !["video"] = due["video"] \ {f}]
    BY <2>1
  <2>3. seen' = [seen EXCEPT !["video"] = Append(seen["video"], f)]
    BY <2>1
  <2>4. count'["video"] = count["video"] /\ Joined("video")' = Joined("video")
    BY <1>4 DEF Delivers
  <2>5. VideoFeed!Deliver("video")
    BY <2>1, <2>2, <2>3, <2>4 DEF VideoFeed!Deliver
  <2> QED BY <2>5 DEF VideoFeed!Next
<1>5. CASE LosesSome("video")
  <2> DEFINE lost == [r \in {"video"} |-> OnTheWay("video") \ OnTheWay("video")']
  <2>1. UNION {due[r] : r \in {"video"}} = OnTheWay("video")
    OBVIOUS
  <2>2. lost \in [{"video"} -> SUBSET UNION {due[r] : r \in {"video"}}]
    BY <2>1
  <2>3. due' = [r \in {"video"} |-> due[r] \ lost[r]]
    BY <1>5 DEF LosesSome
  <2>4. count'["video"] = count["video"] /\ Joined("video")' = Joined("video") /\ seen' = seen
    BY <1>5 DEF LosesSome
  <2>5. VideoFeed!Lose
    BY <2>2, <2>3, <2>4 DEF VideoFeed!Lose
  <2> QED BY <2>5 DEF VideoFeed!Next
<1>6. CASE Leaves("video")
  <2>1. Joined("video") = {"video"} /\ Joined("video")' = {}
    BY <1>6 DEF Leaves, Joined
  <2>2. count'["video"] = count["video"] /\ seen' = seen
    BY <1>6 DEF Leaves
  <2>3. due' = [r \in {"video"} |-> IF r \in {"video"} THEN due'[r] ELSE due[r]]
    OBVIOUS
  <2>4. \A r \in {"video"} : due'[r] \subseteq due[r]
    BY <1>6 DEF Leaves
  <2>5. VideoFeed!Leave
    BY <2>1, <2>2, <2>3, <2>4 DEF VideoFeed!Leave
  <2> QED BY <2>5 DEF VideoFeed!Next
<1> QED BY <1>1, <1>2, <1>3, <1>4, <1>5, <1>6 DEF TrackStep

LEMMA VideoFeedInit == Init => VideoFeed!Init
<1> SUFFICES ASSUME Init PROVE VideoFeed!Init
  OBVIOUS
<1>1. /\ count["video"] = 0 /\ ring["video"] = "none" /\ owed["video"] = {}
      /\ pre["video"] = <<>> /\ pc["video"] = "none" /\ out["video"] = <<>>
  BY DEF Init, Tracks
<1>2. Range(<<>>) = {}
  BY DEF Range
<1>3. OnTheWay("video") = {} /\ Joined("video") = {}
  BY <1>1, <1>2 DEF OnTheWay, Joined
<1> QED BY <1>1, <1>3 DEF VideoFeed!Init

LEMMA AudioFeedStep ==
  ASSUME TrackStep("audio")
  PROVE  [AudioFeed!Next]_AudioFeed!vars
<1> DEFINE due == [t \in {"audio"} |-> OnTheWay(t)]
           seen == [t \in {"audio"} |-> out[t]]
<1>0. /\ due["audio"] = OnTheWay("audio") /\ seen["audio"] = out["audio"]
      /\ due' = [t \in {"audio"} |-> OnTheWay(t)'] /\ seen' = [t \in {"audio"} |-> out'[t]]
  OBVIOUS
<1>1. CASE SameView("audio")
  BY <1>1 DEF SameView, AudioFeed!vars
<1>2. CASE Publishes("audio")
  BY <1>2 DEF Publishes, AudioFeed!Next, AudioFeed!Publish, Joined
<1>3. CASE Joins("audio")
  <2>1. PICK f \in 1 .. count["audio"] + 1 : OnTheWay("audio")' = f .. count["audio"]
    BY <1>3 DEF Joins
  <2>2. due' = [due EXCEPT !["audio"] = f .. count["audio"]]
    BY <2>1
  <2>3. "audio" \notin Joined("audio") /\ Joined("audio")' = Joined("audio") \cup {"audio"}
    BY <1>3 DEF Joins, Joined
  <2>4. seen' = seen /\ seen["audio"] = <<>> /\ count'["audio"] = count["audio"]
    BY <1>3 DEF Joins
  <2>5. AudioFeed!Join("audio")
    BY <2>1, <2>2, <2>3, <2>4 DEF AudioFeed!Join
  <2> QED BY <2>5 DEF AudioFeed!Next
<1>4. CASE Delivers("audio")
  <2>1. PICK f \in OnTheWay("audio") : /\ \A g \in OnTheWay("audio") : f <= g
                            /\ OnTheWay("audio")' = OnTheWay("audio") \ {f}
                            /\ out'["audio"] = Append(out["audio"], f)
    BY <1>4 DEF Delivers
  <2>2. due' = [due EXCEPT !["audio"] = due["audio"] \ {f}]
    BY <2>1
  <2>3. seen' = [seen EXCEPT !["audio"] = Append(seen["audio"], f)]
    BY <2>1
  <2>4. count'["audio"] = count["audio"] /\ Joined("audio")' = Joined("audio")
    BY <1>4 DEF Delivers
  <2>5. AudioFeed!Deliver("audio")
    BY <2>1, <2>2, <2>3, <2>4 DEF AudioFeed!Deliver
  <2> QED BY <2>5 DEF AudioFeed!Next
<1>5. CASE LosesSome("audio")
  <2> DEFINE lost == [r \in {"audio"} |-> OnTheWay("audio") \ OnTheWay("audio")']
  <2>1. UNION {due[r] : r \in {"audio"}} = OnTheWay("audio")
    OBVIOUS
  <2>2. lost \in [{"audio"} -> SUBSET UNION {due[r] : r \in {"audio"}}]
    BY <2>1
  <2>3. due' = [r \in {"audio"} |-> due[r] \ lost[r]]
    BY <1>5 DEF LosesSome
  <2>4. count'["audio"] = count["audio"] /\ Joined("audio")' = Joined("audio") /\ seen' = seen
    BY <1>5 DEF LosesSome
  <2>5. AudioFeed!Lose
    BY <2>2, <2>3, <2>4 DEF AudioFeed!Lose
  <2> QED BY <2>5 DEF AudioFeed!Next
<1>6. CASE Leaves("audio")
  <2>1. Joined("audio") = {"audio"} /\ Joined("audio")' = {}
    BY <1>6 DEF Leaves, Joined
  <2>2. count'["audio"] = count["audio"] /\ seen' = seen
    BY <1>6 DEF Leaves
  <2>3. due' = [r \in {"audio"} |-> IF r \in {"audio"} THEN due'[r] ELSE due[r]]
    OBVIOUS
  <2>4. \A r \in {"audio"} : due'[r] \subseteq due[r]
    BY <1>6 DEF Leaves
  <2>5. AudioFeed!Leave
    BY <2>1, <2>2, <2>3, <2>4 DEF AudioFeed!Leave
  <2> QED BY <2>5 DEF AudioFeed!Next
<1> QED BY <1>1, <1>2, <1>3, <1>4, <1>5, <1>6 DEF TrackStep

LEMMA AudioFeedInit == Init => AudioFeed!Init
<1> SUFFICES ASSUME Init PROVE AudioFeed!Init
  OBVIOUS
<1>1. /\ count["audio"] = 0 /\ ring["audio"] = "none" /\ owed["audio"] = {}
      /\ pre["audio"] = <<>> /\ pc["audio"] = "none" /\ out["audio"] = <<>>
  BY DEF Init, Tracks
<1>2. Range(<<>>) = {}
  BY DEF Range
<1>3. OnTheWay("audio") = {} /\ Joined("audio") = {}
  BY <1>1, <1>2 DEF OnTheWay, Joined
<1> QED BY <1>1, <1>3 DEF AudioFeed!Init

-----------------------------------------------------------------------------
(* The theorems.                                                            *)

LEMMA AlwaysFeedInv == Spec => []FeedInv
<1>1. Init => FeedInv
  BY InitFeedInv
<1>2. FeedInv /\ [Next]_vars => FeedInv'
  BY NextFeedInv
<1> QED BY <1>1, <1>2, PTL DEF Spec

LEMMA AlwaysHistoryInv == Spec => []HistoryInv
<1>1. Init => HistoryInv
  BY InitHistoryInv
<1>2. FeedInv /\ HistoryInv /\ [Next]_vars => HistoryInv'
  BY NextHistoryInv
<1> QED BY <1>1, <1>2, AlwaysFeedInv, PTL DEF Spec

(* Every variable has values of its type, whatever the goroutines of the    *)
(* ring and of the sub-buffer, the writer and Close do in between.          *)
THEOREM TypeCorrect == Spec => []TypeOK
<1>1. FeedInv => TypeOK
  BY DEF FeedInv
<1> QED BY <1>1, AlwaysFeedInv, PTL

(* The prebuffer and the change to live frames keep what the ring promises: *)
(* each track gives the viewer frames in order, none twice and none after a *)
(* later one.                                                               *)
THEOREM TracksImplementFeed == Spec => FeedSpec
<1>1. Init => VideoFeed!Init /\ AudioFeed!Init
  BY VideoFeedInit, AudioFeedInit
<1>2. FeedInv /\ [Next]_vars => [VideoFeed!Next]_VideoFeed!vars
  BY NextView, VideoFeedStep DEF Tracks
<1>3. FeedInv /\ [Next]_vars => [AudioFeed!Next]_AudioFeed!vars
  BY NextView, AudioFeedStep DEF Tracks
<1> QED BY <1>1, <1>2, <1>3, AlwaysFeedInv, PTL DEF Spec, FeedSpec, VideoFeed!Spec, AudioFeed!Spec

(* A history that fits both channels reaches the viewer whole, although it  *)
(* comes at once and no send of the sub-buffer waits.                       *)
THEOREM HistoryReachesViewer == Spec => []HistoryWhole
<1>1. FeedInv /\ HistoryInv => HistoryWhole
  <2> SUFFICES ASSUME FeedInv, HistoryInv, NEW t \in Tracks, first[t] > 0,
                      Cardinality(first[t] .. copied[t]) <= EgressChCap,
                      Cardinality(first[t] .. copied[t]) <= OutChCap
               PROVE  Lost(t) \cap (first[t] .. copied[t]) = {}
    BY DEF HistoryWhole
  <2>1. CASE ~ (ring[t] = "serving" /\ Streaming(t))
    BY <2>1 DEF Lost
  <2>2. CASE ring[t] = "serving" /\ Streaming(t)
    <3>1. /\ first[t] \in Nat /\ copied[t] \in Nat
          /\ EgressChCap \in Nat /\ OutChCap \in Nat
      BY Types, Sizes DEF FeedInv
    <3>2. Cardinality(first[t] .. copied[t])
            = IF first[t] > copied[t] THEN 0 ELSE copied[t] - first[t] + 1
      <4>1. first[t] \in Int /\ copied[t] \in Int
        BY <3>1
      <4> QED BY <4>1, FS_Interval
    <3>3. ~ (copied[t] + 1 - first[t] > EgressChCap) /\ ~ (copied[t] + 1 - first[t] > OutChCap)
      BY <3>1, <3>2
    <3>4. first[t] .. copied[t] \subseteq OnTheWay(t) \cup Range(out[t])
      BY <2>2, <3>3 DEF HistoryInv, Kept
    <3> QED BY <3>4 DEF Lost
  <2> QED BY <2>1, <2>2
<1> QED BY <1>1, AlwaysFeedInv, AlwaysHistoryInv, PTL

LEMMA AlwaysStartInv == Spec => []StartInv
<1>1. Init => StartInv
  BY InitStartInv
<1>2. FeedInv /\ StartInv /\ [Next]_vars => StartInv'
  BY NextStartInv
<1> QED BY <1>1, <1>2, AlwaysFeedInv, PTL DEF Spec

(* The two streams of a viewer start no further apart than an audio frame   *)
(* is long, however far the writer goes on while Subscribe looks for them,  *)
(* as long as the audio ring has the room that RoomAssumption asks for.     *)
THEOREM StreamsStartTogether == Spec => []StartsTogether
<1>1. StartInv => StartsTogether
  <2> SUFFICES ASSUME StartInv, call = "done"
               PROVE  Near(first["audio"])
    BY DEF StartsTogether, Near
  <2>1. first["audio"] > 0 /\ first["audio"] = found["audio"]
    BY DEF StartInv, Starts
  <2> QED BY <2>1 DEF StartInv, Starts
<1> QED BY <1>1, AlwaysStartInv, PTL
=============================================================================
