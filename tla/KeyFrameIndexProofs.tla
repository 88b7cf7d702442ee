------------------------- MODULE KeyFrameIndexProofs -------------------------
(***************************************************************************)
(* Proofs about where a viewer starts, for a ring of any size, any number  *)
(* of subscribers and any stream: the index agrees with the ring, the      *)
(* backwards search finds a closest key frame, and the subscriber is given *)
(* that very frame, if the ring has the room that RoomAssumption asks for. *)
(***************************************************************************)
EXTENDS KeyFrameIndex, WellFoundedInduction, TLAPS

-----------------------------------------------------------------------------
(* The search.                                                              *)

LEMMA LeastNumber ==
  ASSUME NEW T, T \subseteq Nat, T # {}
  PROVE  \E x \in T : \A y \in T : x <= y
<1> DEFINE R == OpToRel(<, Nat)
<1>1. IsWellFoundedOn(R, Nat)
  BY NatLessThanWellFounded
<1> HIDE DEF R
<1>2. PICK x \in T : \A y \in T : ~ (<<y, x>> \in R)
  BY <1>1, WFMin
<1>3. ASSUME NEW y \in T PROVE x <= y
  <2>1. x \in Nat /\ y \in Nat
    OBVIOUS
  <2>2. y < x => <<y, x>> \in R
    BY <2>1 DEF R, OpToRel
  <2> QED BY <1>2, <2>1, <2>2
<1> QED BY <1>3

(* The index is in the order of time: its entries were inserted so.         *)
Sorted ==
  \A i, j \in 1 .. Len(keyFrames) : i < j => keyFrames[i].pts < keyFrames[j].pts

Times ==
  /\ curPTS \in Nat /\ Offset \in Nat /\ Len(keyFrames) \in Nat
  /\ \A i \in 1 .. Len(keyFrames) : keyFrames[i].pts \in Nat

(* Where the loop stops.                                                    *)
Stops(i) ==
  /\ i \in 1 .. Len(keyFrames)
  /\ \A j \in i .. Len(keyFrames) - 1 : Distance(j) <= Distance(j + 1)
  /\ i > 1 => Distance(i - 1) > Distance(i)

LEMMA LoopStops ==
  ASSUME Times, keyFrames # <<>>
  PROVE  Stops(ClosestKeyFrame)
<1> DEFINE n == Len(keyFrames)
           T == {i \in 1 .. n : \A j \in i .. n - 1 : Distance(j) <= Distance(j + 1)}
<1>1. n \in Nat /\ n > 0
  BY DEF Times
<1>2. \A i \in 1 .. n : Distance(i) \in Nat
  BY DEF Times, Distance, Diff, Target
<1> HIDE DEF n
<1>3. n \in T /\ T \subseteq Nat
  BY <1>1
<1>4. PICK i \in T : \A k \in T : i <= k
  BY <1>3, LeastNumber
<1>5. i > 1 => Distance(i - 1) > Distance(i)
  <2> SUFFICES ASSUME i > 1, ~ (Distance(i - 1) > Distance(i)) PROVE FALSE
    OBVIOUS
  <2>1. i \in 1 .. n /\ i - 1 \in 1 .. n /\ n \in Int
    BY <1>1
  <2>2. Distance(i - 1) <= Distance(i)
    BY <1>2, <2>1
  <2>3. \A j \in i - 1 .. n - 1 : j = i - 1 \/ j \in i .. n - 1
    BY <2>1
  <2>4. \A j \in i - 1 .. n - 1 : Distance(j) <= Distance(j + 1)
    <3> TAKE j \in i - 1 .. n - 1
    <3>1. CASE j = i - 1
      <4>1. j + 1 = i
        BY <2>1, <3>1
      <4> QED BY <2>2, <3>1, <4>1
    <3>2. CASE j \in i .. n - 1
      BY <3>2
    <3> QED BY <2>3, <3>1, <3>2
  <2>5. i - 1 \in T
    BY <2>1, <2>4
  <2> QED BY <1>4, <2>1, <2>5
<1>6. \E k \in 1 .. n : /\ \A j \in k .. n - 1 : Distance(j) <= Distance(j + 1)
                        /\ k > 1 => Distance(k - 1) > Distance(k)
  BY <1>5
<1> QED BY <1>6 DEF Stops, ClosestKeyFrame, n

(* Distances from a time first fall and then rise along the index, so where *)
(* the loop stops is closest.                                               *)
LEMMA StopIsClosest ==
  ASSUME Times, Sorted, NEW c, Stops(c), NEW i \in 1 .. Len(keyFrames)
  PROVE  Distance(c) <= Distance(i)
<1> DEFINE n == Len(keyFrames)
           K(x) == keyFrames[x].pts
<1>1. /\ n \in Nat /\ c \in 1 .. n /\ i \in 1 .. n /\ Target \in Int
      /\ \A x \in 1 .. n : K(x) \in Nat
      /\ \A x, y \in 1 .. n : x < y => K(x) < K(y)
  BY DEF Times, Sorted, Stops, Target
<1>2. \A x \in 1 .. n : Distance(x) = IF Target < K(x) THEN K(x) - Target ELSE Target - K(x)
  BY DEF Distance, Diff
<1> HIDE DEF n, K
<1>3. CASE i = c
  BY <1>1, <1>2, <1>3
<1>4. CASE i < c
  <2>1. c - 1 \in 1 .. n /\ c > 1 /\ (i = c - 1 \/ i < c - 1) /\ c - 1 < c
    BY <1>1, <1>4
  <2>2. Distance(c - 1) > Distance(c)
    BY <2>1 DEF Stops
  <2>3. K(i) <= K(c - 1) /\ K(c - 1) < K(c)
    BY <1>1, <2>1
  <2>4. K(c) \in Int /\ K(c - 1) \in Int /\ K(i) \in Int
    BY <1>1, <2>1
  <2>5. Target > K(c - 1)
    BY <1>1, <1>2, <2>1, <2>2, <2>3, <2>4
  <2>6. Distance(c - 1) = Target - K(c - 1) /\ Distance(i) = Target - K(i)
    BY <1>1, <1>2, <2>1, <2>3, <2>4, <2>5
  <2>7. Distance(c) \in Int
    BY <1>1, <1>2, <2>4
  <2> QED BY <1>1, <2>2, <2>3, <2>4, <2>6, <2>7
<1>5. CASE i > c
  <2>1. c + 1 \in 1 .. n /\ (i = c + 1 \/ c + 1 < i) /\ c < c + 1 /\ c \in c .. n - 1
    BY <1>1, <1>5
  <2>2. Distance(c) <= Distance(c + 1)
    BY <2>1 DEF Stops, n
  <2>3. K(c + 1) <= K(i) /\ K(c) < K(c + 1)
    BY <1>1, <2>1
  <2>4. K(c) \in Int /\ K(c + 1) \in Int /\ K(i) \in Int
    BY <1>1, <2>1
  <2>5. Target < K(c + 1)
    BY <1>1, <1>2, <2>1, <2>2, <2>3, <2>4
  <2>6. Distance(c + 1) = K(c + 1) - Target /\ Distance(i) = K(i) - Target
    BY <1>1, <1>2, <2>1, <2>3, <2>4, <2>5
  <2>7. Distance(c) \in Int
    BY <1>1, <1>2, <2>4
  <2> QED BY <1>1, <2>2, <2>3, <2>4, <2>6, <2>7
<1> QED BY <1>1, <1>3, <1>4, <1>5

-----------------------------------------------------------------------------
(* The invariant.                                                           *)

(* Times in the ring go up to that of the newest frame, which alone has its *)
(* own; the writer has yet to enter it in the index, or has done so.        *)
WriterInv ==
  /\ sinceIDR < Gop
  /\ curPTS <= newest
  /\ \A s \in Slots : ring[s].pts <= newest
  /\ ~formatKnown => pending = Nil /\ keyFrames = <<>>
  /\ pending # Nil =>
       /\ pending.pts = newest /\ curPTS < newest
       /\ ring[pending.pos] = pending
       /\ writePos = (pending.pos + 1) % Cap
       /\ \A s \in Slots : s # pending.pos => ring[s].pts < newest

IndexInv ==
  /\ Sorted
  /\ \A i \in 1 .. Len(keyFrames) : keyFrames[i].pts <= curPTS
  /\ IndexSound

(* The frame of entry k was stored as the e-th last, and is in its slot for *)
(* as long as the ring is.                                                  *)
Behind(k, e) ==
  /\ e \in Nat /\ e > 0
  /\ (k.pos + e) % Cap = writePos
  /\ e <= Cap => ring[k.pos].pts = k.pts /\ ring[k.pos].idr

Unindexed == IF pending = Nil THEN 0 ELSE 1

(* Every frame takes some time, so an entry is not behind by more frames    *)
(* than by time; and the newest key frame is not behind by more than the    *)
(* encoder's interval.                                                      *)
Recent(k, e) == Behind(k, e) /\ e <= curPTS - k.pts + 1 + Unindexed

Latest(k, e) == Behind(k, e) /\ e <= 1 + (IF pending.idr THEN Gop ELSE sinceIDR)

PlaceInv ==
  /\ \A i \in 1 .. Len(keyFrames) : \E e : Recent(keyFrames[i], e)
  /\ keyFrames # <<>> => \E e : Latest(keyFrames[Len(keyFrames)], e)

(* The entry a look-up found is not further behind than the search goes,    *)
(* and the frames stored since.                                             *)
InReach(r, e) == e <= 2 * Offset + 2 + age[r] \/ e <= Gop + 1 + age[r]

CallInv ==
  \A r \in Subscribers :
    /\ pc[r] # "waiting"
    /\ pc[r] = "found" => \E e : Behind(found[r], e) /\ InReach(r, e)

Inv == TypeOK /\ WriterInv /\ IndexInv /\ PlaceInv /\ CallInv /\ ServedAsFound

-----------------------------------------------------------------------------
(* Slots.                                                                   *)

LEMMA Sizes ==
  /\ Cap \in Nat /\ Cap > 0 /\ Gop \in Nat /\ Gop > 0
  /\ Offset \in Nat /\ Delay \in Nat
  /\ 2 * Offset + Delay + 2 < Cap /\ Gop + Delay + 1 < Cap
BY SizeAssumption, TimeAssumption, BoundAssumption, RoomAssumption

LEMMA RemainderUnique ==
  ASSUME NEW c \in Nat, c > 0, NEW x \in Int, NEW q \in Int, NEW r \in 0 .. c - 1,
         x = c * q + r
  PROVE  x % c = r
BY Z3

LEMMA NoRemainder ==
  ASSUME NEW c \in Nat, c > 0, NEW x \in Int, NEW q \in Int, x = c * q
  PROVE  x % c = 0
BY Z3

LEMMA Turn ==
  ASSUME NEW c \in Int, NEW q \in Int, NEW r \in Int, NEW x \in Int, x = c * q + r
  PROVE  /\ x + 1 = c * q + (r + 1)
         /\ x + 1 = c * (q + 1) + (r + 1 - c)
BY Z3

LEMMA NextSlot ==
  ASSUME NEW x \in Nat
  PROVE  (x + 1) % Cap = ((x % Cap) + 1) % Cap
<1> DEFINE c == Cap
           r == x % c
           q == x \div c
           y == x + 1
           t == r + 1
<1>1. c \in Nat /\ c > 0
  BY Sizes
<1>2. r \in 0 .. c - 1 /\ q \in Int /\ x = c * q + r
  <2> HIDE DEF c
  <2>1. r \in 0 .. c - 1 /\ q \in Int
    BY <1>1
  <2>2. x = c * q + r
    BY <1>1, Z3
  <2> QED BY <2>1, <2>2
<1> HIDE DEF c, r, q
<1>3. y = c * q + t /\ y = c * (q + 1) + (t - c) /\ y \in Int /\ t \in Int /\ q + 1 \in Int
  BY <1>1, <1>2, Turn
<1> HIDE DEF y
<1>4. CASE t < c
  <2>1. t \in 0 .. c - 1 /\ 0 \in Int /\ t = c * 0 + t
    BY <1>1, <1>2, <1>4
  <2> HIDE DEF t
  <2>2. y % c = t
    BY <1>1, <1>2, <1>3, <2>1, RemainderUnique
  <2>3. t % c = t
    BY <1>1, <1>3, <2>1, RemainderUnique
  <2> QED BY <2>2, <2>3 DEF y, t, r, c
<1>5. CASE t = c
  <2>1. 0 \in 0 .. c - 1 /\ 1 \in Int /\ c = c * 1 + 0 /\ t - c = 0
    BY <1>1, <1>2, <1>5
  <2> DEFINE p == q + 1
  <2>2. y = c * p + 0 /\ p \in Int
    BY <1>3, <2>1
  <2> HIDE DEF t, p
  <2>3. y % c = 0
    <3>1. y = c * p
      BY <1>1, <2>2
    <3> QED BY <1>1, <1>3, <2>2, <3>1, NoRemainder
  <2>4. c % c = 0
    BY <1>1
  <2> QED BY <1>5, <2>3, <2>4 DEF y, t, r, c
<1> QED BY <1>1, <1>2, <1>4, <1>5

(* Less than a turn away is another slot.                                   *)
LEMMA OtherSlot ==
  ASSUME NEW s \in Slots, NEW e \in Nat, e > 0, e < Cap
  PROVE  (s + e) % Cap # s
<1> DEFINE c == Cap
           x == s + e
<1>1. c \in Nat /\ c > 0 /\ s \in 0 .. c - 1 /\ x \in Int /\ e < c
  BY Sizes DEF Slots
<1>2. CASE x < c
  <2>1. x \in 0 .. c - 1 /\ x = c * 0 + x /\ x # s /\ 0 \in Int
    BY <1>1, <1>2
  <2> HIDE DEF c, x
  <2>2. x % c = x
    BY <1>1, <2>1, RemainderUnique
  <2> QED BY <2>1, <2>2 DEF c, x
<1>3. CASE x >= c
  <2> DEFINE y == x - c
  <2>1. y \in 0 .. c - 1 /\ x = c * 1 + y /\ y # s /\ 1 \in Int
    BY <1>1, <1>3
  <2> HIDE DEF c, x, y
  <2>2. x % c = y
    BY <1>1, <2>1, RemainderUnique
  <2> QED BY <2>1, <2>2 DEF c, x
<1> QED BY <1>1, <1>2, <1>3

(* A frame stored puts every entry one further behind.                      *)
LEMMA OneFurther ==
  ASSUME TypeOK, StoreFrame, NEW k \in Entries, NEW e, Behind(k, e)
  PROVE  Behind(k, e + 1)'
<1>1. /\ k.pos \in Slots /\ e \in Nat /\ e > 0 /\ k.pos \in Nat /\ Cap \in Nat
      /\ (k.pos + e) % Cap = writePos /\ writePos' = (writePos + 1) % Cap
  BY Sizes DEF Behind, Entries, StoreFrame, Slots
<1>2. (k.pos + (e + 1)) % Cap = writePos'
  <2> DEFINE x == k.pos + e
  <2>1. x \in Nat /\ k.pos + (e + 1) = x + 1
    BY <1>1
  <2> HIDE DEF x
  <2>2. (x + 1) % Cap = ((x % Cap) + 1) % Cap
    BY <2>1, NextSlot
  <2>3. x % Cap = writePos
    BY <1>1 DEF x
  <2> QED BY <1>1, <2>1, <2>2, <2>3
<1>3. ASSUME e + 1 <= Cap
      PROVE  ring'[k.pos].pts = k.pts /\ ring'[k.pos].idr
  <2>1. e < Cap /\ e <= Cap
    BY <1>1, <1>3
  <2>2. k.pos # writePos
    BY <1>1, <2>1, OtherSlot
  <2>3. ring'[k.pos] = ring[k.pos]
    BY <1>1, <2>2 DEF StoreFrame, TypeOK
  <2> QED BY <2>1, <2>3 DEF Behind
<1> QED BY <1>1, <1>2, <1>3 DEF Behind

-----------------------------------------------------------------------------
(* The steps.                                                               *)

LEMMA EntryType ==
  ASSUME TypeOK, NEW i \in 1 .. Len(keyFrames)
  PROVE  /\ keyFrames[i] \in Entries
         /\ keyFrames[i].pos \in Slots /\ keyFrames[i].pts \in Nat
<1>1. keyFrames \in Seq(Entries)
  BY DEF TypeOK
<1>2. keyFrames[i] \in Entries
  BY <1>1
<1> QED BY <1>2 DEF Entries

LEMMA TimesKnown ==
  ASSUME TypeOK
  PROVE  Times
<1>1. curPTS \in Nat /\ keyFrames \in Seq(Entries)
  BY DEF TypeOK
<1>2. Len(keyFrames) \in Nat
  BY <1>1
<1>3. \A i \in 1 .. Len(keyFrames) : keyFrames[i].pts \in Nat
  BY EntryType
<1> QED BY <1>1, <1>2, <1>3, Sizes DEF Times

LEMMA InitInv == Init => Inv
<1> SUFFICES ASSUME Init PROVE Inv
  OBVIOUS
<1>1. Nil \in Frames /\ NoEntry \in Entries
  BY Sizes DEF Nil, NoEntry, Frames, Entries, Slots
<1>2. TypeOK
  <2>1. ring \in [Slots -> Frames] /\ pending \in Frames /\ first \in [Subscribers -> Frames]
    BY <1>1 DEF Init
  <2>2. writePos \in Slots
    BY Sizes DEF Init, Slots
  <2>3. keyFrames \in Seq(Entries) /\ found \in [Subscribers -> Entries]
    BY <1>1 DEF Init
  <2>4. age \in [Subscribers -> 0 .. Delay]
    BY Sizes DEF Init
  <2> QED BY <2>1, <2>2, <2>3, <2>4 DEF Init, TypeOK
<1>3. WriterInv
  BY Sizes DEF Init, WriterInv, Nil
<1>4. Len(keyFrames) = 0
  BY DEF Init
<1>5. IndexInv
  BY <1>4 DEF Init, IndexInv, Sorted, IndexSound, Nil
<1>6. PlaceInv /\ CallInv /\ ServedAsFound
  BY <1>4 DEF Init, PlaceInv, CallInv, ServedAsFound
<1> QED BY <1>2, <1>3, <1>5, <1>6 DEF Inv

LEMMA DropFrameInv == Inv /\ DropFrame => Inv'
<1> SUFFICES ASSUME Inv, DropFrame PROVE Inv'
  OBVIOUS
<1>1. PICK d \in Durations :
        NextFrame([pts |-> newest + d, idr |-> FALSE, pos |-> 0])
  BY DEF DropFrame
<1>2. /\ newest' \in Nat /\ newest' > newest /\ sinceIDR' \in Nat /\ sinceIDR' < Gop
      /\ newest \in Nat
  <2>1. newest \in Nat /\ sinceIDR \in Nat /\ \A x \in Durations : x \in Nat /\ x > 0
    BY TimeAssumption DEF Inv, TypeOK
  <2>2. newest' \in {newest + x : x \in Durations}
    BY <1>1 DEF NextFrame
  <2>3. ~(sinceIDR >= Gop - 1) /\ sinceIDR' = sinceIDR + 1
    BY <1>1 DEF NextFrame
  <2> QED BY <2>1, <2>2, <2>3, Sizes
<1>3. /\ pending = Nil /\ ~formatKnown /\ keyFrames = <<>>
      /\ UNCHANGED <<ring, writePos, stored, pending, formatKnown, indexVars, callVars>>
  BY DEF DropFrame, Inv, WriterInv
<1>4. TypeOK'
  BY <1>2, <1>3 DEF Inv, TypeOK, indexVars, callVars
<1>5. WriterInv'
  <2>1. curPTS \in Nat /\ \A s \in Slots : ring[s].pts \in Nat
    BY DEF Inv, TypeOK, Frames
  <2> QED BY <1>2, <1>3, <2>1 DEF Inv, WriterInv, indexVars
<1>6. IndexInv'
  BY <1>3 DEF Inv, IndexInv, Sorted, IndexSound, indexVars
<1>7. PlaceInv'
  BY <1>3 DEF PlaceInv, indexVars
<1>8. CallInv' /\ ServedAsFound'
  BY <1>3 DEF Inv, CallInv, ServedAsFound, Behind, InReach, callVars
<1> QED BY <1>4, <1>5, <1>6, <1>7, <1>8 DEF Inv

LEMMA StoreFrameInv == Inv /\ StoreFrame => Inv'
<1> SUFFICES ASSUME Inv, StoreFrame PROVE Inv'
  OBVIOUS
<1>0. PICK d \in Durations, b \in BOOLEAN :
        LET f == [pts |-> newest + d, idr |-> b, pos |-> writePos]
        IN  /\ NextFrame(f)
            /\ formatKnown \/ f.idr
            /\ ring' = [ring EXCEPT ![writePos] = f]
            /\ pending' = f
            /\ first' = [r \in Subscribers |->
                           IF pc[r] = "waiting" THEN f ELSE first[r]]
  BY DEF StoreFrame
<1> DEFINE f == [pts |-> newest + d, idr |-> b, pos |-> writePos]
<1>1. /\ pending = Nil
      /\ \A r \in Subscribers : pc[r] = "found" => age[r] < Delay
      /\ formatKnown' = TRUE /\ stored' = stored + 1
      /\ writePos' = (writePos + 1) % Cap
      /\ pc' = [r \in Subscribers |-> IF pc[r] = "waiting" THEN "first" ELSE pc[r]]
      /\ age' = [r \in Subscribers |-> IF pc[r] = "found" THEN age[r] + 1 ELSE age[r]]
      /\ UNCHANGED <<keyFrames, curPTS, startPTS, started, ready, found>>
  BY DEF StoreFrame, indexVars
<1>2. ring' = [ring EXCEPT ![writePos] = f] /\ pending' = f
  BY <1>0
<1>3. /\ newest \in Nat /\ newest' = newest + d /\ d \in Nat /\ d > 0
      /\ sinceIDR \in Nat /\ sinceIDR' = (IF b THEN 0 ELSE sinceIDR + 1)
      /\ sinceIDR' \in Nat /\ sinceIDR' < Gop /\ (~b => sinceIDR' = sinceIDR + 1)
  <2>1. newest \in Nat /\ sinceIDR \in Nat /\ d \in Nat /\ d > 0
    BY TimeAssumption DEF Inv, TypeOK
  <2>2. /\ sinceIDR >= Gop - 1 => b
        /\ newest' = newest + d /\ sinceIDR' = IF b THEN 0 ELSE sinceIDR + 1
    BY <1>0 DEF NextFrame
  <2> QED BY <2>1, <2>2, Sizes
<1>4. /\ f \in Frames /\ f # Nil /\ f.pts = newest' /\ f.idr = b /\ f.pos = writePos
      /\ writePos \in Slots /\ writePos' \in Slots
  <2>1. writePos \in Slots
    BY DEF Inv, TypeOK
  <2>2. writePos' \in Slots
    BY <1>1, <2>1, Sizes DEF Slots
  <2>3. f.pts = newest + d /\ f.idr = b /\ f.pos = writePos /\ newest + d \in Nat /\ newest + d > 0
    BY <1>3
  <2>4. f \in Frames
    BY <2>1, <2>3 DEF Frames
  <2>5. f # Nil
    BY <2>3 DEF Nil
  <2> QED BY <1>3, <2>1, <2>2, <2>3, <2>4, <2>5
<1>5. \A r \in Subscribers : pc[r] # "waiting"
  BY DEF Inv, CallInv
<1>6. pc' = pc /\ first' = first
  BY <1>0, <1>1, <1>5 DEF Inv, TypeOK
<1> HIDE DEF f
<1>7. /\ ring'[writePos] = f
      /\ \A s \in Slots : s # writePos => ring'[s] = ring[s]
      /\ \A s \in Slots : ring[s].pts \in Nat /\ ring[s].pts <= newest
      /\ newest' \in Nat /\ newest < newest' /\ curPTS \in Nat /\ curPTS <= newest
  BY <1>2, <1>3, <1>4 DEF Inv, TypeOK, WriterInv, Frames
<1>8. TypeOK'
  <2>1. age' \in [Subscribers -> 0 .. Delay]
    BY <1>1, Sizes DEF Inv, TypeOK
  <2>2. ring' \in [Slots -> Frames]
    BY <1>2, <1>4 DEF Inv, TypeOK
  <2> QED BY <1>1, <1>2, <1>3, <1>4, <1>6, <1>7, <2>1, <2>2 DEF Inv, TypeOK
<1>9. WriterInv'
  <2>1. \A s \in Slots : ring'[s].pts <= newest'
    <3> TAKE s \in Slots
    <3>1. CASE s = writePos
      BY <1>4, <1>7, <3>1
    <3>2. CASE s # writePos
      <4>1. ring'[s].pts \in Nat /\ ring'[s].pts <= newest /\ newest \in Nat
        BY <1>3, <1>7, <3>2
      <4> QED BY <1>7, <4>1
    <3> QED BY <3>1, <3>2
  <2>2. \A s \in Slots : s # writePos => ring'[s].pts < newest'
    <3> SUFFICES ASSUME NEW s \in Slots, s # writePos PROVE ring'[s].pts < newest'
      OBVIOUS
    <3>1. ring'[s].pts \in Nat /\ ring'[s].pts <= newest /\ newest \in Nat
      BY <1>3, <1>7
    <3> QED BY <1>7, <3>1
  <2> QED BY <1>1, <1>2, <1>3, <1>4, <1>7, <2>1, <2>2 DEF Inv, WriterInv
<1>10. IndexInv'
  <2>1. \A i \in 1 .. Len(keyFrames) :
          /\ keyFrames[i] \in Entries /\ keyFrames[i].pos \in Slots /\ keyFrames[i].pts \in Nat
          /\ keyFrames[i].pts <= curPTS
    BY EntryType DEF Inv, IndexInv
  <2>2. ASSUME NEW i \in 1 .. Len(keyFrames)
        PROVE  LET k == keyFrames[i]
               IN  \/ ring'[k.pos].pts = k.pts /\ ring'[k.pos].idr
                   \/ ring'[k.pos].pts > k.pts
    <3>1. CASE keyFrames[i].pos = writePos
      <4>1. ring'[keyFrames[i].pos].pts = newest'
        BY <1>4, <1>7, <3>1
      <4>2. keyFrames[i].pts \in Nat /\ keyFrames[i].pts <= curPTS /\ newest \in Nat
        BY <1>3, <2>1
      <4> QED BY <1>7, <4>1, <4>2
    <3>2. CASE keyFrames[i].pos # writePos
      BY <1>7, <2>1, <3>2 DEF Inv, IndexInv, IndexSound
    <3> QED BY <3>1, <3>2
  <2>3. ASSUME NEW s \in Slots, ring'[s].idr, ring'[s] # pending'
        PROVE  \E i \in 1 .. Len(keyFrames) : keyFrames[i] = [pts |-> ring'[s].pts, pos |-> s]
    <3>1. s # writePos
      BY <1>2, <1>7, <2>3
    <3>2. ring'[s] = ring[s] /\ ring[s] # Nil
      BY <1>7, <2>3, <3>1 DEF Nil
    <3> QED BY <1>1, <2>3, <3>2 DEF Inv, IndexInv, IndexSound
  <2>4. IndexSound'
    BY <1>1, <2>2, <2>3 DEF IndexSound
  <2> QED BY <1>1, <2>4 DEF Inv, IndexInv, Sorted
<1>11. PlaceInv'
  <2>1. \A i \in 1 .. Len(keyFrames) : keyFrames[i] \in Entries /\ keyFrames[i].pts \in Nat
    BY EntryType DEF Inv
  <2>2. Unindexed = 0 /\ Unindexed' = 1
    BY <1>1, <1>2, <1>4 DEF Unindexed
  <2>3. ASSUME NEW i \in 1 .. Len(keyFrames)
        PROVE  \E e : Recent(keyFrames[i], e)'
    <3>1. PICK e : Recent(keyFrames[i], e)
      BY DEF Inv, PlaceInv
    <3>2. Behind(keyFrames[i], e + 1)'
      <4>1. TypeOK /\ Behind(keyFrames[i], e)
        BY <3>1 DEF Inv, Recent
      <4>2. ASSUME NEW k, k = keyFrames[i] PROVE Behind(k, e + 1)'
        BY <2>1, <4>1, <4>2, OneFurther
      <4> QED BY <1>1, <4>2 DEF Behind
    <3>3. e + 1 <= curPTS' - keyFrames'[i].pts + 1 + Unindexed'
      BY <1>1, <1>7, <2>1, <2>2, <3>1 DEF Recent, Behind
    <3> QED BY <3>2, <3>3 DEF Recent
  <2>4. ASSUME keyFrames # <<>>
        PROVE  \E e : Latest(keyFrames[Len(keyFrames)], e)'
    <3> DEFINE n == Len(keyFrames)
    <3>0. n \in 1 .. n
      BY <2>4 DEF Inv, TypeOK
    <3>1. PICK e : Latest(keyFrames[n], e)
      BY <2>4 DEF Inv, PlaceInv
    <3>2. Behind(keyFrames[n], e + 1)'
      <4>1. TypeOK /\ Behind(keyFrames[n], e)
        BY <3>1 DEF Inv, Latest
      <4>2. ASSUME NEW k, k = keyFrames[n] PROVE Behind(k, e + 1)'
        BY <2>1, <3>0, <4>1, <4>2, OneFurther
      <4> QED BY <1>1, <4>2 DEF Behind
    <3>3. e + 1 <= 1 + (IF pending'.idr THEN Gop ELSE sinceIDR')
      <4>1. e \in Nat /\ e <= 1 + sinceIDR
        BY <1>1, <3>1 DEF Latest, Behind, Nil
      <4>2. sinceIDR < Gop /\ pending'.idr = b
        BY <1>2, <1>4 DEF Inv, WriterInv
      <4> QED BY <1>3, <4>1, <4>2, Sizes
    <3> QED BY <3>2, <3>3 DEF Latest
  <2> QED BY <1>1, <2>3, <2>4 DEF PlaceInv
<1>12. CallInv'
  <2> SUFFICES ASSUME NEW r \in Subscribers, pc[r] = "found"
               PROVE  \E e : Behind(found[r], e)' /\ InReach(r, e)'
    BY <1>5, <1>6 DEF CallInv
  <2>1. PICK e : Behind(found[r], e) /\ InReach(r, e)
    BY DEF Inv, CallInv
  <2>2. Behind(found[r], e + 1)'
    <3>1. TypeOK /\ Behind(found[r], e) /\ found[r] \in Entries
      BY <2>1 DEF Inv, TypeOK
    <3>2. ASSUME NEW k, k = found[r] PROVE Behind(k, e + 1)'
      BY <3>1, <3>2, OneFurther
    <3> QED BY <1>1, <3>2 DEF Behind
  <2>3. InReach(r, e + 1)'
    <3>1. age'[r] = age[r] + 1 /\ age[r] \in Nat /\ e \in Nat
      BY <1>1, <2>1 DEF Inv, TypeOK, Behind
    <3> QED BY <2>1, <3>1, Sizes DEF InReach
  <2> QED BY <2>2, <2>3
<1>13. ServedAsFound'
  BY <1>1, <1>6 DEF Inv, ServedAsFound
<1> QED BY <1>8, <1>9, <1>10, <1>11, <1>12, <1>13 DEF Inv

(* The frame to be indexed is the newest, so Drop finds nothing to drop.    *)
LEMMA NothingDropped ==
  ASSUME Inv, pending # Nil
  PROVE  Drop(keyFrames, pending.pts) = keyFrames
<1>1. ASSUME NEW i \in 1 .. Len(keyFrames) PROVE keyFrames[i].pts # pending.pts
  <2>1. keyFrames[i].pts \in Nat /\ keyFrames[i].pts <= curPTS
    BY EntryType DEF Inv, IndexInv
  <2>2. curPTS < pending.pts /\ curPTS \in Nat /\ pending.pts \in Nat
    BY DEF Inv, WriterInv, TypeOK, Frames
  <2> QED BY <2>1, <2>2
<1> QED BY <1>1 DEF Drop, Keys

LEMMA IndexFrameInv == Inv /\ IndexFrame => Inv'
<1> SUFFICES ASSUME Inv, IndexFrame PROVE Inv'
  OBVIOUS
<1> DEFINE n == Len(keyFrames)
           k == [pts |-> pending.pts, pos |-> pending.pos]
<1>1. /\ pending # Nil /\ pending' = Nil /\ curPTS' = pending.pts
      /\ keyFrames' = IF pending.idr THEN Append(keyFrames, k) ELSE keyFrames
      /\ UNCHANGED <<ring, writePos, stored, sinceIDR, newest, formatKnown,
                     pc, found, age, first>>
  BY NothingDropped DEF IndexFrame, Set, writerVars, callVars
<1>2. /\ pending.pts = newest /\ curPTS < newest /\ newest \in Nat /\ curPTS \in Nat
      /\ ring[pending.pos] = pending /\ pending.pos \in Slots /\ pending \in Frames
      /\ writePos = (pending.pos + 1) % Cap
      /\ \A s \in Slots : s # pending.pos => ring[s].pts < newest
      /\ k \in Entries /\ k.pts = newest /\ k.pos = pending.pos
  BY <1>1 DEF Inv, WriterInv, TypeOK, Frames, Entries
<1>3. /\ n \in Nat /\ keyFrames \in Seq(Entries)
      /\ \A i \in 1 .. n : keyFrames[i].pts \in Nat /\ keyFrames[i].pts <= curPTS
  BY EntryType DEF Inv, IndexInv, TypeOK
<1> HIDE DEF k, n
<1>4. /\ \A i \in 1 .. n : keyFrames'[i] = keyFrames[i]
      /\ pending.idr => /\ Len(keyFrames') = n + 1 /\ keyFrames'[n + 1] = k
      /\ ~pending.idr => /\ keyFrames' = keyFrames /\ Len(keyFrames') = n
      /\ keyFrames' \in Seq(Entries)
  BY <1>1, <1>2, <1>3 DEF n
<1>5. \A i \in 1 .. Len(keyFrames') : i \in 1 .. n \/ (pending.idr /\ i = n + 1)
  BY <1>3, <1>4
<1>6. TypeOK'
  <2>1. Nil \in Frames
    BY Sizes DEF Nil, Frames, Slots
  <2>2. startPTS' \in Nat /\ started' \in BOOLEAN /\ ready' \in BOOLEAN
    BY <1>2 DEF IndexFrame, Inv, TypeOK
  <2> QED BY <1>1, <1>2, <1>4, <2>1, <2>2 DEF Inv, TypeOK
<1>7. WriterInv'
  <2>1. formatKnown
    BY <1>1 DEF Inv, WriterInv
  <2> QED BY <1>1, <1>2, <2>1 DEF Inv, WriterInv
<1>8. \A i \in 1 .. Len(keyFrames') : keyFrames'[i].pts <= curPTS'
  BY <1>1, <1>2, <1>3, <1>4, <1>5
<1>9. Sorted'
  <2> SUFFICES ASSUME NEW i \in 1 .. Len(keyFrames'), NEW j \in 1 .. Len(keyFrames'), i < j
               PROVE  keyFrames'[i].pts < keyFrames'[j].pts
    BY DEF Sorted
  <2>1. i \in 1 .. n
    BY <1>3, <1>4, <1>5
  <2>2. CASE j \in 1 .. n
    BY <1>4, <2>1, <2>2 DEF Inv, IndexInv, Sorted, n
  <2>3. CASE pending.idr /\ j = n + 1
    <3>1. keyFrames'[i].pts <= curPTS /\ keyFrames'[i].pts \in Nat
      BY <1>3, <1>4, <2>1
    <3>2. keyFrames'[j].pts = newest
      BY <1>2, <1>4, <2>3
    <3> QED BY <1>2, <3>1, <3>2
  <2> QED BY <1>5, <2>2, <2>3
<1>10. IndexSound'
  <2>1. ASSUME NEW i \in 1 .. Len(keyFrames')
        PROVE  LET e == keyFrames'[i]
               IN  \/ ring'[e.pos].pts = e.pts /\ ring'[e.pos].idr
                   \/ ring'[e.pos].pts > e.pts
    <3>1. CASE i \in 1 .. n
      BY <1>1, <1>4, <3>1 DEF Inv, IndexInv, IndexSound, n
    <3>2. CASE pending.idr /\ i = n + 1
      BY <1>1, <1>2, <1>4, <3>2
    <3> QED BY <1>5, <3>1, <3>2
  <2>2. ASSUME NEW s \in Slots, ring'[s].idr
        PROVE  \E i \in 1 .. Len(keyFrames') : keyFrames'[i] = [pts |-> ring'[s].pts, pos |-> s]
    <3>1. CASE s = pending.pos
      <4>1. pending.idr /\ [pts |-> ring'[s].pts, pos |-> s] = k
        BY <1>1, <1>2, <2>2, <3>1 DEF k
      <4>2. n + 1 \in 1 .. Len(keyFrames') /\ keyFrames'[n + 1] = k
        BY <1>3, <1>4, <4>1
      <4> QED BY <4>1, <4>2
    <3>2. CASE s # pending.pos
      <4>1. ring[s] # pending /\ ring[s].idr
        BY <1>1, <1>2, <2>2, <3>2
      <4>2. PICK i \in 1 .. n : keyFrames[i] = [pts |-> ring[s].pts, pos |-> s]
        BY <4>1 DEF Inv, IndexInv, IndexSound, n
      <4>3. i \in 1 .. Len(keyFrames')
        BY <1>3, <1>4
      <4> QED BY <1>1, <1>4, <4>2, <4>3
    <3> QED BY <3>1, <3>2
  <2> QED BY <2>1, <2>2 DEF IndexSound
<1>11. PlaceInv'
  <2>1. Unindexed = 1 /\ Unindexed' = 0 /\ pending'.idr = FALSE /\ sinceIDR' = sinceIDR
    BY <1>1 DEF Unindexed, Nil
  <2>2. ASSUME NEW i, i = n + 1, pending.idr
        PROVE  Behind(keyFrames[i], 1)'
    <3>1. /\ keyFrames'[i] = k /\ ring'[k.pos].pts = k.pts /\ ring'[k.pos].idr
          /\ (k.pos + 1) % Cap = writePos'
      BY <1>1, <1>2, <1>4, <2>2
    <3> QED BY <3>1 DEF Behind
  <2>3. ASSUME NEW i \in 1 .. Len(keyFrames')
        PROVE  \E e : Recent(keyFrames[i], e)'
    <3>1. CASE i \in 1 .. n
      <4>1. PICK e : Recent(keyFrames[i], e)
        BY <3>1 DEF Inv, PlaceInv, n
      <4>2. Behind(keyFrames[i], e)'
        BY <1>1, <1>4, <3>1, <4>1 DEF Recent, Behind
      <4>3. e <= curPTS' - keyFrames'[i].pts + 1 + Unindexed'
        BY <1>1, <1>2, <1>3, <1>4, <2>1, <3>1, <4>1, SMTT(30) DEF Recent, Behind
      <4> QED BY <4>2, <4>3 DEF Recent
    <3>2. CASE pending.idr /\ i = n + 1
      <4>1. 1 <= curPTS' - keyFrames'[i].pts + 1 + Unindexed'
        BY <1>1, <1>2, <1>4, <2>1, <3>2
      <4> QED BY <2>2, <3>2, <4>1 DEF Recent
    <3> QED BY <1>5, <3>1, <3>2
  <2>4. ASSUME keyFrames' # <<>>
        PROVE  \E e : Latest(keyFrames[Len(keyFrames)], e)'
    <3>1. CASE pending.idr
      <4>1. 1 <= 1 + (IF pending'.idr THEN Gop ELSE sinceIDR')
        BY <2>1 DEF Inv, TypeOK
      <4>2. PICK i : i = n + 1
        BY Zenon
      <4>3. Behind(keyFrames[i], 1)' /\ i = Len(keyFrames')
        BY <1>4, <2>2, <3>1, <4>2
      <4>4. Latest(keyFrames[Len(keyFrames)], 1)'
        BY <4>1, <4>3 DEF Latest, Behind
      <4> QED BY <4>4
    <3>2. CASE ~pending.idr
      <4>1. keyFrames' = keyFrames /\ Len(keyFrames') = Len(keyFrames)
        BY <1>4, <3>2
      <4>2. PICK e : Latest(keyFrames[Len(keyFrames)], e)
        BY <2>4, <4>1 DEF Inv, PlaceInv
      <4>3. Behind(keyFrames[Len(keyFrames)], e)'
        BY <1>1, <4>1, <4>2 DEF Latest, Behind
      <4>4. e <= 1 + (IF pending'.idr THEN Gop ELSE sinceIDR')
        BY <2>1, <3>2, <4>2 DEF Latest
      <4> QED BY <4>3, <4>4 DEF Latest
    <3> QED BY <3>1, <3>2 DEF Inv, TypeOK, Frames
  <2> QED BY <2>3, <2>4 DEF PlaceInv
<1>12. CallInv' /\ ServedAsFound'
  BY <1>1 DEF Inv, CallInv, ServedAsFound, Behind, InReach
<1> QED BY <1>6, <1>7, <1>8, <1>9, <1>10, <1>11, <1>12 DEF Inv, IndexInv

(* The entry found is behind by no more frames than twice the offset, or by *)
(* no more than an interval of key frames.                                  *)
LEMMA FoundInReach ==
  ASSUME Inv, keyFrames # <<>>
  PROVE  /\ ClosestKeyFrame \in 1 .. Len(keyFrames)
         /\ \E e \in Nat :
                  /\ Behind(keyFrames[ClosestKeyFrame], e)
                  /\ e <= 2 * Offset + 2 \/ e <= Gop + 1
<1> DEFINE c == ClosestKeyFrame
           n == Len(keyFrames)
<1>1. Times /\ Sorted
  BY TimesKnown DEF Inv, IndexInv
<1>2. Stops(c)
  BY <1>1, LoopStops
<1>3. c \in 1 .. n /\ n \in Nat
  BY <1>1, <1>2 DEF Stops, Times
<1> HIDE DEF c
<1>4. CASE c = n
  <2>1. PICK e : Latest(keyFrames[n], e)
    BY DEF Inv, PlaceInv
  <2>2. e <= Gop + 1
    <3>1. e \in Nat /\ sinceIDR \in Nat /\ sinceIDR < Gop
      BY <2>1 DEF Latest, Behind, Inv, WriterInv, TypeOK
    <3>2. e <= 1 + Gop \/ e <= 1 + sinceIDR
      BY <2>1 DEF Latest
    <3> QED BY <3>1, <3>2, Sizes
  <2> QED BY <1>3, <1>4, <2>1, <2>2 DEF Latest, Behind, c
<1>5. CASE c < n
  <2>1. PICK e : Recent(keyFrames[c], e)
    BY <1>3 DEF Inv, PlaceInv
  <2> DEFINE k == keyFrames[c].pts
             m == keyFrames[c + 1].pts
  <2>2. c + 1 \in 1 .. n /\ c \in c .. n - 1 /\ c < c + 1
    BY <1>3, <1>5
  <2>3. k \in Nat /\ m \in Nat /\ k < m /\ m <= curPTS /\ curPTS \in Nat
    BY <1>1, <1>3, <2>2 DEF Times, Sorted, Inv, IndexInv
  <2>4. Diff(curPTS - Offset, k) <= Diff(curPTS - Offset, m)
    BY <1>2, <2>2 DEF Stops, Distance, Target
  <2> HIDE DEF k, m
  <2>5. curPTS - k <= 2 * Offset
    BY <2>3, <2>4, Sizes DEF Diff
  <2>6. e <= 2 * Offset + 2
    <3>1. e <= curPTS - k + 1 + Unindexed /\ e \in Nat /\ Unindexed \in {0, 1}
      BY <2>1 DEF Recent, Behind, Unindexed, k
    <3> QED BY <2>3, <2>5, <3>1, Sizes
  <2> QED BY <1>3, <2>1, <2>6 DEF Recent, Behind, c
<1> QED BY <1>3, <1>4, <1>5

LEMMA LookUpInv ==
  ASSUME Inv, NEW r \in Subscribers, LookUp(r)
  PROVE  Inv'
<1> DEFINE c == ClosestKeyFrame
<1>1. /\ keyFrames # <<>> /\ pc[r] = "idle"
      /\ found' = [found EXCEPT ![r] = keyFrames[c]]
      /\ pc' = [pc EXCEPT ![r] = "found"]
      /\ UNCHANGED <<ring, writePos, stored, sinceIDR, newest, formatKnown, pending,
                     keyFrames, curPTS, startPTS, started, ready, age, first>>
  BY DEF LookUp, writerVars, indexVars
<1>2. /\ c \in 1 .. Len(keyFrames)
      /\ \E e : Behind(keyFrames[c], e) /\ (e <= 2 * Offset + 2 \/ e <= Gop + 1)
  <2>1. keyFrames # <<>>
    BY <1>1
  <2>2. c \in 1 .. Len(keyFrames)
    BY <2>1, FoundInReach
  <2>3. PICK e \in Nat : Behind(keyFrames[c], e) /\ (e <= 2 * Offset + 2 \/ e <= Gop + 1)
    BY <2>1, FoundInReach
  <2> QED BY <2>2, <2>3
<1>3. keyFrames[c] \in Entries
  BY <1>2, EntryType DEF Inv
<1> HIDE DEF c
<1>4. TypeOK'
  BY <1>1, <1>3 DEF Inv, TypeOK
<1>5. WriterInv' /\ IndexInv'
  BY <1>1 DEF Inv, WriterInv, IndexInv, Sorted, IndexSound
<1>6. PlaceInv'
  BY <1>1 DEF Inv, PlaceInv, Recent, Latest, Behind, Unindexed
<1>7. CallInv'
  <2> SUFFICES ASSUME NEW q \in Subscribers
               PROVE  /\ pc'[q] # "waiting"
                      /\ pc'[q] = "found" =>
                           \E e : Behind(found[q], e)' /\ InReach(q, e)'
    BY DEF CallInv
  <2>1. CASE q = r
    <3>1. PICK e : Behind(keyFrames[c], e) /\ (e <= 2 * Offset + 2 \/ e <= Gop + 1)
      BY <1>2
    <3>2. found'[q] = keyFrames[c] /\ pc'[q] = "found" /\ age' = age /\ age[q] \in Nat
      BY <1>1, <2>1 DEF Inv, TypeOK
    <3>3. Behind(found[q], e)'
      BY <1>1, <3>1, <3>2 DEF Behind
    <3>4. e <= 2 * Offset + 2 + age[q] \/ e <= Gop + 1 + age[q]
      BY <3>1, <3>2, Sizes DEF Behind
    <3> QED BY <3>2, <3>3, <3>4 DEF InReach
  <2>2. CASE q # r
    BY <1>1, <2>2 DEF Inv, CallInv, Behind, InReach, TypeOK
  <2> QED BY <2>1, <2>2
<1>8. ServedAsFound'
  <2> SUFFICES ASSUME NEW q \in Subscribers, pc'[q] = "first"
               PROVE  first'[q].idr /\ first'[q].pts = found'[q].pts
    BY DEF ServedAsFound
  <2>1. q # r
    BY <1>1 DEF Inv, TypeOK
  <2> QED BY <1>1, <2>1 DEF Inv, ServedAsFound, TypeOK
<1> QED BY <1>4, <1>5, <1>6, <1>7, <1>8 DEF Inv

LEMMA CopyRingInv ==
  ASSUME Inv, NEW r \in Subscribers, CopyRing(r)
  PROVE  Inv'
<1>1. PICK e : Behind(found[r], e) /\ InReach(r, e)
  BY DEF Inv, CallInv, CopyRing
<1>2. found[r].pos \in Slots /\ age[r] \in 0 .. Delay
  BY DEF Inv, TypeOK, Entries
<1>3. e \in Nat /\ e > 0 /\ e < Cap
  BY <1>1, <1>2, Sizes DEF Behind, InReach
<1>4. found[r].pos # writePos
  BY <1>1, <1>2, <1>3, OtherSlot DEF Behind
<1>5. /\ first' = [first EXCEPT ![r] = ring[found[r].pos]]
      /\ pc' = [pc EXCEPT ![r] = "first"]
      /\ UNCHANGED <<ring, writePos, stored, sinceIDR, newest, formatKnown, pending,
                     keyFrames, curPTS, startPTS, started, ready, found, age>>
  BY <1>4 DEF CopyRing, writerVars, indexVars
<1>6. TypeOK'
  BY <1>2, <1>5 DEF Inv, TypeOK
<1>7. WriterInv' /\ IndexInv'
  BY <1>5 DEF Inv, WriterInv, IndexInv, Sorted, IndexSound
<1>8. PlaceInv'
  BY <1>5 DEF Inv, PlaceInv, Recent, Latest, Behind, Unindexed
<1>9. CallInv'
  BY <1>5 DEF Inv, CallInv, Behind, InReach, TypeOK
<1>10. ServedAsFound'
  <2>1. ring[found[r].pos].pts = found[r].pts /\ ring[found[r].pos].idr
    BY <1>1, <1>3, Sizes DEF Behind
  <2> QED BY <1>5, <2>1 DEF Inv, ServedAsFound, TypeOK
<1> QED BY <1>6, <1>7, <1>8, <1>9, <1>10 DEF Inv

LEMMA StutterInv == Inv /\ UNCHANGED vars => Inv'
BY DEF vars, writerVars, indexVars, callVars, Inv, TypeOK, WriterInv, IndexInv, Sorted,
       IndexSound, PlaceInv, Recent, Latest, Behind, Unindexed, CallInv, InReach,
       ServedAsFound

LEMMA Invariant == Spec => []Inv
<1>1. Inv /\ [Next]_vars => Inv'
  BY DropFrameInv, StoreFrameInv, IndexFrameInv, LookUpInv, CopyRingInv, StutterInv
     DEF Next
<1> QED BY InitInv, <1>1, PTL DEF Spec

-----------------------------------------------------------------------------

(* Every variable has the values the code can give it.                      *)
THEOREM TypeCorrect == Spec => []TypeOK
<1>1. Inv => TypeOK
  BY DEF Inv
<1> QED BY <1>1, Invariant, PTL

(* The index, which is never cut, agrees with the ring, which wraps.        *)
THEOREM IndexAgrees == Spec => []IndexSound
<1>1. Inv => IndexSound
  BY DEF Inv, IndexInv
<1> QED BY <1>1, Invariant, PTL

(* The search that stops early misses no closer key frame.                  *)
THEOREM SearchFindsClosest == Spec => []ClosestFound
<1>1. Inv => ClosestFound
  <2> SUFFICES ASSUME Inv, keyFrames # <<>>, NEW i \in 1 .. Len(keyFrames)
               PROVE  Distance(ClosestKeyFrame) <= Distance(i)
    BY DEF ClosestFound
  <2>1. Times /\ Sorted
    BY TimesKnown DEF Inv, IndexInv
  <2> QED BY <2>1, LoopStops, StopIsClosest
<1> QED BY <1>1, Invariant, PTL

(* The look-up and the later copy of the ring take no common lock, and yet  *)
(* the subscriber starts with the key frame that was found.                 *)
THEOREM StartsAsFound == Spec => []ServedAsFound
<1>1. Inv => ServedAsFound
  BY DEF Inv
<1> QED BY <1>1, Invariant, PTL
=============================================================================
