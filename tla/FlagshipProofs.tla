--------------------------- MODULE FlagshipProofs ---------------------------
(***************************************************************************)
(* Proofs about what the flagship does outside its process: the directory  *)
(* of its database, for any age at which a database is too old, and its    *)
(* link to an escort, for any number of connections.                       *)
(***************************************************************************)
EXTENDS Locator, SrtLink, FiniteSetTheorems, TLAPS

-----------------------------------------------------------------------------
(* The database's directory.                                                *)

(* What the process knows of the directory at each place: that newestFile   *)
(* is the newest there is, that there is none to be lost when a new one is  *)
(* fetched, and that the file it writes is still its own.                   *)
Knows ==
  /\ pc = "remove" =>
       \/ newest \in Ages /\ Newest(newest)
       \/ newest = Nothing /\ \A a \in Ages : files[a] = "none"
  /\ pc \in {"download", "write"} => \A a \in 0 .. MaxAge : files[a] = "none"
  /\ pc = "writing" => newest = 0 /\ files[0] = "part"
  /\ pc = "mount" => newest \in Ages

DbInv == DbTypeOK /\ Knows

(* Ages are numbers, of which the last is the age of those too old.         *)
LEMMA AgesAreNumbers ==
  /\ MaxAge \in Nat /\ TooOld = MaxAge + 1 /\ Nothing = MaxAge + 2
  /\ Ages = 0 .. MaxAge + 1 /\ 0 \in Ages /\ 0 .. MaxAge \subseteq Ages
  /\ Nothing \notin Ages
BY AgeAssumption DEF TooOld, Nothing, Ages

(* There is one newest file.                                                *)
LEMMA NewestUnique ==
  ASSUME NEW a \in Ages, NEW b \in Ages, Newest(a), Newest(b)
  PROVE  a = b
<1>1. a \in Nat /\ b \in Nat
  BY AgesAreNumbers
<1>2. ~(a < b) /\ ~(b < a)
  BY <1>1 DEF Newest
<1> QED BY <1>1, <1>2

LEMMA InitKnows == DbInit => DbInv
<1> SUFFICES ASSUME DbInit PROVE DbInv
  OBVIOUS
<1>1. DbTypeOK
  <2>1. crashes \in 0 .. MaxCrashes
    BY CrashAssumption DEF DbInit
  <2> QED BY <2>1 DEF DbInit, DbTypeOK
<1>2. Knows
  BY DEF DbInit, Knows
<1> QED BY <1>1, <1>2 DEF DbInv

(* A day never falls into a start; every other step keeps what is known.    *)
LEMMA StepKnows ==
  ASSUME DbInv, [DbNext]_dbVars
  PROVE  DbInv'
<1> USE DEF DbInv, DbTypeOK
<1>1. CASE Start
  BY <1>1 DEF Start, Knows
<1>2. CASE Scan
  <2>1. DbTypeOK'
    BY <1>2, AgesAreNumbers DEF Scan, Fails
  <2>2. CASE pc' = "down"
    BY <2>1, <2>2 DEF Knows
  <2>3. CASE pc' = "remove"
    <3>1. files' = files
      BY <1>2 DEF Scan
    <3>2. \/ \E a \in Ages : Newest(a) /\ newest' = a
          \/ (\A a \in Ages : files[a] = "none") /\ newest' = Nothing
      BY <1>2, <2>3 DEF Scan, Fails
    <3> QED BY <2>1, <2>3, <3>1, <3>2 DEF Knows, Newest
  <2> QED BY <1>2, <2>1, <2>2, <2>3 DEF Scan, Fails
<1>3. CASE Remove
  <2>1. PICK left \in SUBSET Ages :
          files' = [a \in Ages |-> IF a = newest \/ a \in left THEN files[a]
                                                                ELSE "none"]
    BY <1>3 DEF Remove
  <2>2. files' \in [Ages -> {"none", "part", "good"}] /\ newest' = newest
        /\ crashes' = crashes /\ pc' \in {"download", "mount"}
    BY <1>3, <2>1 DEF Remove
  <2>3. \A a \in Ages : files[a] = "none" => files'[a] = "none"
    BY <2>1
  <2>4. CASE newest > MaxAge
    <3>1. pc' = "download"
      BY <1>3, <2>4 DEF Remove
    <3>2. \/ newest = TooOld /\ Newest(newest)
          \/ \A a \in Ages : files[a] = "none"
      BY <1>3, <2>4, AgesAreNumbers DEF Remove, Knows
    <3>3. \A a \in 0 .. MaxAge : files[a] = "none"
      BY <3>2, AgesAreNumbers DEF Newest
    <3>4. \A a \in 0 .. MaxAge : files'[a] = "none"
      BY <2>3, <3>3, AgesAreNumbers
    <3> QED BY <2>2, <3>1, <3>4 DEF Knows
  <2>5. CASE ~(newest > MaxAge)
    <3>1. pc' = "mount"
      BY <1>3, <2>5 DEF Remove
    <3>2. newest \in Ages
      BY <2>5, AgesAreNumbers
    <3> QED BY <2>2, <3>1, <3>2 DEF Knows
  <2> QED BY <2>4, <2>5
<1>4. CASE Download
  BY <1>4 DEF Download, Fails, Knows
<1>5. CASE CreateFile
  BY <1>5, AgesAreNumbers DEF CreateFile, Knows
<1>6. CASE WriteFile
  BY <1>6, AgesAreNumbers DEF WriteFile, Fails, Knows
<1>7. CASE Mount
  BY <1>7 DEF Mount, Fails, Knows
<1>8. CASE Stop
  BY <1>8 DEF Stop, Fails, Knows
<1>9. CASE Crash
  <2>1. crashes' \in 0 .. MaxCrashes
    BY <1>9, CrashAssumption DEF Crash
  <2> QED BY <1>9, <2>1 DEF Crash, Fails, Knows
<1>10. CASE Day
  <2>1. pc' \in {"down", "up"} /\ pc' = pc /\ newest' = newest /\ crashes' = crashes
    BY <1>10 DEF Day
  <2>2. files' \in [Ages -> {"none", "part", "good"}]
    <3>1. \A a \in Ages : a # 0 => a - 1 \in Ages
      BY AgesAreNumbers
    <3>2. TooOld \in Ages
      BY AgesAreNumbers
    <3> QED BY <1>10, <3>1, <3>2 DEF Day
  <2> QED BY <2>1, <2>2 DEF Knows
<1>11. CASE UNCHANGED dbVars
  BY <1>11 DEF dbVars, Knows, Newest
<1> QED
  BY <1>1, <1>2, <1>3, <1>4, <1>5, <1>6, <1>7, <1>8, <1>9, <1>10, <1>11
  DEF DbNext, Load

LEMMA AlwaysKnows == DbSpec => []DbInv
<1>1. DbInit => DbInv
  BY InitKnows
<1>2. DbInv /\ [DbNext]_dbVars => DbInv'
  BY StepKnows
<1> QED BY <1>1, <1>2, PTL DEF DbSpec

(* Every variable has the values the code can give it.                      *)
THEOREM DbTypeCorrect == DbSpec => []DbTypeOK
<1>1. DbInv => DbTypeOK
  BY DEF DbInv
<1> QED BY <1>1, AlwaysKnows, PTL

(* One step loses no recent whole database that is the newest file: removal *)
(* spares the newest, and what is written is written where there is none.   *)
LEMMA StepSpares ==
  ASSUME DbInv, [DbNext]_dbVars
  PROVE  \A a \in 0 .. MaxAge :
           Newest(a) /\ files[a] = "good" /\ ~Day => files'[a] = "good"
<1> SUFFICES ASSUME NEW a \in 0 .. MaxAge, Newest(a), files[a] = "good", ~Day
             PROVE  files'[a] = "good"
  OBVIOUS
<1>0. a \in Ages
  BY AgesAreNumbers
<1>1. CASE Remove
  <2>1. newest = a
    <3>1. ~\A b \in Ages : files[b] = "none"
      BY <1>0
    <3> QED BY <1>0, <1>1, <3>1, NewestUnique DEF Remove, DbInv, Knows
  <2> QED BY <1>0, <1>1, <2>1 DEF Remove
<1>2. CASE CreateFile
  BY <1>2 DEF CreateFile, DbInv, Knows
<1>3. CASE WriteFile
  <2>1. a # 0
    BY <1>3 DEF WriteFile, DbInv, Knows
  <2> QED BY <1>0, <1>3, <2>1 DEF WriteFile, DbInv, DbTypeOK
<1>4. CASE UNCHANGED files
  BY <1>4
<1> QED
  BY <1>1, <1>2, <1>3, <1>4
  DEF DbNext, Load, Start, Scan, Download, Mount, Stop, Crash, dbVars

(* A recent whole database that is the newest file is never lost, whatever  *)
(* fails and however often the process is killed.                           *)
THEOREM DatabaseSurvives == DbSpec => NewestSurvives
<1>1. DbInv /\ [DbNext]_dbVars =>
        [\A a \in 0 .. MaxAge :
           Newest(a) /\ files[a] = "good" /\ ~Day => files'[a] = "good"]_dbVars
  BY StepSpares
<1> QED BY <1>1, AlwaysKnows, PTL DEF DbSpec, NewestSurvives

-----------------------------------------------------------------------------
(* The link to the flagship.                                                *)

(* A Dial or a read loop that will dial is at link c.                       *)
Seeks(c) == dialed[c] \in {"asked", "add"} \/ reading[c] = "loop"

LinkTypes ==
  /\ dialing \in BOOLEAN
  /\ dialed \in [Links -> {"none", "asked", "add", "up", "shut"}]
  /\ reading \in [Links -> {"no", "loop", "eof"}]
  /\ lost \in BOOLEAN

(* Nobody seeks besides a Dial between two links, nor at two links; and     *)
(* somebody does until the history says that nobody will.                   *)
Alone ==
  /\ dialing => \A c \in Links : ~Seeks(c)
  /\ \A c, d \in Links : Seeks(c) /\ Seeks(d) => c = d
  /\ lost = ~(dialing \/ \E c \in Links : Seeks(c))

(* A link is read once the Haven has it, and until after it was shut.       *)
ReadsWhatItHas == \A c \in Links : reading[c] # "no" => dialed[c] \in {"up", "shut"}

LinkInv == LinkTypes /\ Alone /\ ReadsWhatItHas

LEMMA InitLinkInv == Init => LinkInv
BY DEF Init, LinkInv, LinkTypes, Alone, Seeks, ReadsWhatItHas

(* A step of a link leaves the other links as they were.                    *)
LEMMA OneLinkMoves ==
  ASSUME LinkTypes, NEW c \in Links, NEW x, NEW y,
         dialed' = [dialed EXCEPT ![c] = x], reading' = [reading EXCEPT ![c] = y]
  PROVE  /\ dialed'[c] = x /\ reading'[c] = y
         /\ \A d \in Links : d # c => /\ dialed'[d] = dialed[d]
                                      /\ reading'[d] = reading[d]
                                      /\ Seeks(d)' = Seeks(d)
BY DEF LinkTypes, Seeks

(* Whoever seeks goes on at the same link, or stops, or starts.             *)
LEMMA SeekerMoves ==
  ASSUME LinkInv, NEW c \in Links,
         LinkTypes', ReadsWhatItHas',
         \A d \in Links : d # c => Seeks(d)' = Seeks(d),
         \/ Seeks(c)' = Seeks(c) /\ UNCHANGED <<dialing, lost>>
         \/ dialing /\ ~dialing' /\ Seeks(c)' /\ UNCHANGED lost
         \/ Seeks(c) /\ ~Seeks(c)' /\ dialing' /\ UNCHANGED lost
         \/ Seeks(c) /\ ~Seeks(c)' /\ lost' = TRUE /\ UNCHANGED dialing
  PROVE  LinkInv'
<1>1. CASE Seeks(c)' = Seeks(c) /\ UNCHANGED <<dialing, lost>>
  <2>1. \A d \in Links : Seeks(d)' = Seeks(d)
    BY <1>1
  <2> QED BY <1>1, <2>1 DEF LinkInv, Alone
<1>2. CASE dialing /\ ~dialing' /\ Seeks(c)' /\ UNCHANGED lost
  <2>1. \A d \in Links : d # c => ~Seeks(d)'
    BY <1>2 DEF LinkInv, Alone
  <2> QED BY <1>2, <2>1 DEF LinkInv, Alone
<1>3. CASE Seeks(c) /\ ~Seeks(c)'
  <2>1. \A d \in Links : ~Seeks(d)'
    BY <1>3 DEF LinkInv, Alone
  <2>2. ~dialing /\ ~lost
    BY <1>3 DEF LinkInv, Alone
  <2>3. CASE dialing' /\ UNCHANGED lost
    BY <2>1, <2>2, <2>3 DEF LinkInv, LinkTypes, Alone
  <2>4. CASE lost' = TRUE /\ UNCHANGED dialing
    BY <2>1, <2>2, <2>4 DEF LinkInv, LinkTypes, Alone
  <2> QED BY <1>3, <2>3, <2>4
<1> QED BY <1>1, <1>2, <1>3

LEMMA EscortLinkInv ==
  ASSUME LinkInv, NEW c \in Links,
         EscortStep(c) \/ AttemptFails(c) \/ ReadFails(c) \/ EndRead(c)
  PROVE  LinkInv'
<1>0. LinkTypes /\ ReadsWhatItHas
  BY DEF LinkInv
<1> DEFINE Moves(x, y) ==
        /\ dialed' = [dialed EXCEPT ![c] = x] /\ reading' = [reading EXCEPT ![c] = y]
        /\ x \in {"none", "asked", "add", "up", "shut"} /\ y \in {"no", "loop", "eof"}
        /\ dialing' \in BOOLEAN /\ lost' \in BOOLEAN
        /\ y # "no" => x \in {"up", "shut"}
        /\ LET seeks == x \in {"asked", "add"} \/ y = "loop"
           IN  \/ (seeks <=> Seeks(c)) /\ UNCHANGED <<dialing, lost>>
               \/ dialing /\ ~dialing' /\ seeks /\ UNCHANGED lost
               \/ Seeks(c) /\ ~seeks /\ dialing' /\ UNCHANGED lost
               \/ Seeks(c) /\ ~seeks /\ lost' = TRUE /\ UNCHANGED dialing
<1>1. \E x, y : Moves(x, y)
  <2>0. /\ dialed = [dialed EXCEPT ![c] = dialed[c]]
        /\ reading = [reading EXCEPT ![c] = reading[c]]
        /\ dialed[c] \in {"none", "asked", "add", "up", "shut"}
        /\ reading[c] \in {"no", "loop", "eof"}
        /\ reading[c] # "no" => dialed[c] \in {"up", "shut"}
        /\ dialing \in BOOLEAN /\ lost \in BOOLEAN
    BY <1>0 DEF LinkTypes, ReadsWhatItHas
  <2>1. CASE Attempt(c)
    <3>1. Moves("asked", "no")
      BY <2>0, <2>1 DEF Attempt, Free
    <3> HIDE DEF Moves
    <3> QED BY <3>1
  <2>2. CASE Connect(c)
    <3>1. Moves("add", reading[c])
      BY <2>0, <2>2 DEF Connect, Seeks
    <3> HIDE DEF Moves
    <3> QED BY <3>1
  <2>3. CASE AddFlagship(c)
    <3>1. Moves("up", "loop") \/ Moves("shut", "no")
      BY <2>0, <2>3 DEF AddFlagship, Seeks
    <3> HIDE DEF Moves
    <3> QED BY <3>1
  <2>4. CASE ReadEof(c)
    <3>1. Moves(dialed[c], "eof")
      BY <2>0, <2>4 DEF ReadEof, Seeks
    <3> HIDE DEF Moves
    <3> QED BY <3>1
  <2>5. CASE CloseRead(c)
    <3>1. Moves("shut", "no")
      BY <2>0, <2>5 DEF CloseRead, Seeks
    <3> HIDE DEF Moves
    <3> QED BY <3>1
  <2>6. CASE ClearFlagship(c)
    <3>1. Moves(dialed[c], reading[c])
      BY <2>0, <2>6 DEF ClearFlagship, Seeks
    <3> HIDE DEF Moves
    <3> QED BY <3>1
  <2>7. CASE AttemptFails(c)
    <3>1. Moves("shut", "no")
      BY <2>0, <2>7 DEF AttemptFails, Seeks
    <3> HIDE DEF Moves
    <3> QED BY <3>1
  <2>8. CASE ReadFails(c)
    <3>1. Moves("shut", reading[c])
      BY <2>0, <2>8 DEF ReadFails, Seeks
    <3> HIDE DEF Moves
    <3> QED BY <3>1
  <2>9. CASE EndRead(c)
    <3>1. Moves("shut", "no")
      BY <2>0, <2>9 DEF EndRead, Seeks
    <3> HIDE DEF Moves
    <3> QED BY <3>1
  <2> QED BY <2>1, <2>2, <2>3, <2>4, <2>5, <2>6, <2>7, <2>8, <2>9 DEF EscortStep
<1>1a. PICK x, y : Moves(x, y)
  BY <1>1
<1>2. /\ dialed'[c] = x /\ reading'[c] = y
      /\ \A d \in Links : d # c => /\ dialed'[d] = dialed[d] /\ reading'[d] = reading[d]
                                   /\ Seeks(d)' = Seeks(d)
  <2>1. dialed' = [dialed EXCEPT ![c] = x] /\ reading' = [reading EXCEPT ![c] = y]
    BY <1>1a
  <2> HIDE DEF Moves
  <2>2. LinkTypes
    BY <1>0
  <2> QED BY <2>1, <2>2, OneLinkMoves, ZenonT(30)
<1>3. LinkTypes'
  BY <1>0, <1>1a DEF LinkTypes
<1>4. ReadsWhatItHas'
  BY <1>0, <1>1a, <1>2 DEF ReadsWhatItHas
<1>5. Seeks(c)' <=> x \in {"asked", "add"} \/ y = "loop"
  BY <1>2 DEF Seeks
<1>6. \/ Seeks(c)' = Seeks(c) /\ UNCHANGED <<dialing, lost>>
      \/ dialing /\ ~dialing' /\ Seeks(c)' /\ UNCHANGED lost
      \/ Seeks(c) /\ ~Seeks(c)' /\ dialing' /\ UNCHANGED lost
      \/ Seeks(c) /\ ~Seeks(c)' /\ lost' = TRUE /\ UNCHANGED dialing
  BY <1>1a, <1>5 DEF Seeks
<1>7. \A d \in Links : d # c => Seeks(d)' = Seeks(d)
  BY <1>2
<1> HIDE DEF Moves
<1> QED BY <1>3, <1>4, <1>6, <1>7, SeekerMoves

(* The flagship and the network leave the escort's end alone.               *)
LEMMA NextLinkInv == LinkInv /\ [Next]_vars => LinkInv'
<1> SUFFICES ASSUME LinkInv, [Next]_vars PROVE LinkInv'
  OBVIOUS
<1>1. CASE UNCHANGED <<dialing, dialed, reading, lost>>
  <2>1. \A c \in Links : Seeks(c)' = Seeks(c)
    BY <1>1 DEF Seeks
  <2> QED BY <1>1, <2>1 DEF LinkInv, LinkTypes, Alone, ReadsWhatItHas
<1>2. ASSUME NEW c \in Links, ServerStep(c) \/ Broadcast(c) \/ LinkBreaks(c)
      PROVE  UNCHANGED escortVars
  BY <1>2 DEF ServerStep, Accept2, Queue, Handle, AddEscort, CloseSocket, RemoveEscort,
              Broadcast, LinkBreaks
<1>3. CASE \/ EndListener \/ EndHandler \/ Cancel \/ WaitDone
           \/ PublisherComes \/ ClearEscorts \/ DropEscorts
  BY <1>1, <1>3 DEF EndListener, EndHandler, Cancel, WaitDone, PublisherComes,
                    ClearEscorts, DropEscorts, escortVars
<1> QED BY <1>1, <1>2, <1>3, EscortLinkInv DEF Next, vars, escortVars

LEMMA AlwaysLinkInv == Spec => []LinkInv
BY InitLinkInv, NextLinkInv, PTL DEF Spec

(* There is never more than one goroutine at the escort from which the next *)
(* link will come, and one until the Haven has refused a link or a read     *)
(* loop has ended without EOF, whatever fails, and however many links there *)
(* have been.                                                               *)
THEOREM SeekerIsOne == Spec => []OneSeeker
<1>1. ASSUME LinkInv PROVE OneSeeker
  <2>1. Seeking \cup Reading = {c \in Links : Seeks(c)}
    BY DEF Seeking, Reading, Seeks
  <2>2. Seeking \cap Reading = {}
    BY <1>1 DEF LinkInv, ReadsWhatItHas, Seeking, Reading
  <2>3. Cardinality(Seeking \cup Reading) <= 1
    <3>1. CASE Seeking \cup Reading = {}
      BY <3>1, FS_EmptySet
    <3>2. CASE Seeking \cup Reading # {}
      <4>1. PICK c \in Links : Seeking \cup Reading = {c}
        BY <1>1, <2>1, <3>2 DEF LinkInv, Alone
      <4> QED BY <4>1, FS_Singleton
    <3> QED BY <3>1, <3>2
  <2>4. /\ dialing => Seeking = {} /\ Reading = {}
        /\ lost = ~(dialing \/ Seeking # {} \/ Reading # {})
    BY <1>1, <2>1 DEF LinkInv, Alone, Seeking, Reading, Seeks
  <2> QED BY <2>2, <2>3, <2>4 DEF OneSeeker
<1> QED BY <1>1, AlwaysLinkInv, PTL

(* Nobody dials and nobody would after EOF.                                 *)
NobodySeeks == ~dialing /\ Seeking = {} /\ Reading = {}

(* When nobody seeks, nobody starts to, and no link becomes publisher.      *)
LEMMA NobodyStarts ==
  ASSUME LinkInv, [Next]_vars, lost
  PROVE  lost' /\ (publisher' = publisher \/ publisher' = None)
<1>0. ~dialing /\ \A c \in Links : ~Seeks(c)
  BY DEF LinkInv, LinkTypes, Alone
<1>1. ASSUME NEW c \in Links,
             \/ Attempt(c) \/ AttemptFails(c) \/ Connect(c) \/ AddFlagship(c)
             \/ ReadEof(c) \/ ReadFails(c) \/ EndRead(c)
      PROVE  FALSE
  BY <1>0, <1>1 DEF Attempt, AttemptFails, Connect, AddFlagship, ReadEof, ReadFails,
                    EndRead, Seeks
<1>2. ASSUME NEW c \in Links, CloseRead(c) \/ ClearFlagship(c)
      PROVE  lost' /\ (publisher' = publisher \/ publisher' = None)
  BY <1>2 DEF CloseRead, ClearFlagship
<1>3. CASE UNCHANGED escortVars
  BY <1>3 DEF escortVars
<1>4. ASSUME NEW c \in Links, ServerStep(c) \/ Broadcast(c) \/ LinkBreaks(c)
      PROVE  UNCHANGED escortVars
  BY <1>4 DEF ServerStep, Accept2, Queue, Handle, AddEscort, CloseSocket, RemoveEscort,
              Broadcast, LinkBreaks
<1>5. CASE \/ EndListener \/ EndHandler \/ Cancel \/ WaitDone
           \/ PublisherComes \/ ClearEscorts \/ DropEscorts \/ UNCHANGED vars
  BY <1>3, <1>5 DEF EndListener, EndHandler, Cancel, WaitDone, PublisherComes,
                    ClearEscorts, DropEscorts, vars
<1> QED BY <1>1, <1>2, <1>3, <1>4, <1>5 DEF Next, EscortStep

(* An escort whose Haven has refused a link, or whose read loop ended       *)
(* without EOF, never has a flagship again: the first alternative of        *)
(* FindsFlagshipAgain is final.                                             *)
THEOREM LostIsFinal ==
  Spec => /\ [](lost => []NobodySeeks)
          /\ [][lost => publisher' = publisher \/ publisher' = None]_vars
<1>1. LinkInv /\ lost => NobodySeeks
  BY DEF LinkInv, LinkTypes, Alone, Seeks, NobodySeeks, Seeking, Reading
<1>2. LinkInv /\ [Next]_vars /\ lost => lost'
  BY NobodyStarts
<1>3. LinkInv /\ [Next]_vars => [lost => publisher' = publisher \/ publisher' = None]_vars
  BY NobodyStarts
<1> QED BY <1>1, <1>2, <1>3, AlwaysLinkInv, PTL DEF Spec

-----------------------------------------------------------------------------
(* The flagship's server.                                                   *)

(* A link that was never used is unknown at both ends.  The listener holds  *)
(* at most one request, and only while it sends.  The handler ends when the *)
(* server is closed, and Close returns when the listener has ended.         *)
ServerInv ==
  /\ TypeOK
  /\ \A c \in Links : dialed[c] = "none" => accepted[c] = "none"
  /\ \A c \in Links : accepted[c] = "held" => listener = "send"
  /\ \A c, d \in Links : accepted[c] = "held" /\ accepted[d] = "held" => c = d
  /\ handler = "done" => closing # "no"
  /\ closing = "closed" => listener = "done"

LEMMA InitServerInv == Init => ServerInv
<1>1. 0 \in 0 .. MaxFails
  BY FailAssumption
<1> QED BY <1>1 DEF Init, ServerInv, TypeOK

(* The steps of the escort, of which a dial makes and gives up links.       *)
LEMMA EscortServerInv ==
  ASSUME ServerInv, NEW c \in Links,
         EscortStep(c) \/ AttemptFails(c) \/ ReadFails(c) \/ EndRead(c)
  PROVE  ServerInv'
<1>0. TypeOK /\ \A d \in Links : dialed[d] = "none" => accepted[d] = "none"
  BY DEF ServerInv
<1>1. CASE Attempt(c)
  <2>1. \A d \in Links : /\ accepted'[d] = "held" => accepted[d] = "held"
                        /\ dialed'[d] = "none" => accepted'[d] = "none"
    BY <1>0, <1>1 DEF Attempt, TypeOK
  <2>2. TypeOK'
    BY <1>0, <1>1 DEF Attempt, TypeOK, serverVars
  <2> QED BY <1>1, <2>1, <2>2 DEF Attempt, ServerInv, serverVars
<1>2. CASE AttemptFails(c)
  <2>1. \A d \in Links : /\ accepted'[d] = "held" => accepted[d] = "held"
                        /\ dialed'[d] = "none" => accepted'[d] = "none"
    BY <1>0, <1>2 DEF AttemptFails, TypeOK
  <2>2. fails' \in 0 .. MaxFails
    BY <1>0, <1>2, FailAssumption DEF AttemptFails, TypeOK
  <2>3. TypeOK'
    BY <1>0, <1>2, <2>2 DEF AttemptFails, TypeOK, serverVars
  <2> QED BY <1>2, <2>1, <2>3 DEF AttemptFails, ServerInv, serverVars
<1>3. ASSUME UNCHANGED <<fails, flagshipVars, serverVars, closed>>,
             dialing' \in BOOLEAN, lost' \in BOOLEAN, publisher' \in Links \cup {None},
             NEW x \in {"add", "up", "shut"}, NEW y \in {"no", "loop", "eof"},
             dialed' = [dialed EXCEPT ![c] = x] \/ dialed' = dialed,
             reading' = [reading EXCEPT ![c] = y] \/ reading' = reading
      PROVE  ServerInv'
  <2>1. dialed' \in [Links -> {"none", "asked", "add", "up", "shut"}]
    BY <1>0, <1>3 DEF TypeOK
  <2>2. reading' \in [Links -> {"no", "loop", "eof"}]
    BY <1>0, <1>3 DEF TypeOK
  <2>3. TypeOK'
    BY <1>0, <1>3, <2>1, <2>2 DEF TypeOK, flagshipVars, serverVars
  <2>4. \A d \in Links : dialed'[d] = "none" => dialed[d] = "none"
    BY <1>0, <1>3 DEF TypeOK
  <2> QED BY <1>3, <2>3, <2>4 DEF ServerInv, flagshipVars, serverVars
<1>4. dialing \in BOOLEAN /\ lost \in BOOLEAN /\ publisher \in Links \cup {None}
  BY <1>0 DEF TypeOK
<1>5. CASE Connect(c)
  BY <1>3, <1>4, <1>5 DEF Connect
<1>6. CASE AddFlagship(c)
  BY <1>3, <1>4, <1>6 DEF AddFlagship
<1>7. CASE ReadEof(c)
  BY <1>3, <1>4, <1>7 DEF ReadEof
<1>8. CASE CloseRead(c)
  BY <1>3, <1>4, <1>8 DEF CloseRead
<1>9. CASE ClearFlagship(c)
  BY <1>3, <1>4, <1>9 DEF ClearFlagship
<1>10. CASE ReadFails(c)
  BY <1>3, <1>4, <1>10 DEF ReadFails
<1>11. CASE EndRead(c)
  BY <1>3, <1>4, <1>11 DEF EndRead
<1> QED BY <1>1, <1>2, <1>5, <1>6, <1>7, <1>8, <1>9, <1>10, <1>11 DEF EscortStep

(* The steps of the flagship and of the network touch no unused link.       *)
LEMMA NextServerInv == ServerInv /\ [Next]_vars => ServerInv'
<1> SUFFICES ASSUME ServerInv, [Next]_vars PROVE ServerInv'
  OBVIOUS
<1> USE DEF ServerInv, TypeOK, escortVars, serverVars, flagshipVars
<1>1. ASSUME NEW c \in Links, Accept2(c) \/ Queue(c) \/ Handle(c) \/ AddEscort(c)
      PROVE  ServerInv'
  <2>1. CASE Accept2(c)
    <3>1. \A d \in Links : accepted'[d] = "held" => d = c
      BY <2>1 DEF Accept2
    <3> QED BY <2>1, <3>1 DEF Accept2
  <2>2. CASE Queue(c)
    <3>1. \A d \in Links : accepted'[d] # "held"
      BY <2>2 DEF Queue
    <3>2. listener = "send"
      BY <2>2 DEF Queue
    <3> QED BY <2>2, <3>1, <3>2 DEF Queue
  <2>3. CASE Handle(c) \/ AddEscort(c)
    BY <2>3 DEF Handle, AddEscort
  <2> QED BY <1>1, <2>1, <2>2, <2>3
<1>2. ASSUME NEW c \in Links, CloseSocket(c) \/ RemoveEscort(c) \/ Broadcast(c) \/ LinkBreaks(c)
      PROVE  ServerInv'
  BY <1>2 DEF CloseSocket, RemoveEscort, Broadcast, LinkBreaks
<1>3. CASE EndListener
  <2>1. accepted' \in [Links -> {"none", "asked", "held", "queued", "add", "up", "gone", "over"}]
    BY <1>3 DEF EndListener
  <2>2. \A c \in Links : /\ accepted[c] = "none" => accepted'[c] = "none"
                        /\ accepted'[c] # "held"
    BY <1>3 DEF EndListener
  <2> QED BY <1>3, <2>1, <2>2 DEF EndListener
<1>6. CASE EndHandler \/ Cancel \/ WaitDone
  BY <1>6 DEF EndHandler, Cancel, WaitDone
<1>4. CASE PublisherComes \/ ClearEscorts \/ DropEscorts
  BY <1>4 DEF PublisherComes, ClearEscorts, DropEscorts
<1>5. CASE UNCHANGED vars
  BY <1>5 DEF vars
<1> HIDE DEF ServerInv
<1> QED BY <1>1, <1>2, <1>3, <1>4, <1>5, <1>6, EscortServerInv DEF Next, ServerStep

LEMMA AlwaysServerInv == Spec => []ServerInv
BY InitServerInv, NextServerInv, PTL DEF Spec

(* Every variable has the values the code can give it.                      *)
THEOREM TypeCorrect == Spec => []TypeOK
<1>1. ServerInv => TypeOK
  BY DEF ServerInv
<1> QED BY <1>1, AlwaysServerInv, PTL

(* A full acceptCh that nobody empties stays as it is.                      *)
LEMMA StuckStays ==
  ASSUME ServerInv, [Next]_vars, Stuck
  PROVE  Stuck' /\ closing' = "wait"
<1>0. /\ TypeOK /\ listener = "send" /\ handler = "done" /\ closing = "wait"
      /\ ~(Cardinality(Queued) < AcceptCap)
  BY AcceptAssumption DEF ServerInv, TypeOK, Stuck
<1>1. ASSUME UNCHANGED <<listener, handler, closing>>,
             \A c \in Links : accepted'[c] = "queued" <=> accepted[c] = "queued"
      PROVE  Stuck' /\ closing' = "wait"
  <2>1. Queued' = Queued
    BY <1>1 DEF Queued
  <2> QED BY <1>0, <1>1, <2>1 DEF Stuck
<1>2. ASSUME NEW c \in Links, Attempt(c) \/ AttemptFails(c)
      PROVE  Stuck' /\ closing' = "wait"
  <2>1. UNCHANGED <<listener, handler, closing>>
    BY <1>2 DEF Attempt, AttemptFails, serverVars
  <2>2. \/ UNCHANGED accepted
        \/ /\ accepted[c] # "queued" /\ accepted'[c] # "queued"
           /\ accepted' = [accepted EXCEPT ![c] = accepted'[c]]
    BY <1>0, <1>2 DEF Attempt, AttemptFails, Free, ServerInv, TypeOK
  <2> QED BY <1>0, <1>1, <2>1, <2>2 DEF TypeOK
<1>3. ASSUME NEW c \in Links, Handle(c) \/ Accept2(c) \/ Queue(c)
      PROVE  FALSE
  BY <1>0, <1>3 DEF Handle, Accept2, Queue
<1>4. ASSUME NEW c \in Links, AddEscort(c) \/ RemoveEscort(c)
      PROVE  Stuck' /\ closing' = "wait"
  BY <1>0, <1>1, <1>4 DEF AddEscort, RemoveEscort, TypeOK, serverVars
<1>5. ASSUME NEW c \in Links,
             \/ Connect(c) \/ AddFlagship(c) \/ ReadEof(c) \/ CloseRead(c)
             \/ ClearFlagship(c) \/ ReadFails(c) \/ EndRead(c)
             \/ CloseSocket(c) \/ Broadcast(c) \/ LinkBreaks(c)
      PROVE  Stuck' /\ closing' = "wait"
  BY <1>1, <1>5
  DEF Connect, AddFlagship, ReadEof, CloseRead, ClearFlagship, ReadFails, EndRead,
      CloseSocket, Broadcast, LinkBreaks, serverVars, flagshipVars
<1>6. CASE EndListener \/ EndHandler \/ Cancel \/ WaitDone
  BY <1>0, <1>6 DEF EndListener, EndHandler, Cancel, WaitDone
<1>7. CASE PublisherComes \/ ClearEscorts \/ DropEscorts \/ UNCHANGED vars
  BY <1>1, <1>7
  DEF PublisherComes, ClearEscorts, DropEscorts, vars, serverVars, flagshipVars
<1> QED BY <1>2, <1>3, <1>4, <1>5, <1>6, <1>7 DEF Next, EscortStep, ServerStep

(* Once the handler has ended with acceptCh full and the listener at its    *)
(* send, Close of the server waits for the listener for ever: the           *)
(* alternative of ServerCloses is final.                                    *)
THEOREM StuckForGood == Spec => [](Stuck => [](Stuck /\ closing = "wait"))
<1> DEFINE Waits == closing = "wait"
<1>1. ServerInv /\ Stuck => Waits
  BY DEF ServerInv, TypeOK, Stuck
<1>2. ServerInv /\ Stuck /\ [Next]_vars => Stuck' /\ Waits'
  BY StuckStays
<1> QED BY <1>1, <1>2, AlwaysServerInv, PTL DEF Spec
=============================================================================
