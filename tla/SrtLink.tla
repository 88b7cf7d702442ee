------------------------------- MODULE SrtLink -------------------------------
(***************************************************************************)
(* An escort and its flagship, joined by SRT connections: Dial and the     *)
(* read loop at the escort, the listener, the handler of requests and      *)
(* Close at the flagship (src/protocols/srt/server.go, connection.go),     *)
(* with what the two Havens do to their connections.                       *)
(*                                                                         *)
(* A link is one attempt to connect; it has an end at the escort and one   *)
(* at the flagship, and a socket that both see closed.  A link that is     *)
(* over at both ends is used again.  gosrt is external: a dial answers     *)
(* when the flagship accepts it or gives up after its own timeout, and a   *)
(* closed socket reads and writes as EOF.                                  *)
(*                                                                         *)
(* The main program of the escort exits as soon as it has cancelled its    *)
(* context, so here the escort runs for ever.                              *)
(***************************************************************************)
EXTENDS Naturals, FiniteSets

CONSTANTS
  Links,       (* the connections there may be at a time                   *)
  None,
  AcceptCap,   (* requests that acceptCh may hold                          *)
  MaxFails     (* bound of the model: attempts that the network swallows   *)

ASSUME NoneAssumption == None \notin Links
ASSUME AcceptAssumption == AcceptCap \in Nat \ {0}
ASSUME FailAssumption == MaxFails \in Nat

VARIABLES
  dialing,     (* a Dial of the escort looks for the flagship              *)
  dialed,      (* the escort's end of each link: "none", "asked", "add",   *)
               (* "up" or "shut"                                           *)
  reading,     (* where the read goroutine of each link is: "no", "loop"   *)
               (* or "eof"                                                 *)
  publisher,   (* the link that is the publisher of the escort's Haven     *)
  lost,        (* nobody at the escort will dial any more: history          *)
  fails,       (* attempts swallowed so far                                *)
  accepted,    (* the flagship's end of each link: "none", "asked",        *)
               (* "held", "queued", "add", "up", "gone" or "over"          *)
  shut,        (* links whose end at the flagship had its context cancelled*)
  escorts,     (* the escorts of the flagship's Haven                      *)
  stage,       (* the flagship's publisher: "none", "live", steps of clear *)
  listener,    (* the goroutine that calls Accept2: "accept", "send" or    *)
               (* "done"                                                   *)
  handler,     (* the goroutine that takes requests from acceptCh: "loop"  *)
               (* or "done"                                                *)
  closing,     (* where the flagship's server.Close is: "no", "wait" or    *)
               (* "closed"                                                 *)
  closed       (* links whose socket is closed                             *)

escortVars == <<dialing, dialed, reading, publisher, lost, fails>>
serverVars == <<listener, handler, closing>>
flagshipVars == <<accepted, shut, escorts, stage>>
vars == <<escortVars, flagshipVars, serverVars, closed>>

Init ==
  /\ dialing = TRUE
  /\ dialed = [c \in Links |-> "none"]
  /\ reading = [c \in Links |-> "no"]
  /\ publisher = None
  /\ lost = FALSE
  /\ fails = 0
  /\ accepted = [c \in Links |-> "none"]
  /\ shut = {}
  /\ escorts = {}
  /\ stage = "none"
  /\ listener = "accept"
  /\ handler = "loop"
  /\ closing = "no"
  /\ closed = {}

Queued == {c \in Links : accepted[c] = "queued"}

(* A link that neither side has any use for.                                *)
Free(c) ==
  \/ dialed[c] = "none"
  \/ /\ dialed[c] = "shut" /\ reading[c] = "no" /\ publisher # c
     /\ accepted[c] \in {"over", "gone"} /\ c \in closed \ escorts

-----------------------------------------------------------------------------
(* The escort: Dial.                                                        *)

(* A round of the loop: gosrt asks the flagship for a connection, whose     *)
(* listener may be gone.                                                    *)
Attempt(c) ==
  /\ dialing
  /\ Free(c)
  /\ dialing' = FALSE
  /\ dialed' = [dialed EXCEPT ![c] = "asked"]
  /\ accepted' = [accepted EXCEPT ![c] =
       IF listener = "done" \/ closing # "no" THEN "over" ELSE "asked"]
  /\ shut' = shut \ {c}
  /\ closed' = closed \ {c}
  /\ UNCHANGED <<reading, publisher, lost, fails, escorts, stage, serverVars>>

(* No answer came in time, for a request that will not be answered or one   *)
(* the flagship is slow with: the loop sleeps for a while and tries again.  *)
AttemptFails(c) ==
  /\ dialed[c] = "asked"
  /\ IF accepted[c] = "over" \/ closing # "no" THEN UNCHANGED fails
     ELSE fails < MaxFails /\ fails' = fails + 1
  /\ dialing' = TRUE
  /\ dialed' = [dialed EXCEPT ![c] = "shut"]
  /\ accepted' = [accepted EXCEPT ![c] = IF @ = "asked" THEN "over" ELSE @]
  /\ closed' = closed \cup {c}
  /\ UNCHANGED <<reading, publisher, lost, shut, escorts, stage, serverVars>>

Connect(c) ==
  /\ dialed[c] = "asked"
  /\ accepted[c] \in {"add", "up", "gone"}
  /\ dialed' = [dialed EXCEPT ![c] = "add"]
  /\ UNCHANGED <<dialing, reading, publisher, lost, fails, flagshipVars,
                 serverVars, closed>>

(* AddConnection of the escort's Haven.  While the last link is still its   *)
(* publisher the new one is refused and Dial returns: its Close cancels a   *)
(* context that no goroutine watches, and the socket stays open.            *)
AddFlagship(c) ==
  /\ dialed[c] = "add"
  /\ \/ /\ publisher = None
        /\ publisher' = c
        /\ dialed' = [dialed EXCEPT ![c] = "up"]
        /\ reading' = [reading EXCEPT ![c] = "loop"]
        /\ UNCHANGED lost
     \/ /\ publisher # None
        /\ dialed' = [dialed EXCEPT ![c] = "shut"]
        /\ lost' = TRUE
        /\ UNCHANGED <<publisher, reading>>
  /\ UNCHANGED <<dialing, fails, flagshipVars, serverVars, closed>>

-----------------------------------------------------------------------------
(* The escort: the read loop.                                               *)

(* Mutant of ReadEof: it dials and goes on reading.                         *)
ReadEofTwice(c) ==
  /\ reading[c] = "loop"
  /\ c \in closed
  /\ dialing' = TRUE
  /\ UNCHANGED <<reading, dialed, publisher, lost, fails, flagshipVars,
                 serverVars, closed>>

(* EOF: it starts a Dial ...                                                *)
ReadEof(c) ==
  /\ reading[c] = "loop"
  /\ c \in closed
  /\ reading' = [reading EXCEPT ![c] = "eof"]
  /\ dialing' = TRUE
  /\ UNCHANGED <<dialed, publisher, lost, fails, flagshipVars, serverVars,
                 closed>>

(* Mutant of CloseRead: it leaves the connection to the Haven.              *)
ReturnOnly(c) ==
  /\ reading[c] = "eof"
  /\ reading' = [reading EXCEPT ![c] = "no"]
  /\ UNCHANGED <<dialing, dialed, publisher, lost, fails, flagshipVars,
                 serverVars, closed>>

(* ... then closes the connection and returns.                              *)
CloseRead(c) ==
  /\ reading[c] = "eof"
  /\ reading' = [reading EXCEPT ![c] = "no"]
  /\ dialed' = [dialed EXCEPT ![c] = "shut"]
  /\ UNCHANGED <<dialing, publisher, lost, fails, flagshipVars, serverVars,
                 closed>>

(* Any other error goes to Read's goroutine, which closes the connection;   *)
(* the loop reads on.                                                       *)
ReadFails(c) ==
  /\ reading[c] = "loop"
  /\ dialed[c] = "up"
  /\ dialed' = [dialed EXCEPT ![c] = "shut"]
  /\ UNCHANGED <<dialing, reading, publisher, lost, fails, flagshipVars,
                 serverVars, closed>>

(* A packet, or a deadline that cannot be set, makes the loop look at the   *)
(* context and end, without a Dial.                                         *)
EndRead(c) ==
  /\ reading[c] = "loop"
  /\ dialed[c] = "shut"
  /\ reading' = [reading EXCEPT ![c] = "no"]
  /\ lost' = TRUE
  /\ UNCHANGED <<dialing, dialed, publisher, fails, flagshipVars, serverVars,
                 closed>>

(* The monitor of the escort's Haven: clearPublisher.                       *)
ClearFlagship(c) ==
  /\ publisher = c
  /\ dialed[c] = "shut"
  /\ publisher' = None
  /\ UNCHANGED <<dialing, dialed, reading, lost, fails, flagshipVars,
                 serverVars, closed>>

-----------------------------------------------------------------------------
(* The flagship's server.                                                   *)

(* The listener goroutine: Accept2 gives a request ...                      *)
Accept2(c) ==
  /\ listener = "accept"
  /\ closing = "no"
  /\ accepted[c] = "asked"
  /\ accepted' = [accepted EXCEPT ![c] = "held"]
  /\ listener' = "send"
  /\ UNCHANGED <<escortVars, shut, escorts, stage, handler, closing, closed>>

(* ... which it puts in acceptCh, waiting for room.                         *)
Queue(c) ==
  /\ accepted[c] = "held"
  /\ Cardinality(Queued) < AcceptCap
  /\ accepted' = [accepted EXCEPT ![c] = "queued"]
  /\ listener' = "accept"
  /\ UNCHANGED <<escortVars, shut, escorts, stage, handler, closing, closed>>

(* Mutant of EndListener: it tries again when the listener is closed.       *)
EndListenerOnError ==
  /\ listener = "accept"
  /\ closing = "no"
  /\ listener' = "done"
  /\ UNCHANGED <<escortVars, flagshipVars, handler, closing, closed>>

(* It ends when the listener is closed, or for good on any other error.     *)
EndListener ==
  /\ listener = "accept"
  /\ listener' = "done"
  /\ accepted' = [c \in Links |-> IF accepted[c] = "asked" THEN "over"
                                                           ELSE accepted[c]]
  /\ UNCHANGED <<escortVars, shut, escorts, stage, handler, closing, closed>>

(* The handler starts a goroutine for each request, which checks version,   *)
(* encryption, passphrase and type, as the escort has them, and accepts ... *)
Handle(c) ==
  /\ handler = "loop"
  /\ accepted[c] = "queued"
  /\ accepted' = [accepted EXCEPT ![c] = "add"]
  /\ UNCHANGED <<escortVars, shut, escorts, stage, serverVars, closed>>

(* ... and the handler ends with the context.                               *)
EndHandler ==
  /\ handler = "loop"
  /\ closing # "no"
  /\ handler' = "done"
  /\ UNCHANGED <<escortVars, flagshipVars, listener, closing, closed>>

(* addEscort of the flagship's Haven, which looks at no lock.               *)
AddEscort(c) ==
  /\ accepted[c] = "add"
  /\ accepted' = [accepted EXCEPT ![c] = "up"]
  /\ escorts' = escorts \cup {c}
  /\ UNCHANGED <<escortVars, shut, stage, serverVars, closed>>

Shut(c) == c \in shut \/ closing # "no"

(* The goroutine that waits for the end of the context closes the socket.   *)
CloseSocket(c) ==
  /\ accepted[c] \in {"add", "up", "gone"}
  /\ Shut(c)
  /\ c \notin closed
  /\ closed' = closed \cup {c}
  /\ UNCHANGED <<escortVars, flagshipVars, serverVars>>

(* The monitor of the flagship's Haven takes the escort off the list.       *)
RemoveEscort(c) ==
  /\ accepted[c] = "up"
  /\ Shut(c)
  /\ stage # "closed"
  /\ accepted' = [accepted EXCEPT ![c] = "gone"]
  /\ escorts' = escorts \ {c}
  /\ UNCHANGED <<escortVars, shut, stage, serverVars, closed>>

-----------------------------------------------------------------------------
(* The flagship's Haven.                                                    *)

PublisherComes ==
  /\ stage = "none"
  /\ stage' = "live"
  /\ UNCHANGED <<escortVars, accepted, shut, escorts, serverVars, closed>>

(* clearPublisher closes the escorts ...                                    *)
ClearEscorts ==
  /\ stage = "live"
  /\ stage' = "closed"
  /\ shut' = shut \cup escorts
  /\ UNCHANGED <<escortVars, accepted, escorts, serverVars, closed>>

(* ... and starts an empty list.                                            *)
DropEscorts ==
  /\ stage = "closed"
  /\ stage' = "none"
  /\ escorts' = {}
  /\ UNCHANGED <<escortVars, accepted, shut, serverVars, closed>>

(* A packet of the publisher is written to each escort: an error closes it. *)
Broadcast(c) ==
  /\ stage \in {"live", "closed"}
  /\ c \in escorts
  /\ c \in closed
  /\ shut' = shut \cup {c}
  /\ UNCHANGED <<escortVars, accepted, escorts, stage, serverVars, closed>>

(* The network fails, or one of the two processes does not answer.          *)
LinkBreaks(c) ==
  /\ accepted[c] \in {"add", "up"}
  /\ c \notin closed
  /\ closed' = closed \cup {c}
  /\ UNCHANGED <<escortVars, flagshipVars, serverVars>>

-----------------------------------------------------------------------------
(* Close of the flagship's server: the listener is closed and the context   *)
(* cancelled ...                                                            *)
Cancel ==
  /\ closing = "no"
  /\ closing' = "wait"
  /\ UNCHANGED <<escortVars, flagshipVars, listener, handler, closed>>

(* ... and its two goroutines waited for.                                   *)
WaitDone ==
  /\ closing = "wait"
  /\ listener = "done" /\ handler = "done"
  /\ closing' = "closed"
  /\ UNCHANGED <<escortVars, flagshipVars, listener, handler, closed>>

EscortStep(c) ==
  \/ Attempt(c) \/ Connect(c) \/ AddFlagship(c)
  \/ ReadEof(c) \/ CloseRead(c) \/ ClearFlagship(c)

ServerStep(c) ==
  \/ Accept2(c) \/ Queue(c) \/ Handle(c) \/ AddEscort(c)
  \/ CloseSocket(c) \/ RemoveEscort(c)

Next ==
  \/ \E c \in Links :
       \/ EscortStep(c) \/ ServerStep(c)
       \/ AttemptFails(c) \/ ReadFails(c) \/ EndRead(c)
       \/ Broadcast(c) \/ LinkBreaks(c)
  \/ EndListener \/ EndHandler \/ Cancel \/ WaitDone
  \/ PublisherComes \/ ClearEscorts \/ DropEscorts

Spec == Init /\ [][Next]_vars

(* The goroutines of both sides go on when they can.  Packets of a live     *)
(* publisher keep coming.  Nothing says that a link breaks, that a read     *)
(* fails or that anybody closes.                                            *)
Fairness ==
  /\ \A c \in Links : /\ WF_vars(EscortStep(c)) /\ WF_vars(ServerStep(c))
                      /\ WF_vars(Broadcast(c))
                      /\ WF_vars(accepted[c] = "over" /\ AttemptFails(c))
  /\ WF_vars(EndHandler) /\ WF_vars(closing # "no" /\ EndListener)
  /\ WF_vars(WaitDone) /\ WF_vars(DropEscorts)

FairSpec == Spec /\ Fairness

-----------------------------------------------------------------------------

(* Every variable has the values the code can give it.                      *)
TypeOK ==
  /\ dialing \in BOOLEAN /\ lost \in BOOLEAN
  /\ dialed \in [Links -> {"none", "asked", "add", "up", "shut"}]
  /\ reading \in [Links -> {"no", "loop", "eof"}]
  /\ publisher \in Links \cup {None}
  /\ fails \in 0 .. MaxFails
  /\ accepted \in [Links -> {"none", "asked", "held", "queued", "add", "up",
                            "gone", "over"}]
  /\ shut \subseteq Links /\ escorts \subseteq Links /\ closed \subseteq Links
  /\ stage \in {"none", "live", "closed"}
  /\ listener \in {"accept", "send", "done"}
  /\ handler \in {"loop", "done"}
  /\ closing \in {"no", "wait", "closed"}

Seeking == {c \in Links : dialed[c] \in {"asked", "add"}}
Reading == {c \in Links : reading[c] = "loop"}

(* There is always exactly one goroutine at the escort from which the next  *)
(* link to the flagship will come, a Dial or the read loop of the link that *)
(* is up, never two that would dial against each other; and none after a    *)
(* Dial was refused by the Haven or a read loop ended without EOF.          *)
OneSeeker ==
  /\ dialing => Seeking = {} /\ Reading = {}
  /\ Cardinality(Seeking \cup Reading) <= 1 /\ Seeking \cap Reading = {}
  /\ lost = ~(dialing \/ Seeking # {} \/ Reading # {})

(* A read failed otherwise than by EOF: its loop waits for a packet, to end, *)
(* or for EOF, to dial.                                                     *)
Undecided == \E c \in Reading : dialed[c] = "shut"
Deaf == listener = "done" \/ closing # "no"
NoLinkLeft == \A c \in Links : ~Free(c)

(* An escort that has lost its flagship gives the dead link up, and finds   *)
(* the flagship again as long as that one listens, whatever attempts the    *)
(* network swallowed in between, unless nobody seeks any more.              *)
FindsFlagshipAgain ==
  /\ \A c \in Links : (publisher = c /\ c \in closed) ~> (publisher # c)
  /\ (publisher = None) ~>
       (publisher # None \/ lost \/ Undecided \/ Deaf \/ NoLinkLeft)

(* The listener waits for room in acceptCh, which nobody empties any more.  *)
Stuck ==
  listener = "send" /\ handler = "done" /\ Cardinality(Queued) = AcceptCap

(* Close of the server returns, or it came while acceptCh was full.         *)
ServerCloses == (closing = "wait") ~> (closing = "closed" \/ Stuck)
=============================================================================
