---------------------------- MODULE HlsConnection ----------------------------
(***************************************************************************)
(* The connection that feeds the HLS muxer                                 *)
(* (src/protocols/hls/connection.go).                                      *)
(*                                                                         *)
(* Write puts a goroutine, the relay, between the two channels it is given *)
(* and two channels of its own.  The relay looks at the frames that pass   *)
(* for the metadata of their track: the SPS and PPS of the video, the      *)
(* configuration of the audio.  Write waits for it, starts the muxer with  *)
(* the metadata and then one goroutine per track that moves the frames     *)
(* into the muxer.  The relay's sends wait for room and watch nothing      *)
(* else.                                                                   *)
(*                                                                         *)
(* Frames of a track are numbered in the order the relay takes them.       *)
(***************************************************************************)
EXTENDS Naturals, Sequences

CONSTANTS
  ChCap,       (* capacity of each channel                                 *)
  MaxFrames    (* bound of the model: frames per track                     *)

ASSUME ChannelAssumption == ChCap \in Nat \ {0}
ASSUME BoundAssumption == MaxFrames \in Nat

Tracks == {"video", "audio"}

VARIABLES
  waiting,     (* frames in each upstream channel                          *)
  ended,       (* tracks whose upstream channel is closed                  *)
  got,         (* frames of each track the relay has taken                 *)
  known,       (* tracks whose metadata was found                          *)
  relay,       (* where the relay is: "none", "select", "ended", or the    *)
               (* track it is sending a frame of                           *)
  channel,     (* the channels between the relay and the muxer goroutines  *)
  muxed,       (* the frames given to the muxer                            *)
  pump,        (* the goroutine of each track: "none", "loop", "ended"     *)
  write,       (* where Write is                                           *)
  muxer,       (* c.muxer: "nil", "failed", "started", "closed"            *)
  ctxDone,     (* c.ctx is done                                            *)
  close        (* where Close is: "no", "wait", "lock", "closed"           *)

upstream == <<waiting, ended>>
relayVars == <<got, known, relay, channel>>
connVars == <<upstream, relayVars, muxed, pump, write, muxer, ctxDone, close>>

ConnInit ==
  /\ waiting = [t \in Tracks |-> 0]
  /\ ended = {}
  /\ got = [t \in Tracks |-> 0]
  /\ known = {}
  /\ relay = "none"
  /\ channel = [t \in Tracks |-> <<>>]
  /\ muxed = [t \in Tracks |-> <<>>]
  /\ pump = [t \in Tracks |-> "none"]
  /\ write = "idle"
  /\ muxer = "nil"
  /\ ctxDone = FALSE
  /\ close = "no"

-----------------------------------------------------------------------------
(* The sub-buffers: they skip frames rather than wait, and close a channel  *)
(* when the publisher leaves.  A closed channel is drained by its owner,    *)
(* frame after frame, in competition with the relay.                        *)

Feed(t) ==
  /\ t \notin ended
  /\ waiting[t] < ChCap
  /\ got[t] + waiting[t] < MaxFrames
  /\ waiting' = [waiting EXCEPT ![t] = @ + 1]
  /\ UNCHANGED <<ended, relayVars, muxed, pump, write, muxer, ctxDone, close>>

EndFeed(t) ==
  /\ t \notin ended
  /\ ended' = ended \cup {t}
  /\ UNCHANGED <<waiting, relayVars, muxed, pump, write, muxer, ctxDone, close>>

Drain(t) ==
  /\ t \in ended
  /\ waiting[t] > 0
  /\ waiting' = [waiting EXCEPT ![t] = @ - 1]
  /\ UNCHANGED <<ended, relayVars, muxed, pump, write, muxer, ctxDone, close>>

(* The server's context, which the connection's derives from, is done.      *)
UpstreamDone ==
  /\ ~ctxDone
  /\ ctxDone' = TRUE
  /\ UNCHANGED <<upstream, relayVars, muxed, pump, write, muxer, close>>

-----------------------------------------------------------------------------
(* The relay.                                                               *)

(* It takes a frame, in which the metadata is found if it is still looked   *)
(* for and there ...                                                        *)
TakeFrame(t) ==
  /\ relay = "select"
  /\ waiting[t] > 0
  /\ waiting' = [waiting EXCEPT ![t] = @ - 1]
  /\ got' = [got EXCEPT ![t] = @ + 1]
  /\ known' \in {known, known \cup {t}}
  /\ relay' = t
  /\ UNCHANGED <<ended, channel, muxed, pump, write, muxer, ctxDone, close>>

(* Mutant of SendFrame: the relay does not wait for room, it skips.         *)
SkipFrame(t) ==
  /\ relay = t
  /\ channel' = IF Len(channel[t]) < ChCap
                THEN [channel EXCEPT ![t] = Append(@, got[t])] ELSE channel
  /\ relay' = "select"
  /\ UNCHANGED <<upstream, got, known, muxed, pump, write, muxer, ctxDone, close>>

(* ... and sends it on, waiting for room.                                   *)
SendFrame(t) ==
  /\ relay = t
  /\ Len(channel[t]) < ChCap
  /\ channel' = [channel EXCEPT ![t] = Append(@, got[t])]
  /\ relay' = "select"
  /\ UNCHANGED <<upstream, got, known, muxed, pump, write, muxer, ctxDone, close>>

(* Mutant of EndRelay: the relay watches its channels only.                 *)
EndRelayWithStream ==
  /\ relay = "select"
  /\ \E t \in ended : waiting[t] = 0
  /\ relay' = "ended"
  /\ UNCHANGED <<upstream, got, known, channel, muxed, pump, write, muxer,
                 ctxDone, close>>

(* It ends with the context or with either track, and closes its channels   *)
(* and then receiveDone.                                                    *)
EndRelay ==
  /\ relay = "select"
  /\ ctxDone \/ \E t \in ended : waiting[t] = 0
  /\ relay' = "ended"
  /\ UNCHANGED <<upstream, got, known, channel, muxed, pump, write, muxer,
                 ctxDone, close>>

-----------------------------------------------------------------------------
(* Write.                                                                   *)

StartWrite ==
  /\ write = "idle"
  /\ write' = "wait"
  /\ relay' = "select"
  /\ UNCHANGED <<upstream, got, known, channel, muxed, pump, muxer, ctxDone, close>>

(* receiveDone was sent to, when the last metadata was found, or is closed. *)
Received == known = Tracks \/ relay = "ended"

MetadataReceived ==
  /\ write = "wait"
  /\ Received
  /\ write' = "prime"
  /\ UNCHANGED <<upstream, relayVars, muxed, pump, muxer, ctxDone, close>>

(* Mutant of GiveUp: Write does not watch the context.                      *)
GiveUpNever ==
  /\ write = "wait"
  /\ ctxDone
  /\ Received
  /\ write' = "failed"
  /\ UNCHANGED <<upstream, relayVars, muxed, pump, muxer, ctxDone, close>>

GiveUp ==
  /\ write = "wait"
  /\ ctxDone
  /\ write' = "failed"
  /\ UNCHANGED <<upstream, relayVars, muxed, pump, muxer, ctxDone, close>>

(* primeMuxer: a nil audio configuration is a panic, and Start may fail.    *)
PrimeMuxer ==
  /\ write = "prime"
  /\ \/ "audio" \notin known /\ write' = "panicked" /\ UNCHANGED muxer
     \/ "audio" \in known /\ muxer' = "started" /\ write' = "start"
     \/ "audio" \in known /\ muxer' = "failed" /\ write' = "failed"
  /\ UNCHANGED <<upstream, relayVars, muxed, pump, ctxDone, close>>

(* handleFrames, once per track.                                            *)
StartPumps ==
  /\ write = "start"
  /\ write' = "returned"
  /\ pump' = [t \in Tracks |-> "loop"]
  /\ UNCHANGED <<upstream, relayVars, muxed, muxer, ctxDone, close>>

-----------------------------------------------------------------------------
(* The goroutines of the tracks.                                            *)

MuxFrame(t) ==
  /\ pump[t] = "loop"
  /\ channel[t] # <<>>
  /\ muxed' = [muxed EXCEPT ![t] = Append(@, Head(channel[t]))]
  /\ channel' = [channel EXCEPT ![t] = Tail(@)]
  /\ UNCHANGED <<upstream, got, known, relay, pump, write, muxer, ctxDone, close>>

EndPump(t) ==
  /\ pump[t] = "loop"
  /\ ctxDone \/ (relay = "ended" /\ channel[t] = <<>>)
  /\ pump' = [pump EXCEPT ![t] = "ended"]
  /\ UNCHANGED <<upstream, relayVars, muxed, write, muxer, ctxDone, close>>

-----------------------------------------------------------------------------
(* Close.                                                                   *)

CancelCtx ==
  /\ close = "no"
  /\ close' = "wait"
  /\ ctxDone' = TRUE
  /\ UNCHANGED <<upstream, relayVars, muxed, pump, write, muxer>>

GoroutinesEnded ==
  relay \in {"none", "ended"} /\ \A t \in Tracks : pump[t] \in {"none", "ended"}

WaitDone ==
  /\ close = "wait"
  /\ GoroutinesEnded
  /\ close' = "lock"
  /\ UNCHANGED <<upstream, relayVars, muxed, pump, write, muxer, ctxDone>>

CloseMuxer ==
  /\ close = "lock"
  /\ close' = "closed"
  /\ muxer' = IF muxer = "nil" THEN "nil" ELSE "closed"
  /\ UNCHANGED <<upstream, relayVars, muxed, pump, write, ctxDone>>

-----------------------------------------------------------------------------

Write == StartWrite \/ MetadataReceived \/ GiveUp \/ PrimeMuxer \/ StartPumps

ConnNext ==
  \/ \E t \in Tracks : Feed(t) \/ EndFeed(t) \/ Drain(t)
  \/ UpstreamDone
  \/ \E t \in Tracks : TakeFrame(t) \/ SendFrame(t)
  \/ EndRelay
  \/ Write
  \/ \E t \in Tracks : MuxFrame(t) \/ EndPump(t)
  \/ CancelCtx \/ WaitDone \/ CloseMuxer

(* The goroutines run; a select does not pass over a channel that stays     *)
(* ready for ever.  Nothing says that the publisher sends or leaves.        *)
ConnFairness ==
  /\ \A t \in Tracks :
       /\ WF_connVars(SendFrame(t))
       /\ SF_connVars(TakeFrame(t))
       /\ WF_connVars(MuxFrame(t))
       /\ WF_connVars(EndPump(t))
  /\ SF_connVars(EndRelay)
  /\ WF_connVars(write # "idle" /\ Write)
  /\ WF_connVars(WaitDone)
  /\ WF_connVars(CloseMuxer)

ConnSpec == ConnInit /\ [][ConnNext]_connVars

ConnFairSpec == ConnSpec /\ ConnFairness

-----------------------------------------------------------------------------

(* Every variable has the values the code can give it; channels keep within *)
(* their capacity.                                                          *)
ConnTypeOK ==
  /\ waiting \in [Tracks -> 0 .. ChCap]
  /\ ended \subseteq Tracks /\ known \subseteq Tracks
  /\ got \in [Tracks -> Nat]
  /\ relay \in {"none", "select", "ended"} \cup Tracks
  /\ channel \in [Tracks -> Seq(Nat \ {0})]
  /\ \A t \in Tracks : Len(channel[t]) <= ChCap
  /\ muxed \in [Tracks -> Seq(Nat \ {0})]
  /\ pump \in [Tracks -> {"none", "loop", "ended"}]
  /\ write \in {"idle", "wait", "prime", "start", "returned", "failed", "panicked"}
  /\ muxer \in {"nil", "failed", "started", "closed"}
  /\ ctxDone \in BOOLEAN
  /\ close \in {"no", "wait", "lock", "closed"}

(* Looking for the metadata costs no frame: what the muxer got, what is in  *)
(* the channel and what the relay is sending are all the frames the relay   *)
(* has taken, in order.                                                     *)
NothingSkipped ==
  \A t \in Tracks :
    muxed[t] \o channel[t] \o (IF relay = t THEN <<got[t]>> ELSE <<>>)
      = [i \in 1 .. got[t] |-> i]

(* Write does not outlive the context: whatever the relay is at, a Write    *)
(* that waits for the metadata comes back when the context is done.         *)
WriteEnds == (write = "wait" /\ ctxDone) ~> (write \in {"returned", "failed", "panicked"})

(* Close waits for a relay that waits for room in a channel whose pump has  *)
(* ended, or was never started by a Write that failed.                      *)
Abandoned ==
  /\ relay \in Tracks /\ Len(channel[relay]) = ChCap
  /\ pump[relay] # "loop" /\ write \in {"returned", "failed", "panicked"}
  /\ close = "wait"

(* Close returns, unless it meets the relay waiting for room in a channel   *)
(* that nobody reads any more.                                              *)
CloseEnds == (close = "wait") ~> (close = "closed" \/ Abandoned)
=============================================================================
