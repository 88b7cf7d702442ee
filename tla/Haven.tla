------------------------------- MODULE Haven -------------------------------
(***************************************************************************)
(* The Haven: who is connected, and the goroutines that carry the frames   *)
(* of the publisher into the buffer (src/haven/handler.go).                *)
(*                                                                         *)
(* The publisher, the buffer and the demuxer are made and dropped together *)
(* under publisherMtx.  A buffer or a demuxer is named by the publisher it *)
(* was made for.  Three goroutines serve a publisher p: its monitor, which *)
(* clears the session when p's context is done, its reader, which feeds    *)
(* the demuxer, and its writer, which moves the demuxer's frames into      *)
(* h.buffer.  Reader and writer use h.publisher, h.demuxer and h.buffer    *)
(* without the lock, at the moment of the step that uses them.             *)
(*                                                                         *)
(* Locks.  clearPublisher holds publisherMtx over several steps, escortMtx *)
(* over two of them and viewersMtx while it closes the viewers, and so does *)
(* Close with all three; the other critical sections are one step.         *)
(*                                                                         *)
(* Close of a viewer's connection cancels its context and waits for its    *)
(* goroutines.  One of these, the relay, may wait for ever for room in a   *)
(* channel that nobody reads any more (HlsConnection's Abandoned).         *)
(***************************************************************************)
EXTENDS Naturals

CONSTANTS
  Pubs,        (* connections that ask to publish                          *)
  Escorts,     (* connections of escorts                                   *)
  Viewers,     (* connections that watch                                   *)
  None,        (* a nil pointer                                            *)
  EgressCap    (* OutputBufferCap: frames a demuxer's channel may hold     *)

ASSUME KindsAssumption ==
  /\ Pubs \cap Escorts = {} /\ Pubs \cap Viewers = {}
  /\ Escorts \cap Viewers = {}
  /\ None \notin Pubs \cup Escorts \cup Viewers
ASSUME EgressAssumption == EgressCap \in Nat \ {0}

Conns == Pubs \cup Escorts \cup Viewers

VARIABLES
  publisher, buffer, demuxer,   (* the fields of Haven: None is nil        *)
  closedBufs, closedDemuxers,   (* those whose Close was called            *)
  ctxDone,     (* connections whose context is done                        *)
  mon,         (* where the goroutine that monitors a connection is        *)
  reader,      (* readFromPublisher's goroutine, one per publisher         *)
  writer,      (* demuxerToBufferWrite's goroutine, one per publisher      *)
  source,      (* the publisher whose packets a reader reads               *)
  parser,      (* the demuxer whose frames a writer receives               *)
  egress,      (* frames in the channel between the two                    *)
  finished,    (* writers whose channel the demuxer has closed             *)
  content,     (* whose frames were written into each buffer               *)
  escorts,     (* Haven.escorts                                            *)
  slice,       (* Haven.escorts as an append under way has read it         *)
  viewers,     (* Haven.viewers                                            *)
  view,        (* where addViewer is                                       *)
  feed,        (* the buffer each viewer is subscribed to                  *)
  relays,      (* the goroutines of a viewer's connection: "none" yet,     *)
               (* "running", "ended", or one is "hung"                     *)
  victim,      (* the viewer that the holder of viewersMtx is closing      *)
  havenDone,   (* h.ctx is done                                            *)
  closing,     (* where Close is: "no", "wait", "viewers", "closed"        *)
  crashed      (* a goroutine of the Haven has panicked: the process ended *)

session == <<publisher, buffer, demuxer, closedBufs, closedDemuxers>>
pump == <<reader, writer, source, parser, egress, finished, content>>
escortVars == <<escorts, slice>>
viewerVars == <<viewers, view, feed, relays, victim>>
closeVars == <<havenDone, closing>>
vars == <<session, ctxDone, mon, pump, escortVars, viewerVars, closeVars,
          crashed>>

ClearSteps == {"clearEscorts", "dropEscorts", "clearViewers", "closeViewers",
               "dropPublisher", "closeBuffer", "dropBuffer", "closeDemuxer",
               "dropDemuxer"}

(* Close has the three locks at "viewers".                                  *)
PublisherMtxFree ==
  closing # "viewers" /\ \A p \in Pubs : mon[p] \notin ClearSteps
EscortMtxFree == closing # "viewers" /\ \A p \in Pubs : mon[p] # "dropEscorts"
ViewersMtxFree == closing # "viewers" /\ \A p \in Pubs : mon[p] # "closeViewers"

Init ==
  /\ publisher = None /\ buffer = None /\ demuxer = None
  /\ closedBufs = {} /\ closedDemuxers = {}
  /\ ctxDone = {}
  /\ mon = [c \in Conns |-> "none"]
  /\ reader = [p \in Pubs |-> "none"]
  /\ writer = [p \in Pubs |-> "none"]
  /\ source = [p \in Pubs |-> None]
  /\ parser = [p \in Pubs |-> None]
  /\ egress = [p \in Pubs |-> 0]
  /\ finished = {}
  /\ content = [b \in Pubs |-> {}]
  /\ escorts = {}
  /\ slice = [e \in Escorts |-> {}]
  /\ viewers = {}
  /\ view = [v \in Viewers |-> "idle"]
  /\ feed = [v \in Viewers |-> None]
  /\ relays = [v \in Viewers |-> "none"]
  /\ victim = None
  /\ havenDone = FALSE
  /\ closing = "no"
  /\ crashed = FALSE

At(c, here, next) == mon[c] = here /\ mon' = [mon EXCEPT ![c] = next]

Crash ==
  /\ crashed' = TRUE
  /\ UNCHANGED <<session, ctxDone, mon, pump, escortVars, viewerVars,
                 closeVars>>

(* The peer goes away, or the server cancels the connection's context.      *)
ConnectionEnds(c) ==
  /\ c \notin ctxDone
  /\ ctxDone' = ctxDone \cup {c}
  /\ UNCHANGED <<session, mon, pump, escortVars, viewerVars, closeVars,
                 crashed>>

-----------------------------------------------------------------------------
(* Publishers.                                                              *)

(* Mutant of AddPublisher: it does not ask whether there is a publisher.    *)
AddPublisherAnyway(p) ==
  /\ PublisherMtxFree
  /\ reader[p] = "none"
  /\ p \notin ctxDone
  /\ publisher' = p /\ buffer' = p /\ demuxer' = p
  /\ closedBufs' = closedBufs \cup ({buffer} \ {None})
  /\ closedDemuxers' = closedDemuxers \cup ({demuxer} \ {None})
  /\ At(p, "none", "wait")
  /\ reader' = [reader EXCEPT ![p] = "start"]
  /\ UNCHANGED <<ctxDone, writer, source, parser, egress, finished, content,
                 escortVars, viewerVars, closeVars, crashed>>

(* addPublisher with initPublisher, under publisherMtx.  A publisher is     *)
(* refused while there is one; the server then closes the connection.       *)
AddPublisher(p) ==
  /\ PublisherMtxFree
  /\ reader[p] = "none"
  /\ p \notin ctxDone
  /\ \/ /\ publisher = None
        /\ publisher' = p /\ buffer' = p /\ demuxer' = p
        /\ closedBufs' = closedBufs \cup ({buffer} \ {None})
        /\ closedDemuxers' = closedDemuxers \cup ({demuxer} \ {None})
        /\ At(p, "none", "wait")
        /\ reader' = [reader EXCEPT ![p] = "start"]
        /\ UNCHANGED <<ctxDone, writer, source, parser, egress, finished,
                       content>>
     \/ /\ publisher # None
        /\ ctxDone' = ctxDone \cup {p}
        /\ UNCHANGED <<session, mon, pump>>
  /\ UNCHANGED <<escortVars, viewerVars, closeVars, crashed>>

(* The monitor of a publisher sees h.ctx done ...                           *)
ClosePublisher(p) ==
  /\ havenDone
  /\ At(p, "wait", "done")
  /\ ctxDone' = ctxDone \cup ({publisher} \ {None})
  /\ UNCHANGED <<session, pump, escortVars, viewerVars, closeVars, crashed>>

(* Mutant of StartClear: the monitor waits for h.ctx only.                  *)
StartClearWithHaven(p) ==
  /\ havenDone
  /\ PublisherMtxFree
  /\ At(p, "wait", "clearEscorts")
  /\ UNCHANGED <<session, ctxDone, pump, escortVars, viewerVars, closeVars,
                 crashed>>

(* ... or the publisher's context done: clearPublisher takes publisherMtx   *)
(* and goes through its steps in order.                                     *)
StartClear(p) ==
  /\ p \in ctxDone
  /\ PublisherMtxFree
  /\ At(p, "wait", "clearEscorts")
  /\ UNCHANGED <<session, ctxDone, pump, escortVars, viewerVars, closeVars,
                 crashed>>

ClearEscorts(p) ==
  /\ At(p, "clearEscorts", "dropEscorts")
  /\ ctxDone' = ctxDone \cup escorts
  /\ UNCHANGED <<session, pump, escortVars, viewerVars, closeVars, crashed>>

DropEscorts(p) ==
  /\ At(p, "dropEscorts", "clearViewers")
  /\ escorts' = {}
  /\ UNCHANGED <<session, ctxDone, pump, slice, viewerVars, closeVars,
                 crashed>>

(* viewer.Close() has returned: wg.Wait had nothing to wait for.            *)
ConnectionClosed(v) == relays[v] \in {"none", "ended"}

(* Mutant of CloseNext: the viewer is taken out of the map, and not closed. *)
ForgetNext ==
  /\ victim = None
  /\ \E v \in viewers : viewers' = viewers \ {v}
  /\ UNCHANGED <<ctxDone, victim>>

(* Whoever has viewersMtx closes one viewer after the other, in the random  *)
(* order of the map: it calls viewer.Close(), which cancels the context ... *)
CloseNext ==
  /\ victim = None
  /\ \E v \in viewers : victim' = v /\ ctxDone' = ctxDone \cup {v}
  /\ UNCHANGED viewers

(* ... and waits; then the viewer is deleted.  Close empties the map after  *)
(* the loop only, but nobody looks at it while viewersMtx is held.          *)
NextClosed ==
  /\ victim # None
  /\ ConnectionClosed(victim)
  /\ viewers' = viewers \ {victim}
  /\ victim' = None
  /\ UNCHANGED ctxDone

AllClosed == victim = None /\ viewers = {}

LockViewers(p) ==
  /\ ViewersMtxFree
  /\ At(p, "clearViewers", "closeViewers")
  /\ UNCHANGED <<session, ctxDone, pump, escortVars, viewerVars, closeVars,
                 crashed>>

ClearViewers(p) ==
  /\ mon[p] = "closeViewers"
  /\ CloseNext \/ NextClosed
  /\ UNCHANGED <<session, mon, pump, escortVars, view, feed, relays, closeVars,
                 crashed>>

UnlockViewers(p) ==
  /\ AllClosed
  /\ At(p, "closeViewers", "dropPublisher")
  /\ UNCHANGED <<session, ctxDone, pump, escortVars, viewerVars, closeVars,
                 crashed>>

DropPublisher(p) ==
  /\ At(p, "dropPublisher", "closeBuffer")
  /\ publisher' = None
  /\ UNCHANGED <<buffer, demuxer, closedBufs, closedDemuxers, ctxDone, pump,
                 escortVars, viewerVars, closeVars, crashed>>

CloseBuffer(p) ==
  /\ At(p, "closeBuffer", "dropBuffer")
  /\ closedBufs' = closedBufs \cup {buffer}
  /\ UNCHANGED <<publisher, buffer, demuxer, closedDemuxers, ctxDone, pump,
                 escortVars, viewerVars, closeVars, crashed>>

(* Mutant of DropBuffer: h.buffer keeps the closed buffer.                  *)
KeepBuffer(p) ==
  /\ At(p, "dropBuffer", "closeDemuxer")
  /\ UNCHANGED <<session, ctxDone, pump, escortVars, viewerVars, closeVars,
                 crashed>>

DropBuffer(p) ==
  /\ At(p, "dropBuffer", "closeDemuxer")
  /\ buffer' = None
  /\ UNCHANGED <<publisher, demuxer, closedBufs, closedDemuxers, ctxDone, pump,
                 escortVars, viewerVars, closeVars, crashed>>

CloseDemuxer(p) ==
  /\ At(p, "closeDemuxer", "dropDemuxer")
  /\ closedDemuxers' = closedDemuxers \cup {demuxer}
  /\ UNCHANGED <<publisher, buffer, demuxer, closedBufs, ctxDone, pump,
                 escortVars, viewerVars, closeVars, crashed>>

(* Close of the demuxer has waited for its goroutines; the lock is released.*)
DropDemuxer(p) ==
  /\ \A q \in Pubs : parser[q] = demuxer => q \in finished
  /\ At(p, "dropDemuxer", "done")
  /\ demuxer' = None
  /\ UNCHANGED <<publisher, buffer, closedBufs, closedDemuxers, ctxDone, pump,
                 escortVars, viewerVars, closeVars, crashed>>

Clear(p) ==
  \/ StartClear(p) \/ ClearEscorts(p) \/ DropEscorts(p)
  \/ LockViewers(p) \/ ClearViewers(p) \/ UnlockViewers(p)
  \/ DropPublisher(p) \/ CloseBuffer(p) \/ DropBuffer(p) \/ CloseDemuxer(p)
  \/ DropDemuxer(p)

-----------------------------------------------------------------------------
(* From the publisher to the buffer.                                        *)

(* The reader starts the demuxer and the writer ...                         *)
StartReader(p) ==
  /\ reader[p] = "start"
  /\ \/ demuxer = None /\ Crash
     \/ /\ demuxer # None
        /\ parser' = [parser EXCEPT ![p] = demuxer]
        /\ writer' = [writer EXCEPT ![p] = "loop"]
        /\ reader' = [reader EXCEPT ![p] = "read"]
        /\ UNCHANGED <<session, ctxDone, mon, source, egress, finished,
                       content, escortVars, viewerVars, closeVars, crashed>>

(* ... and calls Read of the publisher.                                     *)
ReadPublisher(p) ==
  /\ reader[p] = "read"
  /\ \/ publisher = None /\ Crash
     \/ /\ publisher # None
        /\ source' = [source EXCEPT ![p] = publisher]
        /\ reader' = [reader EXCEPT ![p] = "loop"]
        /\ UNCHANGED <<session, ctxDone, mon, writer, parser, egress, finished,
                       content, escortVars, viewerVars, closeVars, crashed>>

(* The loop ends with h.ctx, or with the packets of the connection.         *)
EndReader(p) ==
  /\ reader[p] = "loop"
  /\ havenDone \/ source[p] \in ctxDone
  /\ reader' = [reader EXCEPT ![p] = "done"]
  /\ UNCHANGED <<session, ctxDone, mon, writer, source, parser, egress,
                 finished, content, escortVars, viewerVars, closeVars, crashed>>

(* The demuxer makes a frame of the packets it was given.                   *)
Demux(p) ==
  /\ reader[p] \in {"loop", "done"}
  /\ p \notin finished
  /\ egress[p] < EgressCap
  /\ egress' = [egress EXCEPT ![p] = @ + 1]
  /\ UNCHANGED <<session, ctxDone, mon, reader, writer, source, parser,
                 finished, content, escortVars, viewerVars, closeVars, crashed>>

(* The demuxer closes its channel: its context is done, it was closed, the  *)
(* channel is full or the stream cannot be parsed.                          *)
EndDemuxer(p) ==
  /\ parser[p] # None
  /\ p \notin finished
  /\ finished' = finished \cup {p}
  /\ UNCHANGED <<session, ctxDone, mon, reader, writer, source, parser, egress,
                 content, escortVars, viewerVars, closeVars, crashed>>

(* The writer receives a frame ...                                          *)
TakeFrame(p) ==
  /\ writer[p] = "loop"
  /\ egress[p] > 0
  /\ egress' = [egress EXCEPT ![p] = @ - 1]
  /\ writer' = [writer EXCEPT ![p] = "holding"]
  /\ UNCHANGED <<session, ctxDone, mon, reader, source, parser, finished,
                 content, escortVars, viewerVars, closeVars, crashed>>

(* ... and writes it to h.buffer.  A nil buffer is a panic.  A closed one   *)
(* has lost its ring: a frame that reaches it is a panic too, one that does *)
(* not (a video frame without an IDR picture) is dropped.                   *)
WriteFrame(p) ==
  /\ writer[p] = "holding"
  /\ \/ buffer \in closedBufs \cup {None} /\ Crash
     \/ /\ buffer # None
        /\ content' = IF buffer \in closedBufs THEN content
                      ELSE [content EXCEPT ![buffer] = @ \cup {source[p]}]
        /\ writer' = [writer EXCEPT ![p] = "loop"]
        /\ UNCHANGED <<session, ctxDone, mon, reader, source, parser, egress,
                       finished, escortVars, viewerVars, closeVars, crashed>>

(* The writer ends with h.ctx, with the demuxer's channel, or with an error *)
(* of the demuxer.                                                          *)
EndWriter(p) ==
  /\ writer[p] = "loop"
  /\ writer' = [writer EXCEPT ![p] = "done"]
  /\ UNCHANGED <<session, ctxDone, mon, reader, source, parser, egress,
                 finished, content, escortVars, viewerVars, closeVars, crashed>>

WriterMustEnd(p) == havenDone \/ (p \in finished /\ egress[p] = 0)
DemuxerMustEnd(p) == parser[p] \in closedDemuxers

-----------------------------------------------------------------------------
(* Escorts.                                                                 *)

(* addEscort appends without escortMtx: it reads the slice ...              *)
ReadEscorts(e) ==
  /\ At(e, "none", "append")
  /\ slice' = [slice EXCEPT ![e] = escorts]
  /\ UNCHANGED <<session, ctxDone, pump, escorts, viewerVars, closeVars,
                 crashed>>

(* ... and writes it back with the new escort, and starts its monitor.      *)
AppendEscort(e) ==
  /\ At(e, "append", "wait")
  /\ escorts' = slice[e] \cup {e}
  /\ UNCHANGED <<session, ctxDone, pump, slice, viewerVars, closeVars,
                 crashed>>

CloseEscort(e) ==
  /\ havenDone
  /\ At(e, "wait", "done")
  /\ ctxDone' = ctxDone \cup {e}
  /\ UNCHANGED <<session, pump, escortVars, viewerVars, closeVars, crashed>>

RemoveEscort(e) ==
  /\ e \in ctxDone
  /\ EscortMtxFree
  /\ At(e, "wait", "done")
  /\ escorts' = escorts \ {e}
  /\ UNCHANGED <<session, ctxDone, pump, slice, viewerVars, closeVars,
                 crashed>>

-----------------------------------------------------------------------------
(* Viewers.                                                                 *)

(* addViewer asks whether there is a publisher ...                          *)
CheckPublisher(v) ==
  /\ view[v] = "idle"
  /\ PublisherMtxFree
  /\ view' = [view EXCEPT ![v] = IF publisher # None THEN "checked"
                                                     ELSE "refused"]
  /\ UNCHANGED <<session, ctxDone, mon, pump, escortVars, viewers, feed, relays,
                 victim, closeVars, crashed>>

(* ... enters the viewer in the map ...                                     *)
ListViewer(v) ==
  /\ view[v] = "checked"
  /\ ViewersMtxFree
  /\ viewers' = viewers \cup {v}
  /\ view' = [view EXCEPT ![v] = "listed"]
  /\ UNCHANGED <<session, ctxDone, mon, pump, escortVars, feed, relays, victim,
                 closeVars, crashed>>

(* ... subscribes it to whatever h.buffer is now: a nil buffer, or one that *)
(* is closed under the call, is a panic of the HTTP handler, which its      *)
(* server recovers; a buffer that is not ready refuses ...                  *)
Subscribe(v) ==
  /\ view[v] = "listed"
  /\ \/ /\ buffer # None
        /\ buffer \notin closedBufs
        /\ feed' = [feed EXCEPT ![v] = buffer]
        /\ view' = [view EXCEPT ![v] = "subscribed"]
     \/ /\ buffer # None
        /\ view' = [view EXCEPT ![v] = "refused"]
        /\ UNCHANGED feed
     \/ /\ buffer \in closedBufs \cup {None}
        /\ view' = [view EXCEPT ![v] = "panicked"]
        /\ UNCHANGED feed
  /\ UNCHANGED <<session, ctxDone, mon, pump, escortVars, viewers, relays, victim,
                 closeVars, crashed>>

(* ... and hands the channels to the connection, whose Write starts the     *)
(* relay and waits for the metadata.                                        *)
WriteViewer(v) ==
  /\ view[v] = "subscribed"
  /\ view' = [view EXCEPT ![v] = "write"]
  /\ relays' = [relays EXCEPT ![v] = "running"]
  /\ UNCHANGED <<session, ctxDone, mon, pump, escortVars, viewers, feed, victim,
                 closeVars, crashed>>

(* Write succeeds, and the monitor starts; or it fails; or it panics, as    *)
(* the relay has ended without an audio configuration.                      *)
ServeViewer(v) ==
  /\ view[v] = "write"
  /\ \/ view' = [view EXCEPT ![v] = "served"] /\ At(v, "none", "wait")
     \/ view' = [view EXCEPT ![v] = "refused"] /\ UNCHANGED mon
     \/ /\ relays[v] = "ended"
        /\ view' = [view EXCEPT ![v] = "panicked"]
        /\ UNCHANGED mon
  /\ UNCHANGED <<session, ctxDone, pump, escortVars, viewers, feed, relays, victim,
                 closeVars, crashed>>

(* The goroutines of the connection end with its context or its streams ... *)
RelayEnds(v) ==
  /\ relays[v] = "running"
  /\ v \in ctxDone \/ feed[v] \in closedBufs
  /\ relays' = [relays EXCEPT ![v] = "ended"]
  /\ UNCHANGED <<session, ctxDone, mon, pump, escortVars, viewers, view, feed,
                 victim, closeVars, crashed>>

(* ... or the relay waits for room in a channel whose reader has ended with *)
(* the context, or was never started by a Write that failed.                *)
RelayHangs(v) ==
  /\ relays[v] = "running"
  /\ view[v] = "refused" \/ (view[v] = "served" /\ v \in ctxDone)
  /\ relays' = [relays EXCEPT ![v] = "hung"]
  /\ UNCHANGED <<session, ctxDone, mon, pump, escortVars, viewers, view, feed,
                 victim, closeVars, crashed>>

(* Mutant of CloseViewer: the monitor of a viewer does not watch h.ctx.     *)
CloseViewerNever(v) ==
  /\ v \in ctxDone
  /\ At(v, "wait", "done")
  /\ UNCHANGED <<session, ctxDone, pump, escortVars, viewerVars, closeVars,
                 crashed>>

(* The monitor of a viewer sees h.ctx done and calls conn.Close() ...       *)
CloseViewer(v) ==
  /\ havenDone
  /\ At(v, "wait", "closing")
  /\ ctxDone' = ctxDone \cup {v}
  /\ UNCHANGED <<session, pump, escortVars, viewerVars, closeVars, crashed>>

(* ... which waits as any other Close of it does; the map is left alone.    *)
ViewerClosed(v) ==
  /\ ConnectionClosed(v)
  /\ At(v, "closing", "done")
  /\ UNCHANGED <<session, ctxDone, pump, escortVars, viewerVars, closeVars,
                 crashed>>

(* Mutant of RemoveViewer: the monitor leaves the viewer in the map.        *)
LeaveViewer(v) ==
  /\ v \in ctxDone
  /\ ViewersMtxFree
  /\ At(v, "wait", "done")
  /\ UNCHANGED <<session, ctxDone, pump, escortVars, viewerVars, closeVars,
                 crashed>>

(* It sees the context of the viewer done, and takes viewersMtx.            *)
RemoveViewer(v) ==
  /\ v \in ctxDone
  /\ ViewersMtxFree
  /\ At(v, "wait", "done")
  /\ viewers' = viewers \ {v}
  /\ UNCHANGED <<session, ctxDone, pump, escortVars, view, feed, relays, victim,
                 closeVars, crashed>>

-----------------------------------------------------------------------------
(* Close.                                                                   *)

CancelHaven ==
  /\ closing = "no"
  /\ havenDone' = TRUE
  /\ closing' = "wait"
  /\ UNCHANGED <<session, ctxDone, mon, pump, escortVars, viewerVars, crashed>>

GoroutinesDone ==
  /\ \A c \in Conns : mon[c] \in {"none", "append", "done"}
  /\ \A p \in Pubs : reader[p] \in {"none", "done"}
                     /\ writer[p] \in {"none", "done"}

(* After the wait it takes the three locks, one after the other, and keeps  *)
(* them to the end: publisher and escorts are closed and dropped ...        *)
CloseHaven ==
  /\ closing = "wait"
  /\ GoroutinesDone
  /\ closing' = "viewers"
  /\ ctxDone' = ctxDone \cup ({publisher} \ {None}) \cup escorts
  /\ publisher' = None
  /\ escorts' = {}
  /\ UNCHANGED <<buffer, demuxer, closedBufs, closedDemuxers, mon, pump, slice,
                 viewerVars, havenDone, crashed>>

(* ... the viewers closed one by one ...                                    *)
CloseViewers ==
  /\ closing = "viewers"
  /\ CloseNext \/ NextClosed
  /\ UNCHANGED <<session, mon, pump, escortVars, view, feed, relays, closeVars,
                 crashed>>

(* ... and then the demuxer, whose Close waits for its goroutines, and the  *)
(* buffer.                                                                  *)
FinishClose ==
  /\ closing = "viewers"
  /\ AllClosed
  /\ closing' = "closed"
  /\ buffer' = None /\ demuxer' = None
  /\ closedBufs' = closedBufs \cup ({buffer} \ {None})
  /\ closedDemuxers' = closedDemuxers \cup ({demuxer} \ {None})
  /\ finished' = finished \cup
                   {p \in Pubs : demuxer # None /\ parser[p] = demuxer}
  /\ UNCHANGED <<publisher, ctxDone, mon, reader, writer, source, parser, egress,
                 content, escortVars, viewerVars, havenDone, crashed>>

Close == CloseHaven \/ CloseViewers \/ FinishClose

-----------------------------------------------------------------------------

PublisherStep(p) ==
  \/ ClosePublisher(p) \/ Clear(p)
  \/ StartReader(p) \/ ReadPublisher(p) \/ EndReader(p)
  \/ Demux(p) \/ EndDemuxer(p)
  \/ TakeFrame(p) \/ WriteFrame(p) \/ EndWriter(p)

EscortStep(e) ==
  ReadEscorts(e) \/ AppendEscort(e) \/ CloseEscort(e) \/ RemoveEscort(e)

ViewerStep(v) ==
  \/ CheckPublisher(v) \/ ListViewer(v) \/ Subscribe(v) \/ WriteViewer(v)
  \/ ServeViewer(v)
  \/ RelayEnds(v) \/ RelayHangs(v)
  \/ CloseViewer(v) \/ ViewerClosed(v) \/ RemoveViewer(v)

Next ==
  /\ ~crashed
  /\ \/ \E p \in Pubs : AddPublisher(p) \/ PublisherStep(p)
     \/ \E e \in Escorts : EscortStep(e)
     \/ \E v \in Viewers : ViewerStep(v)
     \/ \E c \in Conns : ConnectionEnds(c)
     \/ CancelHaven
     \/ Close

(* Every goroutine that can go on goes on.  The writer's select chooses at  *)
(* random among a frame and the end of h.ctx, hence the strong fairness of  *)
(* its end.  A demuxer asleep in its pipe ends when it is closed: the end   *)
(* of its context does not wake it.  The goroutines of a viewer whose       *)
(* context is done end, or hang: that is HlsConnection's CloseEnds.         *)
(* Nothing says that a connection ends, that a demuxer makes frames or that *)
(* anyone connects or closes.                                               *)
Fairness ==
  /\ \A p \in Pubs :
       /\ WF_vars(~crashed /\ (ClosePublisher(p) \/ Clear(p)))
       /\ WF_vars(~crashed /\ (StartReader(p) \/ ReadPublisher(p)
                               \/ EndReader(p)))
       /\ WF_vars(~crashed /\ DemuxerMustEnd(p) /\ EndDemuxer(p))
       /\ WF_vars(~crashed /\ (TakeFrame(p) \/ WriteFrame(p)))
       /\ SF_vars(~crashed /\ WriterMustEnd(p) /\ EndWriter(p))
  /\ \A e \in Escorts :
       WF_vars(~crashed /\ (AppendEscort(e) \/ CloseEscort(e) \/ RemoveEscort(e)))
  /\ \A v \in Viewers :
       /\ WF_vars(~crashed /\ (ListViewer(v) \/ Subscribe(v) \/ WriteViewer(v)
                               \/ ServeViewer(v)))
       /\ WF_vars(~crashed /\ v \in ctxDone /\ (RelayEnds(v) \/ RelayHangs(v)))
       /\ WF_vars(~crashed /\ (CloseViewer(v) \/ ViewerClosed(v)
                               \/ RemoveViewer(v)))
  /\ WF_vars(~crashed /\ Close)

Spec == Init /\ [][Next]_vars

FairSpec == Spec /\ Fairness

-----------------------------------------------------------------------------

PubOrNone == Pubs \cup {None}

(* Every variable has the values the code can give it; the channel of a     *)
(* demuxer keeps within its capacity.                                       *)
TypeOK ==
  /\ publisher \in PubOrNone /\ buffer \in PubOrNone /\ demuxer \in PubOrNone
  /\ closedBufs \subseteq Pubs /\ closedDemuxers \subseteq Pubs
  /\ ctxDone \subseteq Conns
  /\ mon \in [Conns -> {"none", "append", "wait", "closing", "done"}
                          \cup ClearSteps]
  /\ \A c \in Conns : mon[c] \in ClearSteps => c \in Pubs
  /\ reader \in [Pubs -> {"none", "start", "read", "loop", "done"}]
  /\ writer \in [Pubs -> {"none", "loop", "holding", "done"}]
  /\ source \in [Pubs -> PubOrNone] /\ parser \in [Pubs -> PubOrNone]
  /\ egress \in [Pubs -> 0 .. EgressCap]
  /\ finished \subseteq Pubs
  /\ content \in [Pubs -> SUBSET Pubs]
  /\ escorts \subseteq Escorts /\ slice \in [Escorts -> SUBSET Escorts]
  /\ viewers \subseteq Viewers
  /\ view \in [Viewers -> {"idle", "checked", "listed", "subscribed", "write",
                           "served", "refused", "panicked"}]
  /\ feed \in [Viewers -> PubOrNone]
  /\ relays \in [Viewers -> {"none", "running", "hung", "ended"}]
  /\ victim \in Viewers \cup {None}
  /\ havenDone \in BOOLEAN /\ crashed \in BOOLEAN
  /\ closing \in {"no", "wait", "viewers", "closed"}

(* Whoever gets publisherMtx finds one session: the publisher, its own open *)
(* buffer and its own open demuxer, or none of the three.                   *)
SessionConsistent ==
  PublisherMtxFree =>
    /\ publisher = buffer /\ buffer = demuxer
    /\ buffer \notin closedBufs /\ demuxer \notin closedDemuxers

(* A viewer that has got the channels of a buffer is in the map as long as  *)
(* its connection lives, whatever became of it since: served, or refused    *)
(* because its Write failed and then left without a monitor.  The clearing  *)
(* of the session, the monitors and Close never leave one playing that      *)
(* nobody would close.                                                      *)
ServedIsListed ==
  \A v \in Viewers : feed[v] # None /\ v \notin ctxDone => v \in viewers

(* A buffer holds no frames of another publisher that is still connected.   *)
NoLiveMixing ==
  \A b \in Pubs : content[b] \subseteq {b} \cup ctxDone

(* No publisher is replaced by another, or dropped while it is connected.   *)
NoTakeover ==
  [][publisher # None /\ publisher' # publisher =>
       publisher' = None /\ publisher \in ctxDone']_vars

(* Somebody waits in Close of a viewer whose relay hangs: the holder of     *)
(* viewersMtx, or the viewer's own monitor.  Then Close of the Haven, which *)
(* is the holder itself, or waits for it or for the monitors, hangs too.    *)
HolderHangs == victim # None /\ relays[victim] = "hung"
MonitorHangs == \E v \in Viewers : mon[v] = "closing" /\ relays[v] = "hung"
CloseHangs ==
  /\ closing \in {"wait", "viewers"}
  /\ HolderHangs \/ (closing = "wait" /\ MonitorHangs)

(* The session of a publisher that has gone is cleared, whatever its reader *)
(* and writer are at, unless the Haven closes or the process has panicked,  *)
(* or the clearing meets a viewer whose relay hangs.                        *)
SessionCleared ==
  \A p \in Pubs :
    (mon[p] = "wait" /\ p \in ctxDone) ~>
      (mon[p] = "done" \/ crashed \/ HolderHangs)

(* Close returns: each of the goroutines it waits for ends, and each of the *)
(* connections it closes, unless the relay of one hangs: a Close of that    *)
(* viewer, and with it Close of the Haven, then never returns.              *)
CloseReturns ==
  (closing = "wait") ~> (closing = "closed" \/ crashed \/ CloseHangs)

(* A viewer that was served and has gone is removed from the map, unless    *)
(* the Haven closes: its monitor then leaves that to Close; or a clearing   *)
(* that hangs keeps viewersMtx.                                             *)
ViewerRemoved ==
  \A v \in Viewers :
    (view[v] = "served" /\ v \in ctxDone) ~>
      (v \notin viewers \/ havenDone \/ crashed \/ HolderHangs)

(* "Monitor the flagship's context and remove it from the map when it is    *)
(* done": a publisher that has gone is no longer the Haven's, and the Haven *)
(* is ready for another one.                                                *)
PublisherRemoved ==
  \A p \in Pubs :
    (publisher = p /\ p \in ctxDone) ~> (publisher # p /\ PublisherMtxFree)
=============================================================================
