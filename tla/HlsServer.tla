----------------------------- MODULE HlsServer ------------------------------
(***************************************************************************)
(* The HLS server (src/protocols/hls/server.go) with the part of the Haven *)
(* it calls (addViewer and clearPublisher of src/haven/handler.go).        *)
(*                                                                         *)
(* All HTTP requests share one connection to the Haven.  The request that  *)
(* finds none creates one and adds it to the Haven, which subscribes it to *)
(* the buffer of the session and waits in its Write for the metadata of    *)
(* the stream; connMtx is held all the while.  A goroutine of the server   *)
(* forgets the connection once its context is done.                        *)
(*                                                                         *)
(* clearPublisher holds publisherMtx and viewersMtx while it closes the    *)
(* connections, and Close of a connection waits for its goroutines.  One   *)
(* of these, the relay, may wait for ever for room in a channel that       *)
(* nobody reads any more (HlsConnection's Abandoned); whether it does is   *)
(* left open until somebody waits for it.                                  *)
(*                                                                         *)
(* The connection a request creates has the name of the request.  Sessions *)
(* of the Haven are numbered.                                              *)
(***************************************************************************)
EXTENDS Integers, FiniteSets

CONSTANTS
  Requests,     (* the HTTP requests that pass validate                    *)
  None,
  MaxSessions   (* bound of the model: sessions of the Haven               *)

ASSUME NoneAssumption == None \notin Requests
ASSUME SessionAssumption == MaxSessions \in Nat

VARIABLES
  req,         (* where each request is                                    *)
  connMtx,     (* the request that holds connMtx, or None                  *)
  connection,  (* s.connection                                             *)
  monitor,     (* the goroutine that watches each connection               *)
  connDone,    (* connections that were closed                             *)
  closing,     (* where Close is                                           *)
  stage,       (* the Haven: no session, a live one, or steps of its end   *)
  session,     (* number of the last session                               *)
  viewers,     (* the Haven's map of viewers                               *)
  feed,        (* the session whose buffer each connection reads, or 0     *)
  victim,      (* the connection clearPublisher is closing                 *)
  hung,        (* connections whose relay waits for ever                   *)
  overdue      (* connections listed after their session's viewers were    *)
               (* closed: history, for FedOrDone                           *)

serverVars == <<connMtx, connection, monitor, closing>>
havenVars == <<stage, session>>
viewerVars == <<viewers, feed, victim, hung, overdue>>
vars == <<req, serverVars, connDone, havenVars, viewerVars>>

(* The context of a connection is a child of the server's.                  *)
Done(c) == c \in connDone \/ closing # "no"

PublisherMtxFree == stage \in {"none", "live"}

(* clearPublisher, in its order; viewersMtx is held while viewers close.    *)
ClearSteps == {"clearing", "viewersClosed", "bufferClosed"}

Final == {"answered", "redirected", "refused", "panicked"}

(* Places where a request holds connMtx; a panic there keeps it.            *)
Holding == {"check", "list", "subscribe", "write", "stuck"}

Init ==
  /\ req = [r \in Requests |-> "idle"]
  /\ connMtx = None
  /\ connection = None
  /\ monitor = [c \in Requests |-> "none"]
  /\ connDone = {}
  /\ closing = "no"
  /\ stage = "none"
  /\ session = 0
  /\ viewers = {}
  /\ feed = [c \in Requests |-> 0]
  /\ victim = None
  /\ hung = {}
  /\ overdue = {}

Goes(r, from, to) == req[r] = from /\ req' = [req EXCEPT ![r] = to]

-----------------------------------------------------------------------------
(* The Haven's session.                                                     *)

StartSession ==
  /\ stage = "none"
  /\ session < MaxSessions
  /\ stage' = "live"
  /\ session' = session + 1
  /\ UNCHANGED <<req, serverVars, connDone, viewerVars>>

(* The publisher has gone: clearPublisher takes publisherMtx ...            *)
StartClear ==
  /\ stage = "live"
  /\ stage' = "clearing"
  /\ UNCHANGED <<req, serverVars, connDone, session, viewerVars>>

(* Mutant of CloseNext: the viewer is taken out of the map, and not closed. *)
ForgetNext ==
  /\ victim = None
  /\ \E c \in viewers : viewers' = viewers \ {c}
  /\ UNCHANGED <<stage, connDone, victim>>

(* ... closes the viewers, one after the other: it calls viewer.Close(),    *)
(* which cancels the context ...                                            *)
CloseNext ==
  /\ victim = None
  /\ \E c \in viewers : victim' = c /\ connDone' = connDone \cup {c}
  /\ UNCHANGED <<stage, viewers>>

(* ... and waits; then the viewer is deleted ...                            *)
NextClosed ==
  /\ victim \notin {None} \cup hung
  /\ viewers' = viewers \ {victim}
  /\ victim' = None
  /\ UNCHANGED <<stage, connDone>>

UnlockViewers ==
  /\ victim = None /\ viewers = {}
  /\ stage' = "viewersClosed"
  /\ UNCHANGED <<connDone, viewers, victim>>

CloseViewers ==
  /\ stage = "clearing"
  /\ CloseNext \/ NextClosed \/ UnlockViewers
  /\ UNCHANGED <<req, serverVars, session, feed, hung, overdue>>

(* ... and the buffer, whose streams end, and sets the fields to nil.       *)
CloseBuffer ==
  /\ \/ stage = "viewersClosed" /\ stage' = "bufferClosed"
     \/ stage = "bufferClosed" /\ stage' = "none"
  /\ UNCHANGED <<req, serverVars, connDone, session, viewerVars>>

Clear == CloseViewers \/ CloseBuffer

-----------------------------------------------------------------------------
(* ServeHTTP.                                                               *)

(* net/http starts a handler as long as the server is not shut down.        *)
Arrive(r) ==
  /\ closing \in {"no", "cancelled"}
  /\ Goes(r, "idle", "route")
  /\ UNCHANGED <<serverVars, connDone, havenVars, viewerVars>>

(* tryRedirectToEscort.  Whether there are escorts, and one that is closer, *)
(* is left open.  GetClosestEscort compares with the publisher's place, and *)
(* panics when there are escorts and no publisher.                          *)
Route(r) ==
  /\ \/ Goes(r, "route", "lock")
     \/ stage # "none" /\ Goes(r, "route", "redirected")
     \/ stage \in {"bufferClosed", "none"} /\ Goes(r, "route", "panicked")
  /\ UNCHANGED <<serverVars, connDone, havenVars, viewerVars>>

(* Mutant of Lock: it is not a lock.                                        *)
LockNothing(r) ==
  /\ \/ connection # None /\ Goes(r, "lock", "use") /\ UNCHANGED connMtx
     \/ connection = None /\ Goes(r, "lock", "check") /\ connMtx' = r
  /\ UNCHANGED <<connection, monitor, closing, connDone, havenVars, viewerVars>>

(* Under connMtx the request finds the connection, and goes on to use it    *)
(* without the lock, or makes one and keeps the lock.                       *)
Lock(r) ==
  /\ connMtx = None
  /\ \/ connection # None /\ Goes(r, "lock", "use") /\ UNCHANGED connMtx
     \/ connection = None /\ Goes(r, "lock", "check") /\ connMtx' = r
  /\ UNCHANGED <<connection, monitor, closing, connDone, havenVars, viewerVars>>

(* Mutant of Refuse: the error path does not unlock.                        *)
RefuseLocked(r, from) == Goes(r, from, "refused") /\ UNCHANGED connMtx

(* AddConnection fails: the connection is forgotten, not closed.            *)
Refuse(r, from) == Goes(r, from, "refused") /\ connMtx' = None

(* AddConnection panics: net/http recovers, and connMtx is not released.    *)
Panic(r, from) == Goes(r, from, "stuck") /\ UNCHANGED connMtx

(* addViewer asks for a publisher ...                                       *)
CheckPublisher(r) ==
  /\ PublisherMtxFree
  /\ \/ stage = "live" /\ Goes(r, "check", "list") /\ UNCHANGED connMtx
     \/ stage = "none" /\ Refuse(r, "check")
  /\ UNCHANGED <<connection, monitor, closing, connDone, havenVars, viewerVars>>

(* ... lists the connection ...                                             *)
ListViewer(r) ==
  /\ stage # "clearing"
  /\ Goes(r, "list", "subscribe")
  /\ viewers' = viewers \cup {r}
  /\ overdue' = IF stage = "viewersClosed" THEN overdue \cup {r} ELSE overdue
  /\ UNCHANGED <<serverVars, connDone, havenVars, feed, victim, hung>>

(* ... subscribes it to the buffer, which may not be ready, and is nil or   *)
(* closed under the call when its session has just ended ...                *)
Subscribe(r) ==
  /\ \/ /\ stage \in {"live", "clearing", "viewersClosed"}
        /\ Goes(r, "subscribe", "write")
        /\ feed' = [feed EXCEPT ![r] = session]
        /\ UNCHANGED connMtx
     \/ /\ stage # "none"
        /\ Refuse(r, "subscribe")
        /\ UNCHANGED feed
     \/ /\ stage \in {"bufferClosed", "none"}
        /\ Panic(r, "subscribe")
        /\ UNCHANGED feed
  /\ UNCHANGED <<connection, monitor, closing, connDone, havenVars, viewers,
                 victim, hung, overdue>>

StreamEnded(r) == feed[r] # session \/ stage \in {"bufferClosed", "none"}

(* ... and gives it the streams: its Write comes back with the metadata; it *)
(* fails, as its context is done or the muxer does not start; and it may    *)
(* panic when the context is done or the streams end first.                 *)
WriteFails(r) ==
  /\ \/ Refuse(r, "write")
     \/ (Done(r) \/ StreamEnded(r)) /\ Panic(r, "write")
  /\ UNCHANGED <<connection, monitor, closing, connDone, havenVars, viewerVars>>

(* The connection is the server's, and is watched.                          *)
Hook(r) ==
  /\ Goes(r, "write", "use")
  /\ connMtx' = None
  /\ connection' = r
  /\ monitor' = [monitor EXCEPT ![r] = "wait"]
  /\ UNCHANGED <<closing, connDone, havenVars, viewerVars>>

(* The request is handed to whatever s.connection is by now.                *)
Use(r) ==
  /\ \/ connection # None /\ Goes(r, "use", "answered")
     \/ connection = None /\ Goes(r, "use", "panicked")
  /\ UNCHANGED <<serverVars, connDone, havenVars, viewerVars>>

-----------------------------------------------------------------------------
(* The goroutines of a connection, and Close.                               *)

WaitedFor(c) == c = victim \/ (closing = "locking" /\ c = connection)

(* Close of a connection waits for its relay, which may wait for room in a  *)
(* channel whose reader has ended with the context, or was never started by *)
(* a Write that failed.                                                     *)
RelayHangs(c) ==
  /\ WaitedFor(c)
  /\ c \notin hung
  /\ feed[c] # 0 /\ req[c] # "write"
  /\ hung' = hung \cup {c}
  /\ UNCHANGED <<req, serverVars, connDone, havenVars, viewers, feed, victim,
                 overdue>>

(* Mutant of Forget: the connection's context is not the server's child.    *)
ForgetClosed(c) ==
  /\ monitor[c] = "wait"
  /\ c \in connDone
  /\ connMtx = None
  /\ monitor' = [monitor EXCEPT ![c] = "ended"]
  /\ connection' = IF connection = c THEN None ELSE connection
  /\ UNCHANGED <<req, connMtx, closing, connDone, havenVars, viewerVars>>

(* The goroutine sees its connection's context done.                        *)
Forget(c) ==
  /\ monitor[c] = "wait"
  /\ Done(c)
  /\ connMtx = None
  /\ monitor' = [monitor EXCEPT ![c] = "ended"]
  /\ connection' = IF connection = c THEN None ELSE connection
  /\ UNCHANGED <<req, connMtx, closing, connDone, havenVars, viewerVars>>

InFlight == {r \in Requests : req[r] \notin {"idle", "stuck"} \cup Final}

(* Close: the context; Shutdown, which waits for the requests; the wait for *)
(* the goroutines; and connMtx, to close the connection that is left, which *)
(* waits for that one's goroutines.                                         *)
Close ==
  /\ \/ closing = "no" /\ closing' = "cancelled"
     \/ closing = "cancelled" /\ closing' = "shutdown"
     \/ closing = "shutdown" /\ InFlight = {} /\ closing' = "waiting"
     \/ /\ closing = "waiting"
        /\ \A c \in Requests : monitor[c] # "wait"
        /\ closing' = "locking"
     \/ /\ closing = "locking"
        /\ connMtx = None
        /\ connection \notin hung
        /\ closing' = "closed"
  /\ UNCHANGED <<req, connMtx, connection, monitor, connDone, havenVars,
                 viewerVars>>

AddConnection(r) ==
  CheckPublisher(r) \/ ListViewer(r) \/ Subscribe(r) \/ WriteFails(r) \/ Hook(r)

Next ==
  \/ StartSession \/ StartClear \/ Clear
  \/ \E r \in Requests : Arrive(r) \/ Route(r) \/ Lock(r) \/ AddConnection(r) \/ Use(r)
  \/ \E c \in Requests : Forget(c) \/ RelayHangs(c)
  \/ Close

(* Handlers and goroutines that can go on go on; a mutex lets a waiter in   *)
(* in the end.  Of HlsConnection's part: Write finds the metadata, fails or *)
(* panics, and Close of a connection returns unless its relay hangs.        *)
Fairness ==
  /\ WF_vars(Clear)
  /\ WF_vars(closing # "no" /\ Close)
  /\ \A r \in Requests :
       /\ WF_vars(Route(r) \/ ListViewer(r) \/ Subscribe(r) \/ WriteFails(r)
                  \/ Hook(r) \/ Use(r))
       /\ SF_vars(CheckPublisher(r))
       /\ SF_vars(Lock(r))
       /\ SF_vars(Forget(r))

Spec == Init /\ [][Next]_vars

FairSpec == Spec /\ Fairness

-----------------------------------------------------------------------------

(* Every variable has the values the code can give it.                      *)
TypeOK ==
  /\ req \in [Requests -> {"idle", "route", "lock", "use"} \cup Holding \cup Final]
  /\ connMtx \in Requests \cup {None}
  /\ connection \in Requests \cup {None}
  /\ monitor \in [Requests -> {"none", "wait", "ended"}]
  /\ connDone \subseteq Requests
  /\ closing \in {"no", "cancelled", "shutdown", "waiting", "locking", "closed"}
  /\ stage \in {"none", "live"} \cup ClearSteps
  /\ session \in 0 .. MaxSessions
  /\ viewers \subseteq Requests
  /\ feed \in [Requests -> 0 .. MaxSessions]
  /\ victim \in Requests \cup {None}
  /\ hung \subseteq Requests
  /\ overdue \subseteq Requests

(* connMtx was lost: a panic in AddConnection has left it locked.           *)
LockLost == connMtx # None /\ req[connMtx] = "stuck"

(* clearPublisher waits, with publisherMtx and viewersMtx, in Close of a    *)
(* connection whose relay hangs.                                            *)
ClearHangs == victim \in hung

(* The viewers share one connection: there is never a second one that was   *)
(* hooked to the Haven and is still open.                                   *)
OneConnection ==
  Cardinality({c \in Requests : monitor[c] = "wait" /\ ~Done(c)}) <= 1

(* The connection the requests are handed to is done, about to be           *)
(* forgotten, or reads the session the Haven is in.  The exception is one   *)
(* that addViewer listed after the viewers of its session were closed and   *)
(* that found its buffer still open: it stays, with nothing to show.        *)
FedOrDone ==
  connection # None =>
    \/ Done(connection)
    \/ feed[connection] = session /\ stage \in {"live"} \cup ClearSteps
    \/ connection \in overdue

(* A request that waits for connMtx is answered in the end, unless a panic  *)
(* in AddConnection has lost the mutex, or a clearing hangs: the request    *)
(* that has connMtx then waits in addViewer for one of the clearing's.      *)
Answered ==
  \A r \in Requests :
    (req[r] = "lock") ~> (req[r] \in Final \/ LockLost \/ ClearHangs)

(* Close returns, with no connection left, unless connMtx was lost or a     *)
(* clearing hangs.                                                          *)
CloseReturns ==
  (closing = "cancelled") ~>
    ((closing = "closed" /\ connection = None) \/ LockLost \/ ClearHangs)
=============================================================================
