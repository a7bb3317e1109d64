---------------------------- MODULE DaemonServer ----------------------------
(***************************************************************************)
(* One daemon.Server: the goroutines of Run and the channels between them. *)
(*                                                                         *)
(*   acceptor --connCh--> Run's select loop --go handle--> handlers        *)
(*   acceptor --errCh---> Run                                              *)
(*   watchIdle --idleCh-> Run            Close() --listener--> acceptor    *)
(*                                                                         *)
(* connCh and idleCh are unbuffered: a send and its receive are one step   *)
(* here.  errCh holds one error.  Time is counted in whole idle timeouts   *)
(* since lastRequest, all that watchIdle's comparison sees; its ticker may *)
(* fire at any moment after that.                                          *)
(***************************************************************************)
EXTENDS Naturals, FiniteSets

CONSTANTS
    Conns,        \* the connections clients may open
    Request,      \* what the client of each connection sends
    None,         \* no connection
    MayCancel,    \* the caller of Run may cancel its context
    MayClose,     \* the owner may call Close
    MayFail       \* Accept may fail of itself

(* A ping; another kind; a frame that does not decode; nothing until the   *)
(* client goes away.                                                       *)
Requests == {"ping", "unknown", "garbled", "silent"}

ASSUME RequestAssumption == Request \in [Conns -> Requests]
ASSUME NoneAssumption == None \notin Conns
ASSUME OptionsAssumption == {MayCancel, MayClose, MayFail} \subseteq BOOLEAN

Timeout == 1      \* one idle timeout

VARIABLES
    idleTimeout,  \* 0 disables idle shutdown
    listener,     \* "open" or "closed"
    closed,       \* the Server's atomic flag
    closer,       \* where a call of Close is
    canceled,     \* ctx is done
    age,          \* idle timeouts passed since lastRequest, capped at Timeout
    watcher,      \* the watchIdle goroutine
    acceptor,     \* the accept goroutine
    held,         \* the connection it sends on connCh
    connChClosed, \* close(connCh) has happened
    errCh,        \* the error buffered in errCh
    run,          \* Run's own goroutine, up to the end of the process
    picked,       \* the connection Run has received and not handed on
    cause,        \* why Run returned
    conn,         \* how far each connection has come: none, queued, held, handled, pong, refused, lost
    gone          \* connections whose client has closed its end

vars == <<idleTimeout, listener, closed, closer, canceled, age, watcher, acceptor, held,
          connChClosed, errCh, run, picked, cause, conn, gone>>

Errors == {"none", "accept failed", "listener closed"}

Init ==
    /\ idleTimeout \in {0, Timeout}
    /\ listener = "open"
    /\ closed = FALSE
    /\ closer = "unused"
    /\ canceled = FALSE
    /\ age = 0
    /\ watcher = IF idleTimeout > 0 THEN "ticking" ELSE "gone"
    /\ acceptor = "accepting"
    /\ held = None
    /\ connChClosed = FALSE
    /\ errCh = "none"
    /\ run = "select"
    /\ picked = None
    /\ cause = "none"
    /\ conn = [k \in Conns |-> "none"]
    /\ gone = {}

-----------------------------------------------------------------------------
(* The world around the server.                                            *)

Connect(k) ==
    /\ conn[k] = "none"
    /\ listener = "open"
    /\ conn' = [conn EXCEPT ![k] = "queued"]
    /\ UNCHANGED <<idleTimeout, listener, closed, closer, canceled, age,
                   watcher, acceptor, held, connChClosed, errCh, run, picked,
                   cause, gone>>

(* The client closes its end: its read deadline passed or it was killed.   *)
GoAway(k) ==
    /\ conn[k] \in {"queued", "held", "handled"}
    /\ k \notin gone
    /\ gone' = gone \cup {k}
    /\ UNCHANGED <<idleTimeout, listener, closed, closer, canceled, age,
                   watcher, acceptor, held, connChClosed, errCh, run, picked,
                   cause, conn>>

(* The kernel resets what is left in the accept queue of a closed listener *)
(* and every connection of a process that has ended.                       *)
Reset(k) ==
    /\ \/ conn[k] = "queued" /\ listener = "closed"
       \/ conn[k] \in {"held", "handled"} /\ run = "exited"
    /\ conn' = [conn EXCEPT ![k] = "lost"]
    /\ UNCHANGED <<idleTimeout, listener, closed, closer, canceled, age,
                   watcher, acceptor, held, connChClosed, errCh, run, picked,
                   cause, gone>>

Elapse ==
    /\ age < Timeout
    /\ run # "exited"
    /\ age' = age + 1
    /\ UNCHANGED <<idleTimeout, listener, closed, closer, canceled, watcher,
                   acceptor, held, connChClosed, errCh, run, picked, cause,
                   conn, gone>>

Cancel ==
    /\ MayCancel
    /\ ~canceled
    /\ canceled' = TRUE
    /\ UNCHANGED <<idleTimeout, listener, closed, closer, age, watcher,
                   acceptor, held, connChClosed, errCh, run, picked, cause,
                   conn, gone>>

-----------------------------------------------------------------------------
(* Close, called from another goroutine: the flag, then the listener.      *)

(* Mutant: the listener is closed and the flag forgotten.                  *)
MarkClosedUnflagged ==
    /\ MayClose
    /\ closer = "unused"
    /\ run # "exited"
    /\ listener' = "closed"
    /\ closer' = "marked"
    /\ UNCHANGED <<idleTimeout, closed, canceled, age, watcher, acceptor, held,
                   connChClosed, errCh, run, picked, cause, conn, gone>>

MarkClosed ==
    /\ MayClose
    /\ closer = "unused"
    /\ run # "exited"
    /\ closed' = TRUE
    /\ closer' = "marked"
    /\ UNCHANGED <<idleTimeout, listener, canceled, age, watcher, acceptor,
                   held, connChClosed, errCh, run, picked, cause, conn, gone>>

CloseListener ==
    /\ closer = "marked"
    /\ run # "exited"
    /\ listener' = "closed"
    /\ closer' = "done"
    /\ UNCHANGED <<idleTimeout, closed, canceled, age, watcher, acceptor, held,
                   connChClosed, errCh, run, picked, cause, conn, gone>>

-----------------------------------------------------------------------------
(* watchIdle.                                                              *)

(* Mutant: a send that does not wait for Run.                              *)
WatcherTickDrops ==
    /\ watcher = "ticking"
    /\ run # "exited"
    /\ age >= Timeout
    /\ watcher' = IF run = "select" THEN "firing" ELSE "gone"
    /\ UNCHANGED <<idleTimeout, listener, closed, closer, canceled, age,
                   acceptor, held, connChClosed, errCh, run, picked, cause,
                   conn, gone>>

(* A tick: the age read under mu decides, once, that the server is idle.   *)
WatcherTick ==
    /\ watcher = "ticking"
    /\ run # "exited"
    /\ age >= Timeout
    /\ watcher' = "firing"
    /\ UNCHANGED <<idleTimeout, listener, closed, closer, canceled, age,
                   acceptor, held, connChClosed, errCh, run, picked, cause,
                   conn, gone>>

(* Mutant: only the outer select has a ctx.Done case.                      *)
WatcherCanceledOuter ==
    /\ watcher = "ticking"
    /\ run # "exited"
    /\ canceled
    /\ watcher' = "gone"
    /\ UNCHANGED <<idleTimeout, listener, closed, closer, canceled, age,
                   acceptor, held, connChClosed, errCh, run, picked, cause,
                   conn, gone>>

(* Either select of watchIdle sees ctx.Done.                               *)
WatcherCanceled ==
    /\ watcher \in {"ticking", "firing"}
    /\ run # "exited"
    /\ canceled
    /\ watcher' = "gone"
    /\ UNCHANGED <<idleTimeout, listener, closed, closer, canceled, age,
                   acceptor, held, connChClosed, errCh, run, picked, cause,
                   conn, gone>>

-----------------------------------------------------------------------------
(* The accept goroutine.                                                   *)

(* Mutant: the goroutine accepts on without handing the connection over.   *)
AcceptOverlapping(k) ==
    /\ acceptor \in {"accepting", "handing"}
    /\ run # "exited"
    /\ listener = "open"
    /\ conn[k] = "queued"
    /\ conn' = [conn EXCEPT ![k] = "held"]
    /\ held' = k
    /\ acceptor' = "handing"
    /\ UNCHANGED <<idleTimeout, listener, closed, closer, canceled, age,
                   watcher, connChClosed, errCh, run, picked, cause, gone>>

Accept(k) ==
    /\ acceptor = "accepting"
    /\ run # "exited"
    /\ listener = "open"
    /\ conn[k] = "queued"
    /\ conn' = [conn EXCEPT ![k] = "held"]
    /\ held' = k
    /\ acceptor' = "handing"
    /\ UNCHANGED <<idleTimeout, listener, closed, closer, canceled, age,
                   watcher, connChClosed, errCh, run, picked, cause, gone>>

(* Accept returns an error: the listener is closed, or it fails by itself. *)
AcceptFails ==
    /\ acceptor = "accepting"
    /\ run # "exited"
    /\ \/ listener = "closed" /\ acceptor' = "listener closed"
       \/ MayFail /\ acceptor' = "accept failed"
    /\ UNCHANGED <<idleTimeout, listener, closed, closer, canceled, age,
                   watcher, held, connChClosed, errCh, run, picked, cause,
                   conn, gone>>

(* Mutant: the error is swallowed.                                         *)
AcceptorSwallowsError ==
    /\ acceptor \in Errors
    /\ run # "exited"
    /\ connChClosed' = (connChClosed \/ closed)
    /\ acceptor' = "gone"
    /\ UNCHANGED <<idleTimeout, listener, closed, closer, canceled, age,
                   watcher, held, errCh, run, picked, cause, conn, gone>>

(* The goroutine looks at the flag: after Close it closes connCh, else it  *)
(* leaves the error in errCh; both ways it ends.                           *)
AcceptorEnds ==
    /\ acceptor \in Errors
    /\ run # "exited"
    /\ IF closed THEN connChClosed' = TRUE /\ UNCHANGED errCh
                 ELSE errCh' = acceptor /\ UNCHANGED connChClosed
    /\ acceptor' = "gone"
    /\ UNCHANGED <<idleTimeout, listener, closed, closer, canceled, age,
                   watcher, held, run, picked, cause, conn, gone>>

-----------------------------------------------------------------------------
(* Run.                                                                    *)

(* select takes any case that is ready.                                    *)
Receive ==
    /\ run = "select"
    /\ acceptor = "handing"
    /\ picked' = held
    /\ held' = None
    /\ acceptor' = "accepting"
    /\ run' = "serving"
    /\ UNCHANGED <<idleTimeout, listener, closed, closer, canceled, age,
                   watcher, connChClosed, errCh, cause, conn, gone>>

(* touchActivity, then the handler's goroutine starts.                     *)
Serve ==
    /\ run = "serving"
    /\ age' = 0
    /\ conn' = [conn EXCEPT ![picked] = "handled"]
    /\ picked' = None
    /\ run' = "select"
    /\ UNCHANGED <<idleTimeout, listener, closed, closer, canceled, watcher,
                   acceptor, held, connChClosed, errCh, cause, gone>>

Return(why) ==
    /\ run = "select"
    /\ run' = "cleanup"
    /\ cause' = why
    /\ UNCHANGED <<idleTimeout, listener, closed, closer, canceled, age,
                   acceptor, held, connChClosed, picked, conn, gone>>

ReturnCanceled ==
    canceled /\ Return("canceled") /\ UNCHANGED <<watcher, errCh>>

ReturnIdle ==
    watcher = "firing" /\ watcher' = "gone" /\ Return("idle") /\ UNCHANGED errCh

ReturnError ==
    errCh # "none" /\ errCh' = "none" /\ Return(errCh) /\ UNCHANGED watcher

ReturnClosed ==
    connChClosed /\ Return("closed") /\ UNCHANGED <<watcher, errCh>>

(* The deferred cleanup; what its os.Remove does to the path is in         *)
(* DaemonElection.                                                         *)
Cleanup ==
    /\ run = "cleanup"
    /\ listener' = "closed"
    /\ run' = "returned"
    /\ UNCHANGED <<idleTimeout, closed, closer, canceled, age, watcher,
                   acceptor, held, connChClosed, errCh, picked, cause, conn,
                   gone>>

(* runDaemon returns and the process ends with every goroutine in it.      *)
Exit ==
    /\ run = "returned"
    /\ run' = "exited"
    /\ UNCHANGED <<idleTimeout, listener, closed, closer, canceled, age,
                   watcher, acceptor, held, connChClosed, errCh, picked, cause,
                   conn, gone>>

-----------------------------------------------------------------------------
(* Mutant: a request that cannot be read is dropped without a response.    *)
HandleSilently(k) ==
    /\ conn[k] = "handled"
    /\ run # "exited"
    /\ Request[k] = "silent" => k \in gone
    /\ conn' = [conn EXCEPT ![k] = CASE Request[k] = "ping" -> "pong"
                                     [] Request[k] = "unknown" -> "refused"
                                     [] OTHER -> "lost"]
    /\ UNCHANGED <<idleTimeout, listener, closed, closer, canceled, age,
                   watcher, acceptor, held, connChClosed, errCh, run, picked,
                   cause, gone>>

(* A handler reads one request, writes one response and closes.  It has no *)
(* deadline: a silent client keeps it until that client goes away.         *)
Handle(k) ==
    /\ conn[k] = "handled"
    /\ run # "exited"
    /\ Request[k] = "silent" => k \in gone
    /\ conn' = [conn EXCEPT ![k] = IF Request[k] = "ping" THEN "pong" ELSE "refused"]
    /\ UNCHANGED <<idleTimeout, listener, closed, closer, canceled, age,
                   watcher, acceptor, held, connChClosed, errCh, run, picked,
                   cause, gone>>

-----------------------------------------------------------------------------
RunStep ==
    \/ Receive \/ Serve
    \/ ReturnCanceled \/ ReturnIdle \/ ReturnError \/ ReturnClosed
    \/ Cleanup

Next ==
    \/ \E k \in Conns : Connect(k) \/ GoAway(k) \/ Reset(k) \/ Accept(k) \/ Handle(k)
    \/ Elapse \/ Cancel \/ MarkClosed \/ CloseListener
    \/ WatcherTick \/ WatcherCanceled
    \/ AcceptFails \/ AcceptorEnds
    \/ RunStep \/ Exit

Spec == Init /\ [][Next]_vars

(* The Go scheduler runs every goroutine that can run, and time passes.    *)
(* Nobody has to connect, to cancel, to call Close, or to let Accept fail; *)
(* a silent client need not go away; nor does the process have to exit:    *)
(* Run is also called from tests.                                          *)
Fairness ==
    /\ WF_vars(RunStep)
    /\ WF_vars(CloseListener)
    /\ WF_vars(Elapse)
    /\ WF_vars(WatcherTick)
    /\ WF_vars(WatcherCanceled)
    /\ WF_vars(listener = "closed" /\ AcceptFails)
    /\ WF_vars(AcceptorEnds)
    /\ \A k \in Conns :
          /\ WF_vars(Accept(k))
          /\ WF_vars(Handle(k))

FairSpec == Spec /\ Fairness

-----------------------------------------------------------------------------
(* Properties.                                                             *)

Stopped == run \in {"returned", "exited"}

(* Run reports an error only for an Accept that failed by itself; the      *)
(* errors its own shutdowns and Close provoke in Accept are told apart.    *)
CleanShutdown == cause # "listener closed"

(* Between Accept and the handler a connection is in the hands of exactly  *)
(* one goroutine: none is handed over twice and none falls between them.   *)
OneHolder ==
    /\ held # None <=> acceptor = "handing"
    /\ held # None => held # picked
    /\ run # "exited" => \A k \in Conns : conn[k] = "held" <=> k \in {held, picked}

(* When Run has returned, at most one connection was accepted and never    *)
(* reaches a handler: the one the accept goroutine was about to send.      *)
AtMostOneStranded ==
    Stopped => Cardinality({k \in Conns : conn[k] = "held"}) <= 1

ChannelTypes ==
    /\ idleTimeout \in {0, Timeout}
    /\ listener \in {"open", "closed"}
    /\ closed \in BOOLEAN
    /\ closer \in {"unused", "marked", "done"}
    /\ canceled \in BOOLEAN
    /\ age \in 0..Timeout
    /\ connChClosed \in BOOLEAN
    /\ errCh \in Errors

GoroutineTypes ==
    /\ watcher \in {"ticking", "firing", "gone"}
    /\ acceptor \in {"accepting", "handing", "gone", "accept failed", "listener closed"}
    /\ held \in Conns \cup {None}
    /\ run \in {"select", "serving", "cleanup", "returned", "exited"}
    /\ picked \in Conns \cup {None}
    /\ cause \in Errors \cup {"canceled", "idle", "closed"}
    /\ conn \in [Conns -> {"none", "queued", "held", "handled", "pong", "refused", "lost"}]
    /\ gone \subseteq Conns

TypeOK == ChannelTypes /\ GoroutineTypes

(* Each goroutine has a connection exactly while it is about to pass one   *)
(* on, and whatever is held is with one of them, also after the exit.      *)
HandOver ==
    /\ held # None <=> acceptor = "handing"
    /\ picked # None <=> run = "serving"
    /\ held # None => held # picked
    /\ \A k \in Conns : conn[k] = "held" => k \in {held, picked}
    /\ run # "exited" => \A k \in Conns \cap {held, picked} : conn[k] = "held"

(* Why the listener is closed: by Close, which has raised the flag before, *)
(* or by the cleanup of a Run that takes no further case.  The error the   *)
(* closed listener makes of Accept can then not reach Run's select.        *)
ClosedForAReason ==
    /\ Stopped => listener = "closed"
    /\ closer # "unused" => closed
    /\ listener = "closed" => closed \/ Stopped
    /\ acceptor = "listener closed" => listener = "closed"
    /\ errCh = "listener closed" => Stopped

IInv ==
    /\ TypeOK
    /\ HandOver
    /\ ClosedForAReason
    /\ CleanShutdown

(* Seen from the clients the server is a ServerRole: the goroutines, the   *)
(* channels and the order of the shutdown lose no connection that the role *)
(* does not allow to be lost.                                              *)
SeenAs(stage) ==
    CASE stage = "held" -> "queued"
      [] stage \in {"pong", "refused"} -> "answered"
      [] OTHER -> stage

Role == INSTANCE ServerRole WITH
    listening <- listener = "open",
    running <- run \in {"select", "serving"},
    exited <- run = "exited",
    conn <- [k \in Conns |-> SeenAs(conn[k])]

ImplementsRole == Role!Spec

(* A server left without requests comes to its end, whatever its select    *)
(* picked and however late the watcher looked; and Close makes Run return, *)
(* also when the accept goroutine is busy handing a connection over.       *)
RunReturns ==
    /\ (idleTimeout > 0) ~> Stopped
    /\ (closer # "unused") ~> Stopped

(* A canceled context ends the watcher too, also one that is offering its  *)
(* signal to a Run that has returned; and once Run has returned the accept *)
(* goroutine ends, unless it is stuck with a connection nobody receives    *)
(* any more.                                                               *)
GoroutinesEnd ==
    /\ canceled ~> (watcher = "gone" \/ run = "exited")
    /\ (run = "returned") ~> (acceptor \in {"gone", "handing"} \/ run = "exited")

(* A connection that waits in the queue is answered or the server stops:   *)
(* Run never goes on without an accept goroutine, and a client that stays  *)
(* silent for ever holds up only its own handler.                          *)
QueuedIsServed ==
    \A k \in Conns :
        (conn[k] = "queued") ~>
            \/ conn[k] \in {"pong", "refused", "lost"}
            \/ Request[k] = "silent" /\ conn[k] = "handled"
            \/ run \notin {"select", "serving"}
=============================================================================
