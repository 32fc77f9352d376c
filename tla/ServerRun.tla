------------------------------ MODULE ServerRun ------------------------------
(***************************************************************************)
(* run() of main.go from ListenAndServe on: the goroutine of main, the     *)
(* goroutine that waits for a signal, the channel done between them, and   *)
(* the deferred Close of the two pools.  The net/http server they share is *)
(* its connections and what ListenAndServe and Shutdown promise of them.   *)
(***************************************************************************)
CONSTANT Conn  \* connections of clients

VARIABLES
    conns,   \* connections accepted and not closed
    main,    \* where run() is
    stopper, \* where the goroutine that calls Shutdown is
    done,    \* the channel done is closed
    pools    \* what the deferred functions have closed

runVars == <<conns, main, stopper, done, pools>>

\* "closing" is a run that returns nil, "failing" one that returns an error.
Main == {"starting", "serving", "waiting", "closing", "failing"}

\* "drained" and "overdue" are the two ways Shutdown may return.
Stopper == {"quit", "shutdown", "drained", "overdue"}

Pools == {"open", "noRedis", "closed"}

RunTypeOK ==
    /\ conns \subseteq Conn
    /\ main \in Main
    /\ stopper \in Stopper
    /\ done \in BOOLEAN
    /\ pools \in Pools

RunInit ==
    /\ conns = {}
    /\ main = "starting"
    /\ stopper = "quit"
    /\ done = FALSE
    /\ pools = "open"

\* The process ends and is started again.
Restart ==
    /\ conns' = {}
    /\ main' = "starting"
    /\ stopper' = "quit"
    /\ done' = FALSE
    /\ pools' = "open"

-----------------------------------------------------------------------------
\* Connections

\* A connection may be accepted until Shutdown has made ListenAndServe return.
Accept(c) ==
    /\ main = "serving" /\ c \notin conns
    /\ conns' = conns \cup {c}
    /\ UNCHANGED <<main, stopper, done, pools>>

\* A handler has returned.  SetKeepAlivesEnabled(false) ends its connection.
Respond(c) ==
    /\ conns' = IF stopper = "quit" THEN conns ELSE conns \ {c}
    /\ UNCHANGED <<main, stopper, done, pools>>

\* The client, a timeout or Shutdown closes a connection with no request on it.
Disconnect(c) ==
    /\ c \in conns
    /\ conns' = conns \ {c}
    /\ UNCHANGED <<main, stopper, done, pools>>

-----------------------------------------------------------------------------
\* The goroutine that waits for a signal

Signal ==
    /\ stopper = "quit"
    /\ stopper' = "shutdown"
    /\ UNCHANGED <<conns, main, done, pools>>

\* Shutdown has waited for ListenAndServe to accept no more, and then for the
\* connections, with their requests.
Drain ==
    /\ stopper = "shutdown" /\ main # "serving" /\ conns = {}
    /\ stopper' = "drained"
    /\ UNCHANGED <<conns, main, done, pools>>

\* The context of Shutdown ends after 30 seconds.
Overrun ==
    /\ stopper = "shutdown" /\ main # "serving"
    /\ stopper' = "overdue"
    /\ UNCHANGED <<conns, main, done, pools>>

\* close(done), whether Shutdown has returned an error or not.
CloseDone ==
    /\ stopper \in {"drained", "overdue"} /\ ~done
    /\ done' = TRUE
    /\ UNCHANGED <<conns, main, stopper, pools>>

-----------------------------------------------------------------------------
\* The goroutine of main

Listen ==
    /\ main = "starting" /\ stopper = "quit"
    /\ main' = "serving"
    /\ UNCHANGED <<conns, stopper, done, pools>>

\* ListenAndServe returns ErrServerClosed as soon as Shutdown has been called,
\* also if that was before it came to listen.
ServerClosed ==
    /\ main \in {"starting", "serving"} /\ stopper # "quit"
    /\ main' = "waiting"
    /\ UNCHANGED <<conns, stopper, done, pools>>

\* The address is taken, or accepting fails: run returns the error.
ListenFails ==
    /\ main \in {"starting", "serving"} /\ stopper = "quit"
    /\ main' = "failing"
    /\ UNCHANGED <<conns, stopper, done, pools>>

\* Mutant: run does not wait for the channel.
NotWaited ==
    /\ main = "waiting"
    /\ main' = "closing"
    /\ UNCHANGED <<conns, stopper, done, pools>>

\* <-done
ReceiveDone ==
    /\ main = "waiting" /\ done
    /\ main' = "closing"
    /\ UNCHANGED <<conns, stopper, done, pools>>

\* The deferred functions run in the opposite order.
CloseRedis ==
    /\ main \in {"closing", "failing"} /\ pools = "open"
    /\ pools' = "noRedis"
    /\ UNCHANGED <<conns, main, stopper, done>>

ClosePostgres ==
    /\ pools = "noRedis"
    /\ pools' = "closed"
    /\ UNCHANGED <<conns, main, stopper, done>>

RunStep == \/ Signal \/ Drain \/ Overrun \/ CloseDone
           \/ Listen \/ ServerClosed \/ ListenFails \/ ReceiveDone
           \/ CloseRedis \/ ClosePostgres
=============================================================================
