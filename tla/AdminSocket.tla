---------------------------- MODULE AdminSocket -----------------------------
(***************************************************************************)
(* The admin API: a UNIX or TCP socket with one goroutine for each         *)
(* connection, an optional HTTP server beside it, and a table of handlers  *)
(* that grows while the daemon starts.                                     *)
(***************************************************************************)
EXTENDS Integers

CONSTANTS
    Conns,       \* connections of clients
    Groups,      \* groups of handlers, one for each component
    WebListen    \* whether an address for the HTTP server is configured

VARIABLES
    path,        \* the socket's file: "absent", "stale", "used" or "ours"
    listener,    \* "none", "open" or "closed"
    done,        \* whether the channel done is closed
    accepting,   \* listen: "off", "on" or "ended"
    web,         \* "off", "up" or "down"
    handlers,    \* groups that are registered
    conn,        \* handleRequest: "none", "reading" or "handling"
    kept         \* connections that asked for KeepAlive

adminVars == <<path, listener, done, accepting, web, handlers, conn, kept>>

AdminInit ==
    /\ path \in {"absent", "stale", "used"} /\ listener = "none" /\ done = FALSE
    /\ accepting = "off" /\ web = "off" /\ handlers = {}
    /\ conn = [c \in Conns |-> "none"] /\ kept = {}

(* A socket that answers, or whose owner does not answer in time, is left *)
(* alone; any other file is removed.                                      *)
unixSocketInUse == path = "used"

(* Stop closes done and the listener, which unlinks the file, and gives the *)
(* HTTP server five seconds.  Open connections of the socket stay.          *)
Stop ==
    /\ done' = TRUE /\ listener' = "closed" /\ path' = "absent"
    /\ web' = IF web = "up" THEN "down" ELSE web
    /\ UNCHANGED <<accepting, handlers, conn, kept>>

startSocket ==
    /\ ~unixSocketInUse /\ listener = "none"
    /\ path' = "ours" /\ listener' = "open" /\ accepting' = "on"
    /\ handlers' = {"list"}
    /\ UNCHANGED <<done, web, conn, kept>>

startWebAdmin ==
    /\ WebListen /\ web = "off" /\ web' = "up"
    /\ UNCHANGED <<path, listener, done, accepting, handlers, conn, kept>>

AddHandler(g) ==
    /\ handlers' = handlers \cup {g}
    /\ UNCHANGED <<path, listener, done, accepting, web, conn, kept>>

Accept(c) ==
    /\ accepting = "on" /\ listener = "open" /\ conn[c] = "none"
    /\ conn' = [conn EXCEPT ![c] = "reading"]
    /\ UNCHANGED <<path, listener, done, accepting, web, handlers, kept>>

(* An error of Accept ends listen only once done is closed. *)
listenReturns ==
    /\ accepting = "on" /\ listener = "closed" /\ done /\ accepting' = "ended"
    /\ UNCHANGED <<path, listener, done, web, handlers, conn, kept>>

(* handleRequest: Dispatch runs the handler, if there is one by now. *)
Dispatch(c, g, keep) ==
    /\ conn[c] = "reading"
    /\ conn' = [conn EXCEPT ![c] = IF g \in handlers THEN "handling"
                                   ELSE IF keep THEN "reading" ELSE "none"]
    /\ kept' = IF keep THEN kept \cup {c} ELSE kept \ {c}
    /\ UNCHANGED <<path, listener, done, accepting, web, handlers>>

Respond(c) ==
    /\ conn[c] = "handling"
    /\ conn' = [conn EXCEPT ![c] = IF c \in kept THEN "reading" ELSE "none"]
    /\ UNCHANGED <<path, listener, done, accepting, web, handlers, kept>>
=============================================================================
