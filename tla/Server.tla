------------------------------- MODULE Server -------------------------------
(***************************************************************************)
(* The server that carries proxied traffic (internal/server): the accept   *)
(* loop behind the connection limit (limitlistener.go), the connections it *)
(* serves, and the graceful shutdown (server.go).                          *)
(*                                                                         *)
(* The accept loop, Shutdown and the life of a connection are net/http's,  *)
(* modelled as far as the code relies on them: Shutdown closes the socket, *)
(* waits for the accept loop to return, and only then looks, again and     *)
(* again, for connections that are not serving a request, until none is    *)
(* left or its context is over.                                            *)
(***************************************************************************)
EXTENDS Integers, FiniteSets

CONSTANTS
    Conns,            \* connections clients open, each once
    MaxConnections    \* limits.max_connections

\* config.validate: at least one.
ASSUME ServerAssumption == IsFiniteSet(Conns) /\ MaxConnections \in Nat \ {0}

VARIABLES
    conn,        \* each connection
    slots,       \* the tokens in limitListener.slots
    acceptor,    \* the goroutine in http.Server.Serve
    run,         \* where Server.Run is
    grace        \* shutdownGrace has passed

serverVars == <<conn, slots, acceptor, run, grace>>

ConnStages == {
    "none",       \* not dialled
    "queued",     \* in the kernel's accept queue
    "accepted",   \* returned by Accept, not yet tracked by http.Server
    "new",        \* no request has come on it
    "active",     \* in the handler
    "idle",       \* kept alive between two requests
    "cut",        \* closed by Shutdown; its goroutine has not noticed yet
    "closed"}     \* closed, refused included

AcceptorStages == {"slot", "accept", "track", "returned"}
RunStages == {"serving", "waiting", "polling", "drained", "expired", "failed"}

ServerTypeOK ==
    /\ conn \in [Conns -> ConnStages]
    /\ slots \in 0..MaxConnections
    /\ acceptor \in AcceptorStages
    /\ run \in RunStages
    /\ grace \in BOOLEAN

In(stages) == {c \in Conns : conn[c] \in stages}

\* The listening socket is open.
Listening == run = "serving"
ShuttingDown == run \notin {"serving", "failed"}

ServerInit ==
    /\ conn = [c \in Conns |-> "none"]
    /\ slots = 0
    /\ acceptor = "slot"
    /\ run = "serving"
    /\ grace = FALSE

-----------------------------------------------------------------------------
Becomes(c, from, to) ==
    /\ conn[c] = from
    /\ conn' = [conn EXCEPT ![c] = to]

Dial(c) ==
    /\ Becomes(c, "none", IF Listening THEN "queued" ELSE "closed")
    /\ UNCHANGED <<slots, acceptor, run, grace>>

\* limitListener.Accept waits for a slot before it asks the inner listener.
TakeSlot ==
    /\ acceptor = "slot"
    /\ slots < MaxConnections
    /\ slots' = slots + 1
    /\ acceptor' = "accept"
    /\ UNCHANGED <<conn, run, grace>>

\* Slip: the slot of a failed Accept is not given back.
AcceptFailsKeepingSlot ==
    /\ acceptor = "accept"
    /\ acceptor' = IF Listening THEN "slot" ELSE "returned"
    /\ UNCHANGED <<slots, conn, run, grace>>

\* Accept fails, because the socket is closed or in a way that passes: the slot
\* goes back, and Serve returns or tries again.
AcceptFails ==
    /\ acceptor = "accept"
    /\ slots' = slots - 1
    /\ acceptor' = IF Listening THEN "slot" ELSE "returned"
    /\ UNCHANGED <<conn, run, grace>>

\* Accept fails for good: Serve closes the socket, and Run returns its error.
ServeFails ==
    /\ acceptor = "accept" /\ Listening
    /\ slots' = slots - 1
    /\ acceptor' = "returned"
    /\ run' = "failed"
    /\ conn' = [c \in Conns |-> IF conn[c] = "queued" THEN "closed" ELSE conn[c]]
    /\ UNCHANGED grace

Accept(c) ==
    /\ acceptor = "accept" /\ Listening
    /\ Becomes(c, "queued", "accepted")
    /\ acceptor' = "track"
    /\ UNCHANGED <<slots, run, grace>>

\* Serve tracks the connection, starts its goroutine and goes on accepting.
Track(c) ==
    /\ acceptor = "track"
    /\ Becomes(c, "accepted", "new")
    /\ acceptor' = "slot"
    /\ UNCHANGED <<slots, run, grace>>

-----------------------------------------------------------------------------
BeginRequest(c) ==
    /\ Becomes(c, "new", "active") \/ Becomes(c, "idle", "active")
    /\ UNCHANGED <<slots, acceptor, run, grace>>

\* The handler returns and the connection is kept for another request, which a
\* server that is shutting down does not do.
KeepAlive(c) ==
    /\ ~ShuttingDown
    /\ Becomes(c, "active", "idle")
    /\ UNCHANGED <<slots, acceptor, run, grace>>

\* The handler returns, the client hangs up, or a read or idle timeout passes:
\* limitConn.Close closes the connection and gives its token back.
Close(c) ==
    /\ conn[c] \in {"new", "active", "idle"}
    /\ slots' = slots - 1
    /\ conn' = [conn EXCEPT ![c] = "closed"]
    /\ UNCHANGED <<acceptor, run, grace>>

\* Slip: no sync.Once, so this second Close gives a token back as well.
CloseCutAgain(c) ==
    /\ Becomes(c, "cut", "closed")
    /\ slots' = IF slots > 0 THEN slots - 1 ELSE 0
    /\ UNCHANGED <<acceptor, run, grace>>

\* The goroutine of a connection that Shutdown closed closes it a second time:
\* limitConn.once gives the token back once.
CloseCut(c) ==
    /\ Becomes(c, "cut", "closed")
    /\ UNCHANGED <<slots, acceptor, run, grace>>

-----------------------------------------------------------------------------
\* Run: its context is cancelled and Shutdown closes the socket, on which the
\* kernel resets what it had queued.
Shutdown ==
    /\ run = "serving"
    /\ run' = "waiting"
    /\ conn' = [c \in Conns |-> IF conn[c] = "queued" THEN "closed" ELSE conn[c]]
    /\ UNCHANGED <<slots, acceptor, grace>>

GracePasses ==
    /\ run \in {"waiting", "polling"}
    /\ grace' = TRUE
    /\ UNCHANGED <<conn, slots, acceptor, run>>

\* Slip: Shutdown polls while the accept loop is still on its way out.
PollAtOnce ==
    /\ run = "waiting"
    /\ run' = "polling"
    /\ UNCHANGED <<conn, slots, acceptor, grace>>

\* Shutdown has waited for the accept loop to return, grace or no grace.
AcceptorGone ==
    /\ run = "waiting" /\ acceptor = "returned"
    /\ run' = "polling"
    /\ UNCHANGED <<conn, slots, acceptor, grace>>

\* One look at the connections: the idle ones are closed, and those on which no
\* request came for a while; nothing in service is left when Shutdown returns.
Poll ==
    /\ run = "polling"
    /\ \E stale \in SUBSET In({"new"}) :
          LET gone == In({"idle"}) \cup stale
          IN  /\ conn' = [c \in Conns |-> IF c \in gone THEN "cut" ELSE conn[c]]
              /\ slots' = slots - Cardinality(gone)
              /\ run' = IF In({"active", "new"}) \subseteq gone THEN "drained" ELSE "polling"
    /\ UNCHANGED <<acceptor, grace>>

\* The grace is over: Shutdown returns its error, and closes nothing.
GiveUp ==
    /\ run = "polling" /\ grace
    /\ run' = "expired"
    /\ UNCHANGED <<conn, slots, acceptor, grace>>

\* The steps of the server itself; the rest are its clients' and handlers'.
Serving ==
    \/ TakeSlot \/ AcceptFails
    \/ \E c \in Conns : Accept(c) \/ Track(c) \/ CloseCut(c)
    \/ AcceptorGone \/ Poll \/ GiveUp

ServerNext ==
    \/ Serving
    \/ ServeFails
    \/ \E c \in Conns : Dial(c) \/ BeginRequest(c) \/ KeepAlive(c) \/ Close(c)
    \/ Shutdown
    \/ GracePasses

=============================================================================
