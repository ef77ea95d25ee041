-------------------------- MODULE ServerProperties --------------------------
(* What the connection limit and the graceful shutdown promise.             *)
EXTENDS Server

ServerSpec == ServerInit /\ [][ServerNext]_serverVars

\* Goroutines run, Accept does not fail for ever, the grace passes, and a
\* connection that stays without a request is closed by its client or by a
\* timeout, all of which are greater than zero (config.validateTimeouts).
ServerFairness ==
    /\ WF_serverVars(TakeSlot)
    /\ WF_serverVars(ShuttingDown /\ AcceptFails)
    /\ SF_serverVars(\E c \in Conns : Accept(c))
    /\ WF_serverVars(\E c \in Conns : Track(c))
    /\ WF_serverVars(AcceptorGone \/ Poll)
    /\ WF_serverVars(GiveUp)
    /\ WF_serverVars(GracePasses)
    /\ \A c \in Conns : WF_serverVars(conn[c] \in {"new", "idle"} /\ Close(c))

\* Besides, no client keeps its connection busy for ever: requests end, and the
\* connection they came on is closed at last. (One condition for all of them: a
\* closed connection stays closed.)
RequestsEnd == SF_serverVars(\E c \in Conns : conn[c] = "active" /\ Close(c))

-----------------------------------------------------------------------------
\* A slot is taken exactly for each connection that is open and for the Accept
\* under way: not one is lost on a failed Accept, and none comes back twice when
\* Shutdown and the connection's goroutine both close it (limitListener.Accept,
\* limitConn.Close). A lost one would shrink the limit for good, one too many
\* would exceed it.
SlotsExact ==
    slots = Cardinality(In({"accepted", "new", "active", "idle"}))
              + (IF acceptor = "accept" THEN 1 ELSE 0)

\* Run returns without an error only when no connection is in service and none
\* can come: not even one that was accepted as the socket closed
\* (Server.shutdown).
DrainedMeansDrained ==
    run = "drained" => In({"queued", "accepted", "new", "active", "idle"}) = {}

\* With requests that end, a shutdown does as well (Server.Run).
ShutdownEnds == run = "waiting" ~> run \in {"drained", "expired"}

-----------------------------------------------------------------------------
\* shutdownGrace: "how long in-flight requests may take to finish once a shutdown
\* has been requested". So when the grace is over Run returns at last, whatever
\* the requests do.
GraceIsKept == grace ~> run \in {"drained", "expired"}

=============================================================================
