----------------------- MODULE ApplicationProperties -----------------------
(* What the assembled balancer promises whoever runs it.                    *)
EXTENDS Application

\* Between two reloads every part holds the same configuration, a valid one, and
\* the strategy is the one its algorithm asks for, whatever was rejected, skipped
\* or kept on the way (App.Reload).
PartsAgree ==
    reloader.at \in {"waiting", "reading", "done"} =>
        /\ \A p \in Parts \ {"strategy"} : given[p] = given["cfg"]
        /\ Files[given["cfg"]].valid
        /\ Files[given["strategy"]].algorithm = Files[given["cfg"]].algorithm

\* "An unreadable or invalid file leaves the balancer running on the
\* configuration it already has" (App.Reload), and a reload never brings back an
\* older file than the one in force.
NeverBack ==
    [][\A p \in Parts :
          given'[p] >= given[p] /\ (given'[p] # given[p] => Files[given'[p]].valid)]_vars

\* A hang-up sent once the file was whole has it applied, unless it is invalid,
\* replaced again, or the balancer stops: neither coalesced signals nor a reload
\* under way swallow the last request (reloadOn, reloadUntilDone).
HangUpsAreHeeded ==
    \A v \in Versions :
        asked /\ file.version = v ~>
            given["cfg"] = v \/ ~Files[v].valid \/ file.version > v \/ over

\* "The metrics server stays up until the traffic server has drained, so that
\* whatever routes traffic here can see /readyz fail while the requests in flight
\* finish" (App.Run): however the traffic server ends, the admin server begins to
\* shut down only after it.
AdminOutlivesTraffic ==
    [][servers'.admin = "draining" => servers.traffic = "down"]_vars

\* "If either server stops on its own, the other is shut down with it rather than
\* leaving the process half alive" (App.Run), and after a signal both end; readiness
\* is refused and the goroutine of the reloads has returned from then on.  Only a
\* traffic server whose shutdown never returns keeps the process, and with it the
\* admin server that says so.
NeverHalfAlive ==
    over \/ "down" \in {servers.traffic, servers.admin} ~>
        \/ []/\ servers.traffic = "down" /\ servers.admin = "down"
             /\ reloader.at = "done" /\ draining
        \/ []/\ servers.traffic = "draining"
             /\ reloader.at = "done" /\ draining

\* A backend that is healthy from the beginning of a request for /readyz to its
\* end is enough for the answer, whatever reload or health check comes between
\* (Probes.anyHealthy).
SteadyIsReady == [][Refuse => steady = {}]_vars

-----------------------------------------------------------------------------
\* RequiresRestart: it "names the settings that differ between the running
\* configuration and a newly read one but cannot be applied while serving". What
\* runs is what the sockets and servers were made from at the start, version 1.
WarnedOfWhatRuns ==
    reloader.at = "waiting" /\ given["cfg"] > 1 =>
        (warned <=> Files[given["cfg"]].fixed # Files[1].fixed)

=============================================================================
