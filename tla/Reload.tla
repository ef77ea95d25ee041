------------------------------- MODULE Reload -------------------------------
(***************************************************************************)
(* The reload: the hang-up signals that ask for it (cmd/lb/main.go,        *)
(* reloadOn), the goroutine that applies one after another                 *)
(* (internal/app/app.go, reloadUntilDone), and the parts it reaches in     *)
(* turn (Reload).                                                          *)
(*                                                                         *)
(* A configuration is known by its version, the index of its text in       *)
(* Files; each part holds the version it was last given.                   *)
(***************************************************************************)
EXTENDS Lifecycle, Integers, Sequences

CONSTANTS
    Addrs,
    Flaky,  \* backends whose health changes
    Files   \* what the configuration file holds, one text after another:
            \*   valid: config.Load accepts it;  pool: its backends;
            \*   algorithm: algorithm and consistent_hash;
            \*   fixed: the settings bound to sockets and servers

ASSUME FilesAssumption ==
    /\ Files \in Seq([valid : BOOLEAN, pool : SUBSET Addrs, algorithm : STRING, fixed : Nat])
    /\ Files # <<>> /\ Files[1].valid

Versions == 1..Len(Files)

\* What a reload gives its parts; the strategy is part of what the handler is given.
Parts == {"handler", "strategy", "checker", "pool", "cfg"}

VARIABLES
    file,       \* the file's version, and whether it is written to the end
    asked,      \* history: a hang-up has come since the file became what it is
    hangups,    \* reloadOn: its two one-place channels, and its goroutine
    reloader,   \* reloadUntilDone: its stage, and the version it is applying
    given,      \* the version each part was last given
    warned,     \* whether the last reload warned of settings that need a restart
    fit         \* HTTPChecker's health of the backends it knows

operator == <<file, asked>>
reloadVars == <<operator, hangups, reloader, given, warned, fit>>

Known == Files[given["checker"]].pool

\* HTTPChecker.IsHealthy: a backend that is not known counts as healthy.
IsHealthy(b) == b \in Known => fit[b]

ReloadStages == {"waiting", "reading", "handler", "checker", "pool", "record", "done"}

ReloadTypeOK ==
    /\ file \in [version : Versions, whole : BOOLEAN]
    /\ asked \in BOOLEAN
    /\ hangups \in [received : BOOLEAN, requested : BOOLEAN,
                    relay : {"waiting", "passing", "done"}]
    /\ reloader \in [at : ReloadStages, next : Versions]
    /\ given \in [Parts -> Versions]
    /\ warned \in BOOLEAN
    /\ fit \in [Addrs -> BOOLEAN]
    /\ \A b \in Addrs \ Known : fit[b]

\* New, and Run up to its first wait.
ReloadInit ==
    /\ file = [version |-> 1, whole |-> TRUE]
    /\ asked = FALSE
    /\ hangups = [received |-> FALSE, requested |-> FALSE, relay |-> "waiting"]
    /\ reloader = [at |-> "waiting", next |-> 1]
    /\ given = [p \in Parts |-> 1]
    /\ warned = FALSE
    /\ fit = [b \in Addrs |-> TRUE]

-----------------------------------------------------------------------------
\* The operator replaces the file: until it is whole, nothing valid is read.
BeginWrite ==
    /\ file.version < Len(Files)
    /\ file' = [version |-> file.version + 1, whole |-> FALSE]
    /\ asked' = FALSE
    /\ UNCHANGED <<hangups, reloader, given, warned, fit>>

EndWrite ==
    /\ ~file.whole
    /\ file' = [file EXCEPT !.whole = TRUE]
    /\ UNCHANGED <<asked, hangups, reloader, given, warned, fit>>

\* SIGHUP: signal.Notify never blocks, so a second one coalesces with the first.
HangUp ==
    /\ hangups.relay # "done"
    /\ hangups' = [hangups EXCEPT !.received = TRUE]
    /\ asked' = file.whole
    /\ UNCHANGED <<file, reloader, given, warned, fit>>

-----------------------------------------------------------------------------
RelayReceives ==
    /\ hangups.relay = "waiting" /\ hangups.received
    /\ hangups' = [hangups EXCEPT !.received = FALSE, !.relay = "passing"]
    /\ UNCHANGED <<operator, reloader, given, warned, fit>>

\* Slip: the requests channel has no place, so a busy reloader misses requests.
RelayPassesUnqueued ==
    /\ hangups.relay = "passing"
    /\ hangups' = [hangups EXCEPT !.requested = @ \/ reloader.at = "waiting",
                                  !.relay = "waiting"]
    /\ UNCHANGED <<operator, reloader, given, warned, fit>>

\* "A reload is already queued; one is enough."
RelayPasses ==
    /\ hangups.relay = "passing"
    /\ hangups' = [hangups EXCEPT !.requested = TRUE, !.relay = "waiting"]
    /\ UNCHANGED <<operator, reloader, given, warned, fit>>

\* The context of main is over: it closes the requests channel.
RelayEnds ==
    /\ hangups.relay = "waiting" /\ signalled
    /\ hangups' = [hangups EXCEPT !.relay = "done"]
    /\ UNCHANGED <<operator, reloader, given, warned, fit>>

-----------------------------------------------------------------------------
Moves(from, to) ==
    /\ reloader.at = from
    /\ reloader' = [reloader EXCEPT !.at = to]

Give(parts) == given' = [p \in Parts |-> IF p \in parts THEN reloader.next ELSE given[p]]

\* reloadUntilDone: when its context is over as well, select takes either.
TakeRequest ==
    /\ hangups.requested
    /\ Moves("waiting", "reading")
    /\ hangups' = [hangups EXCEPT !.requested = FALSE]
    /\ UNCHANGED <<operator, given, warned, fit>>

\* The context of Run is over, or the channel is closed and empty.
ReloaderEnds ==
    /\ over \/ (hangups.relay = "done" /\ ~hangups.requested)
    /\ Moves("waiting", "done")
    /\ UNCHANGED <<operator, hangups, given, warned, fit>>

\* config.Load: an invalid file leaves everything as it is.
Read ==
    /\ reloader.at = "reading"
    /\ reloader' = IF file.whole /\ Files[file.version].valid
                   THEN [at |-> "handler", next |-> file.version]
                   ELSE [reloader EXCEPT !.at = "waiting"]
    /\ UNCHANGED <<operator, hangups, given, warned, fit>>

Differs(setting) == Files[reloader.next][setting] # Files[given["cfg"]][setting]

\* Slip: the strategy in use is kept whatever the new algorithm.
GiveHandlerAlone ==
    /\ Moves("handler", "checker")
    /\ Give({"handler"})
    /\ warned' = Differs("fixed")
    /\ UNCHANGED <<operator, hangups, fit>>

\* RequiresRestart compares with the configuration last applied, and a strategy
\* is built when the algorithm differs from it; handler.Reload publishes it.
GiveHandler ==
    /\ Moves("handler", "checker")
    /\ Give({"handler"} \cup IF Differs("algorithm") THEN {"strategy"} ELSE {})
    /\ warned' = Differs("fixed")
    /\ UNCHANGED <<operator, hangups, fit>>

\* checker.Reload: survivors keep their health, the others are forgotten.
GiveChecker ==
    /\ Moves("checker", "pool")
    /\ Give({"checker"})
    /\ fit' = [b \in Addrs |-> b \in Known \cap Files[reloader.next].pool => fit[b]]
    /\ UNCHANGED <<operator, hangups, warned>>

\* pool.Reload and pool.SetSticky.
GivePool ==
    /\ Moves("pool", "record")
    /\ Give({"pool"})
    /\ UNCHANGED <<operator, hangups, warned, fit>>

\* a.cfg, a.backends = next, backends
Record ==
    /\ Moves("record", "waiting")
    /\ Give({"cfg"})
    /\ UNCHANGED <<operator, hangups, warned, fit>>

\* A health check or a report flips the health of a backend.
Turn(b) ==
    /\ b \in Known \cap Flaky
    /\ fit' = [fit EXCEPT ![b] = ~@]
    /\ UNCHANGED <<operator, hangups, reloader, given, warned>>

Relaying == RelayReceives \/ RelayPasses \/ RelayEnds
Reloading == Read \/ GiveHandler \/ GiveChecker \/ GivePool \/ Record

ReloadNext ==
    \/ BeginWrite \/ EndWrite \/ HangUp
    \/ Relaying \/ TakeRequest \/ ReloaderEnds \/ Reloading
    \/ \E b \in Addrs : Turn(b)

ReloadFairness ==
    /\ WF_reloadVars(RelayReceives \/ RelayPasses) /\ SF_reloadVars(RelayEnds)
    /\ WF_reloadVars(TakeRequest) /\ WF_reloadVars(Reloading)
    /\ SF_reloadVars(ReloaderEnds)

=============================================================================
