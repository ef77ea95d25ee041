--------------------------- MODULE MCApplication ---------------------------
(* Constants of the models of the application.                              *)
EXTENDS ApplicationProperties

CONSTANTS b1, b2

File(valid, pool, algorithm, fixed) ==
    [valid |-> valid, pool |-> pool, algorithm |-> algorithm, fixed |-> fixed]

\* The first new file is invalid; the second drops a backend and changes the
\* algorithm and a setting that needs a restart.
ChangingFiles ==
    <<File(TRUE, {b1, b2}, "round_robin", 1), File(FALSE, {b2}, "round_robin", 1),
      File(TRUE, {b2}, "consistent_hash", 2)>>

\* A setting that needs a restart is changed, and stays so in the next file.
RestartFiles ==
    <<File(TRUE, {b1}, "round_robin", 1), File(TRUE, {b1}, "round_robin", 2),
      File(TRUE, {b1, b2}, "round_robin", 2)>>

=============================================================================
