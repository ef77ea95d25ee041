----------------------------- MODULE BreakerUse -----------------------------
(***************************************************************************)
(* How the requests of one configuration snapshot use its circuit breaker  *)
(* (internal/proxy/breaker.go, called from proxy.go): they ask it of any   *)
(* backends, choose one, try it, and report to it what came of that, at    *)
(* most once and for that backend, while others do the same.  Only a       *)
(* client that is gone excuses a failure.                                  *)
(***************************************************************************)
EXTENDS Breaker

CONSTANTS
    Requests,
    Nobody      \* not an address

VARIABLES
    stage,      \* where each request is in its use of the breaker
    at,         \* the backend of its attempt
    admitted,   \* the backends allow answered TRUE for, since the last choice
    gone        \* its client hung up

useVars == <<circuits, stage, at, admitted, gone>>

UseInit ==
    /\ BreakerInit
    /\ stage = [r \in Requests |-> "out"]
    /\ at = [r \in Requests |-> Nobody]
    /\ admitted = [r \in Requests |-> {}]
    /\ gone = [r \in Requests |-> FALSE]

Goes(r, from, to) == stage[r] = from /\ stage' = [stage EXCEPT ![r] = to]

Enter(r) ==
    /\ Goes(r, "out", "choosing")
    /\ \E hungUp \in BOOLEAN : gone' = [gone EXCEPT ![r] = hungUp]
    /\ UNCHANGED <<circuits, at, admitted>>

Ask(r, b) ==
    /\ stage[r] = "choosing"
    /\ \/ Allow(b) /\ admitted' = [admitted EXCEPT ![r] = @ \cup {b}]
       \/ Hold(b) /\ UNCHANGED admitted
    /\ UNCHANGED <<stage, at, gone>>

\* A backend that was not admitted is chosen only when none was.
Choose(r, b) ==
    /\ \/ Goes(r, "choosing", "chosen")
       \/ Goes(r, "choosing", "trying")
    /\ b \in admitted[r] \/ admitted[r] = {}
    /\ at' = [at EXCEPT ![r] = b]
    /\ admitted' = [admitted EXCEPT ![r] = {}]
    /\ UNCHANGED <<circuits, gone>>

Try(r) == Goes(r, "chosen", "trying") /\ UNCHANGED <<circuits, at, admitted, gone>>

\* The attempt ends: served, failed, or with nobody left to blame.
EndAttempt(r) ==
    /\ \E to \in {"served", "failed", "over"} : Goes(r, "trying", to)
    /\ UNCHANGED <<circuits, at, admitted, gone>>

ReportSuccess(r) ==
    /\ Goes(r, "served", "over")
    /\ RecordSuccess(at[r])
    /\ UNCHANGED <<at, admitted, gone>>

ReportFailure(r) ==
    /\ Goes(r, "failed", "over")
    /\ RecordFailure(at[r])
    /\ UNCHANGED <<at, admitted, gone>>

Excuse(r) ==
    /\ Goes(r, "failed", "over")
    /\ gone[r]
    /\ UNCHANGED <<circuits, at, admitted, gone>>

Again(r) ==
    /\ Goes(r, "over", "choosing")
    /\ at' = [at EXCEPT ![r] = Nobody]
    /\ UNCHANGED <<circuits, admitted, gone>>

\* With an attempt behind it, refused by the budget, or with no backend to try.
Exit(r) ==
    /\ \E from \in {"over", "chosen", "choosing"} : Goes(r, from, "out")
    /\ admitted[r] = {}
    /\ at' = [at EXCEPT ![r] = Nobody]
    /\ gone' = [gone EXCEPT ![r] = FALSE]
    /\ UNCHANGED <<circuits, admitted>>

HangUp(r) ==
    /\ stage[r] # "out"
    /\ gone' = [gone EXCEPT ![r] = TRUE]
    /\ UNCHANGED <<circuits, stage, at, admitted>>

UseNext ==
    \/ \E r \in Requests :
          \/ Enter(r) \/ Try(r) \/ EndAttempt(r)
          \/ ReportSuccess(r) \/ ReportFailure(r) \/ Excuse(r)
          \/ Again(r) \/ Exit(r) \/ HangUp(r)
          \/ \E b \in Addrs : Ask(r, b) \/ Choose(r, b)
    \/ Tick /\ UNCHANGED <<stage, at, admitted, gone>>

UseSpec == UseInit /\ [][UseNext]_useVars

=============================================================================
