------------------------------ MODULE MCTools ------------------------------
(***************************************************************************)
(* The tools beside the balancer: the demo console, a run of the load      *)
(* generator and the figures it reports, one of them in a behaviour.       *)
(***************************************************************************)
EXTENDS Integers, Sequences, Console, LoadGenerator

VARIABLE tool

TwoBands == <<1, 2>>

InitTools ==
    /\ tool \in {"console", "load", "figures"}
    /\ ConsoleInit
    /\ LoadInit

varsTools == <<tool, consoleVars, loadVars>>

NextTools ==
    /\ UNCHANGED tool
    /\ \/ tool = "console" /\ ConsoleNext /\ UNCHANGED loadVars
       \/ tool = "load"    /\ LoadNext    /\ UNCHANGED consoleVars
       \/ tool = "figures" /\ ReportNext  /\ UNCHANGED consoleVars

SafetyTools == InitTools /\ [][NextTools]_varsTools

=============================================================================
