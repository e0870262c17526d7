------------------------------- MODULE MCCli -------------------------------
(***************************************************************************)
(* Lines with a complete command, with too few and with more tokens, one   *)
(* with more than are read, and one that is a part of several commands.    *)
(***************************************************************************)
EXTENDS Cli

MCWords == {"ptp", "servo", "params", "reset", "offset", "log", "help",
            "def", "on", "5", "x"}

MCLines == { <<"ptp", "reset">>, <<"ptp", "servo", "offset", "5">>,
             <<"ptp", "log">>, <<"ptp", "log", "def", "on">>, <<"ptp", "servo">>, <<"x">>,
             [n \in 1 .. 18 |-> IF n = 1 THEN "ptp" ELSE IF n = 2 THEN "log" ELSE "x"] }

\* Behind a shared tokenizer the properties claim nothing.
Unshared == ~shared
=============================================================================
