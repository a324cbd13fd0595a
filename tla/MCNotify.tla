------------------------------ MODULE MCNotify ------------------------------
(* Small instances of Notify for TLC.                                      *)
EXTENDS Notify

\* Everything is wanted, at any hour.
Everything == [resolvedToo : {TRUE}, minSeverity : {1}, quiet : {FALSE}, criticalAlways : {TRUE}]

TwoRanks == {2, 4}
=============================================================================
