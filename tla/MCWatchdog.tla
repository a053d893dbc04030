----------------------------- MODULE MCWatchdog -----------------------------
(* Watchdog with a different timeout for each entry of the table.          *)
EXTENDS Watchdog

MCTimeout == [i \in 0..(MaxWd - 1) |-> 2 + i]
=============================================================================
