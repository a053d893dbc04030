---------------------------- MODULE MCOutputPath ----------------------------
(* OutputPath in a few installations.                                      *)
EXTENDS OutputPath

(* Guarded writers, on and off the loop; every pair of a writer that       *)
(* changes values and one that races it; trips of the fail-safe against    *)
(* each other and against queued commands.                                 *)
MCSetups ==
  {{"manual", "rearm", "automation"}, {"rearm", "automation", "remote"},
   {"manual", "ladder"}, {"ladder", "owner"},
   {"failover", "ladder"}, {"failover", "remote"}, {"test", "remote"},
   {"test", "failover"}, {"manual", "rearm", "test"}}

(* The installations of the disagreements with the documents.              *)
MCLost     == {{"manual", "failover"}}
MCOverride == {{"manual", "rearm", "failover"}}
=============================================================================
