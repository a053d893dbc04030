----------------------------- MODULE MCFailsafe -----------------------------
(* Failsafe with a few policies that differ in what the properties see.    *)
EXTENDS Failsafe

MCHold   == [enabled |-> TRUE, boot |-> "hold", comm |-> "safe", fault |-> "off",
             safe |-> 1, manual |-> FALSE]
MCManual == [MCHold EXCEPT !.manual = TRUE]
MCOff    == [MCManual EXCEPT !.enabled = FALSE, !.boot = "snapshot"]

MCPolicies == {MCHold, MCManual, MCOff}
MCOne      == {MCHold, MCManual}
MCOldModes == {[startup |-> 2, comm |-> 3, safe |-> 1, manual |-> TRUE],
               [startup |-> 0, comm |-> 1, safe |-> 0, manual |-> FALSE]}
MCNoOld    == {}
=============================================================================
