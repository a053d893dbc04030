---------------------------- MODULE MCAutomation ----------------------------
(* Automation in a few installations.                                      *)
EXTENDS Automation

CONSTANTS i1, i2, o1, o2

MCRule(in, mode, out) ==
  [input |-> in, op |-> "ge", threshold |-> 1, mode |-> mode,
   duration |-> 2, output |-> out, onTrue |-> 1, onFalse |-> 0]
MCEntry(in, mode, out, ilk) == [rule |-> MCRule(in, mode, out), ilk |-> ilk]

(* Permitted while the input is 0; while both inputs are.                  *)
MCZero(in) == [enabled |-> TRUE, any |-> FALSE,
               conds |-> <<[chan |-> in, op |-> "eq", target |-> 0]>>]
MCBoth == [enabled |-> TRUE, any |-> FALSE,
           conds |-> <<[chan |-> i1, op |-> "le", target |-> 1],
                       [chan |-> i2, op |-> "lt", target |-> 1]>>]

(* Rules that nobody edits.                                                *)
MCFixed(t) == [load |-> t, requests |-> {}, wired |-> {i1, i2}, restored |-> {},
               blocked |-> {}, deletes |-> FALSE, manual |-> FALSE, fails |-> FALSE]

(* One interlocked rule of every mode but ON_DELAY.                        *)
MCModes == {"follow", "pulse", "off_delay", "toggle", "force_on", "force_off"}
MCGuarded == {[MCFixed(<<MCEntry(i1, m, o1, MCBoth)>>)
               EXCEPT !.restored = {o1}] : m \in MCModes}

(* A FOLLOW rule beside an interlocked ON_DELAY rule on a blocked output.  *)
MCTimed == [MCFixed(<<MCEntry(i1, "on_delay", o2, MCZero(i2)),
                      MCEntry(i1, "follow", o1, NoIlk)>>)
            EXCEPT !.blocked = {o2}]

(* Two tasks on a pulse: a rule of the same input is added.                *)
MCPulse == [MCFixed(<<MCEntry(i1, "pulse", o2, NoIlk)>>)
            EXCEPT !.requests = {MCEntry(i1, "follow", o1, NoIlk)}, !.wired = {i1}]

(* Rules of one output added, removed and saved.                           *)
MCEdit == [MCFixed(<<>>)
           EXCEPT !.requests = {MCEntry(i1, "force_on", o1, NoIlk),
                                MCEntry(i1, "force_off", o1, MCZero(i1))},
                  !.wired = {}, !.deletes = TRUE, !.fails = TRUE]

MCSites == MCGuarded \cup {MCTimed, MCPulse, MCEdit}

(* An interlocked ON_DELAY rule.                                           *)
MCDelay == {MCFixed(<<MCEntry(i1, "on_delay", o1, MCZero(i2))>>)}

(* An interlocked FOLLOW rule while outputs are commanded by hand.         *)
MCByHand == {[MCFixed(<<MCEntry(i1, "follow", o1, MCZero(i2))>>)
              EXCEPT !.manual = TRUE]}

(* An interlocked FOLLOW rule that is added.                               *)
MCAdd == {[MCFixed(<<>>)
           EXCEPT !.requests = {MCEntry(i1, "follow", o1, MCZero(i2))}]}

(* An interlocked FOLLOW rule behind one that may be removed.              *)
MCRemove == {[MCFixed(<<MCEntry(i1, "toggle", o2, NoIlk),
                        MCEntry(i1, "follow", o1, MCZero(i2))>>)
              EXCEPT !.deletes = TRUE]}

(* A FOLLOW rule that is added while its input changes.                    *)
MCStale == {[MCFixed(<<>>) EXCEPT !.requests = {MCEntry(i1, "follow", o1, NoIlk)}]}

(* A rule that is added although it exists.                                *)
MCTwice == {[MCFixed(<<MCEntry(i1, "follow", o1, NoIlk),
                       MCEntry(i1, "toggle", o2, MCZero(i1))>>)
             EXCEPT !.requests = {MCEntry(i1, "follow", o1, MCZero(i2))}]}

(* Two tasks on an ON_DELAY rule: a rule of the same input is added.       *)
MCArmed == {[MCFixed(<<MCEntry(i1, "on_delay", o2, NoIlk)>>)
             EXCEPT !.requests = {MCEntry(i1, "follow", o1, NoIlk)}, !.wired = {i1}]}

(* A pulse behind a rule that may be removed.                              *)
MCCut == {[MCFixed(<<MCEntry(i1, "follow", o1, NoIlk), MCEntry(i1, "pulse", o2, NoIlk)>>)
           EXCEPT !.wired = {i1}, !.deletes = TRUE]}
=============================================================================
