------------------------------ MODULE MCRs485 ------------------------------
(* Rs485 with two addresses: installations whose nodes are prompt, slow,   *)
(* absent, switched off or share an address, with and without disturbances *)
(* and with a gateway whose loop is held up, for longer than a request.    *)
EXTENDS Rs485

Installation(prompt, slow, dies, disturbances, late, addr) ==
  [prompt |-> prompt, slow |-> slow, dies |-> dies, disturbances |-> disturbances,
   stalls |-> late, addr |-> addr, delays |-> {1, 4, 7, 11, 18}]

Each == [n \in Addresses |-> n]
Twins == [n \in Addresses |-> 1]

MCSites ==
  { Installation({1, 2}, {}, {}, 0, 9, Each),
    Installation({1, 2}, {}, {2}, 1, 3, Each),
    Installation({1}, {}, {}, 2, 1, Each),
    Installation({2}, {1}, {1}, 1, 1, Each),
    Installation({1, 2}, {}, {1}, 0, 3, Twins) }

MCLate == { Installation({2}, {1}, {}, 0, 0, Each) }
=============================================================================
