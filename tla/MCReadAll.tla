----------------------------- MODULE MCReadAll -----------------------------
(* ReadAll for TLC.  Two data groups stand for sixteen, each is read like  *)
(* the next; a chip may lack any file but EF.CardAccess, and accepts one   *)
(* variant at least of each SELECT (of the first, in MCStuckChips).        *)
EXTENDS ReadAll

MCDataGroups == <<"DG1", "DG2">>

ChipsWith(aids) ==
  [present: {p \cup {"CardAccess"} : p \in SUBSET {"COM", "DG1", "DG2", "SOD", "CardSecurity", "CVCA"}},
   mf: {{1}, {2}}, aid: aids, sodForMissing: BOOLEAN]

MCChips == ChipsWith({{1}, {2}})
MCStuckChips == ChipsWith({{}})
=============================================================================
