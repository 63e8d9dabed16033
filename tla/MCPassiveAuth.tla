--------------------------- MODULE MCPassiveAuth ---------------------------
(* PassiveAuth for TLC: one ordinary group and the two that need EAC.      *)
(* Passports differ in whether EF.COM lists DG3, what the chip closes, and *)
(* what EF.SOD says; EF.COM, EF.SOD or any group may be missing.           *)
EXTENDS PassiveAuth

MCGroups == {"DG1", "DG3", "DG4"}

MCDocuments ==
  {d \in [listed: {<<"DG1">>, <<"DG1", "DG3">>},
          files: SUBSET (MCGroups \cup {"COM", "SOD"}),
          gated: {{}, {"DG3"}, {"DG3", "DG4"}},
          hashed: {{}, {"DG1"}, {"DG3"}, {"DG1", "DG3"}},
          altered: SUBSET {"DG1", "DG3"},
          supported: BOOLEAN] : d.altered \subseteq d.files}
=============================================================================
