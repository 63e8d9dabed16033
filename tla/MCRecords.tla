------------------------------- MODULE MCRecords -------------------------------
(* Scenarios for the model checker: one session taken to the end under an     *)
(* export, with three actions one after the other, and with two at once; two  *)
(* sessions and two actions, which may outlive the first; two sessions with a *)
(* report and an action; and reads whose MRZs fill the history past its cap,  *)
(* over three starts of the application.                                      *)
EXTENDS Records

CONSTANTS m1, m2, m3

Zones == {m1, m2, m3}
Scenarios == {
  [reads |-> 1, actions |-> 3, atOnce |-> 1, exports |-> 1, mrzs |-> {}, starts |-> 1],
  [reads |-> 1, actions |-> 2, atOnce |-> 2, exports |-> 1, mrzs |-> {}, starts |-> 1],
  [reads |-> 2, actions |-> 2, atOnce |-> 2, exports |-> 0, mrzs |-> {}, starts |-> 1],
  [reads |-> 2, actions |-> 1, atOnce |-> 1, exports |-> 1, mrzs |-> {}, starts |-> 1],
  [reads |-> 3, actions |-> 0, atOnce |-> 0, exports |-> 0, mrzs |-> Zones \cup {Garbled}, starts |-> 3]}
=============================================================================
