--------------------------- MODULE MCEpassportGui ---------------------------
(* Instances of EpassportGui for TLC. *)
EXTENDS EpassportGui

\* One read with two actions of any kind after or during it, or with the three of
\* EAC; two reads with an action of any kind, or with Chip and Terminal Authentication.
Scenarios ==
  {[reads |-> 1, actions |-> 2, ops |-> Ops],
   [reads |-> 1, actions |-> 3, ops |-> {"CA", "TA", "DG3"}],
   [reads |-> 2, actions |-> 1, ops |-> Ops],
   [reads |-> 2, actions |-> 2, ops |-> {"CA", "TA"}]}

\* A read and an action.
ReadAndAction == {[reads |-> 1, actions |-> 1, ops |-> Ops]}
=============================================================================
