----------------------------- MODULE Inspection -----------------------------
(***************************************************************************)
(* What an inspection promises: the access a chip grants goes up one stage *)
(* at a time, from none over basic access (BAC or PACE) and Chip           *)
(* Authentication to Terminal Authentication, and falls back to none at    *)
(* once; the terminal takes itself to have a stage only in the step in     *)
(* which the chip grants it.  It may miss a grant, when the answer is      *)
(* lost, and need not see a withdrawal.                                    *)
(***************************************************************************)
EXTENDS Naturals

VARIABLES granted, believed  \* stages: 0 none, 1 basic, 2 chip, 3 terminal

Init == granted = 0 /\ believed = 0

Higher(a, b) == IF a < b THEN b ELSE a

Grant(stage) ==
  /\ stage \in 1 .. 3 /\ granted <= stage /\ stage <= granted + 1
  /\ granted' = stage
  /\ believed' \in {believed, Higher(believed, stage)}

Withdraw ==
  /\ granted' = 0
  /\ UNCHANGED believed

Next == Withdraw \/ \E stage \in 1 .. 3 : Grant(stage)

Spec == Init /\ [][Next]_<<granted, believed>>

=============================================================================
