--------------------------- MODULE SecureChannel ---------------------------
(***************************************************************************)
(* What secure messaging promises the code above it (read_ef, chip and     *)
(* terminal authentication): exchanges are numbered as they begin; only    *)
(* the latest may still be executed by the chip, and once only; only the   *)
(* latest may be answered, and only after the chip executed it.            *)
(***************************************************************************)
EXTENDS Naturals

CONSTANT MaxExchanges  \* bound on the exchanges of a behaviour

VARIABLES
  asked,     \* exchanges begun
  executed,  \* exchanges the chip executed
  answered   \* exchanges whose answer the terminal took as genuine

vars == <<asked, executed, answered>>

Init == asked = 0 /\ executed = {} /\ answered = {}

\* The terminal begins an exchange and thereby gives up the one before.
Ask ==
  /\ asked < MaxExchanges
  /\ asked' = asked + 1
  /\ UNCHANGED <<executed, answered>>

\* The chip executes the exchange in progress.
Execute ==
  /\ asked \notin executed
  /\ executed' = executed \cup {asked}
  /\ UNCHANGED <<asked, answered>>

\* The terminal obtains the chip's answer to the exchange in progress.
Answer ==
  /\ asked \in executed \ answered
  /\ answered' = answered \cup {asked}
  /\ UNCHANGED <<asked, executed>>

Next == Ask \/ Execute \/ Answer

Spec == Init /\ [][Next]_vars
=============================================================================
