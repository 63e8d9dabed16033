-------------------------- MODULE MCAccessControl --------------------------
(* Chains for the model checker: one certificate of exactly two blocks, and a *)
(* link certificate of one block and a half before a short terminal one.      *)
EXTENDS AccessControl

CertificateChains == {<<4>>, <<3, 1>>}
=============================================================================
