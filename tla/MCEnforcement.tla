---------------------------- MODULE MCEnforcement ----------------------------
(* A small instance of Enforcement for TLC. *)
EXTENDS Enforcement

\* The second policy turns self-protection off: it renders no guard document.
MCRenders == [p \in {1, 2} |-> IF p = 1 THEN {"guard", "lsm"} ELSE {"lsm"}]
=============================================================================
