--------------------------- MODULE MCEventPipeline ---------------------------
(* Small instances of EventPipeline for TLC. *)
EXTENDS EventPipeline, TLC

CONSTANTS h1, h2

MCEvents == 1..MaxEvents
=============================================================================
