------------------------------- MODULE MCIoLoop -------------------------------
(* Instances of IoLoop for TLC. *)
EXTENDS IoLoop
===============================================================================
