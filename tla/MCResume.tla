------------------------------ MODULE MCResume ------------------------------
(* One platform that drops and returns a few times, for TLC. *)
EXTENDS Resume

============================================================================
