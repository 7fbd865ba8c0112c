------------------------------ MODULE MCObcBoot ------------------------------
(* Small instances of ObcBoot for TLC. *)
EXTENDS ObcBoot
=============================================================================
