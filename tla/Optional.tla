------------------------------ MODULE Optional ------------------------------
(* Python's None, for the modules that share it.                           *)
CONSTANT None
=============================================================================
