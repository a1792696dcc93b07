----------------------------- MODULE MCLogView -----------------------------
(* The units of the log and of the wire are model values. *)
EXTENDS LogView
============================================================================
