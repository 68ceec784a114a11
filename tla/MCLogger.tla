------------------------------ MODULE MCLogger ------------------------------
(* Two threads that log two messages or errors each.                       *)
EXTENDS Logger
=============================================================================
