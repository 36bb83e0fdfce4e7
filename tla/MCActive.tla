------------------------------ MODULE MCActive ------------------------------
(* TLC instances of Active, with the calls of Futures.                     *)
EXTENDS Futures
=============================================================================
