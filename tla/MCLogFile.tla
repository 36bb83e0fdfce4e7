------------------------------ MODULE MCLogFile ------------------------------
(* TLC instances of LogFile: alone on the disk, or beside other programs.  *)
EXTENDS LogFile

Nothing == {}
Sharing == {"shared"}
Excluding == {"exclusive"}
=============================================================================
