------------------------------ MODULE MCDriver ------------------------------
(***************************************************************************)
(* All command lines, for checking the driver.                             *)
(***************************************************************************)
EXTENDS Driver

MCCommands == Command
=============================================================================
