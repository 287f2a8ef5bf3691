----------------------------- MODULE MCAttempts ----------------------------
(* A small instance of Attempts for TLC.                                     *)
EXTENDS Attempts, MCProcess
=============================================================================
