--------------------------- MODULE MCChatRecovery ---------------------------
(***************************************************************************)
(* TLC instances of ChatRecovery.                                          *)
(***************************************************************************)
EXTENDS ChatRecovery
=============================================================================
