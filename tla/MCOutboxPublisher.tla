-------------------------- MODULE MCOutboxPublisher ---------------------------
(***************************************************************************)
(* Instances of OutboxPublisher for TLC.                                   *)
(***************************************************************************)
EXTENDS OutboxPublisher

\* One for each row and each publisher.
FiveTokens == 1 .. 5
===============================================================================
