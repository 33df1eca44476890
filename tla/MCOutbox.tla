------------------------------ MODULE MCOutbox ------------------------------
(* Four events, so that a batch of two is full and more follow. *)
EXTENDS Outbox

CONSTANT a
=============================================================================
