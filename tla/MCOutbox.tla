------------------------------ MODULE MCOutbox ------------------------------
(* Outbox for TLC, and its refinement mapping to FirehosePromise.          *)
EXTENDS Outbox

Promise == INSTANCE FirehosePromise WITH last <- Len(evt)

(* Outbox implements FirehosePromise, its liveness included.               *)
KeepsPromise == Promise!Spec
=============================================================================
