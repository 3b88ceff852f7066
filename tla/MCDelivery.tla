----------------------------- MODULE MCDelivery -----------------------------
(* Delivery on small instances.                                            *)
EXTENDS Delivery

\* Any message first, then a single one or an acknowledgement of the first.
AnyThenSingleOrAck(i) ==
    IF i = 1 THEN AllKinds ELSE {"single", "ack"}
=============================================================================
