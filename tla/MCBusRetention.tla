--------------------------- MODULE MCBusRetention ---------------------------
(* Retention with messages and caps small enough that every guard fires.   *)
EXTENDS BusRetention

K(topic, pri) == [topic |-> topic, pri |-> pri]

MCKinds == {K("audit", "min"), K("reply", "urgent"), K("state", "default")}
MCTtl == [p \in {"min", "default", "high"} |-> 0]

\* no df; a file system with room; one that is full
MCReadings == {<<0, 0>>, <<10, 8>>, <<10, 0>>}
=============================================================================
