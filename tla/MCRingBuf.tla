------------------------------ MODULE MCRingBuf ------------------------------
(* RingBuf with the thread sets of one run as model values. *)
EXTENDS RingBufSPSC, TLC

CONSTANTS p1, p2, p3, c1, c2

OneProducer == {p1}
TwoProducers == {p1, p2}
ThreeProducers == {p1, p2, p3}
OneConsumer == {c1}
TwoConsumers == {c1, c2}

Symmetry == Permutations(Producers) \cup Permutations(Consumers)

==============================================================================
