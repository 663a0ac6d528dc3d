\* Two pushers and two poppers, fewer packets than the ring has blocks, so
\* that no thread can be delayed for a whole lap.
CONSTANTS
  p1 = p1
  p2 = p2
  p3 = p3
  c1 = c1
  c2 = c2
  N = 4
  MaxPackets = 3
  Producers <- TwoProducers
  Consumers <- TwoConsumers
SPECIFICATION Spec
SYMMETRY Symmetry
INVARIANTS HandOff
PROPERTIES ImplementsFifo
