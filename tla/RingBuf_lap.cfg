\* Three pushers and one popper, one packet more than the ring has blocks: a
\* pusher can sleep while a whole lap passes.
CONSTANTS
  p1 = p1
  p2 = p2
  p3 = p3
  c1 = c1
  c2 = c2
  N = 3
  MaxPackets = 4
  Producers <- ThreeProducers
  Consumers <- OneConsumer
SPECIFICATION Spec
SYMMETRY Symmetry
INVARIANT WrittenAreAdvanced
