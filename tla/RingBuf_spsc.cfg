\* One pusher and one popper, the way bg_thread.c uses each ring: more than
\* two laps of a ring of four blocks.
CONSTANTS
  p1 = p1
  p2 = p2
  p3 = p3
  c1 = c1
  c2 = c2
  N = 4
  MaxPackets = 10
  Producers <- OneProducer
  Consumers <- OneConsumer
SPECIFICATION FairSpec
INVARIANTS TypeOK Delivered CursorsOrdered HandOff IInv
PROPERTIES ImplementsFifo EventuallyVisible EventuallyReleased
