CONSTANTS
  Producers = {p1, p2}
  Consumers = {c1, c2}
  PushesPerProducer = 3
  MaxStaticSize = 4
  MaxSizeArg = 3
  NotifyWhenDownToSize = 2
  NoItem = NoItem
SPECIFICATION FairSpec
INVARIANTS
  TypeOK
  NoLostGrew
  NoDeadlock
  ExitOnlyWhenDrained
PROPERTIES
  ImplementsWorkQueue
  EverythingDrains
