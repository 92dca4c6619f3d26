CONSTANTS
  Session = {s1, s2}
  Channel = {c1}
  NoChannel = NoChannel
  Bursts <- SomeBursts
  MaxEvents = 3
SPECIFICATION Spec
INVARIANTS
  EchoesAsSent
  ClosesOnce
  PushedInOrder
PROPERTIES
  Delivered
  ServerEnds
CHECK_DEADLOCK FALSE
