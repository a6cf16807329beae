SPECIFICATION Spec
CONSTANTS
  Configs <- PlainOnly
  Capacity = 2
  EventCap = 1
  MaxForwards = 1
INVARIANT LoopsForever
