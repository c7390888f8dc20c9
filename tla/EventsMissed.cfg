\* Two events, both decodable; clocks that agree, and a channel that keeps all.
\* When every event was sent and yielded there is no step left.
SPECIFICATION EventsFairSpec
CONSTANTS
  Event = {e1, e2}
  Unknown = {}
  Listener = {l1}
  MaxTime = 2
  Skew = 0
  Capacity = 2
CHECK_DEADLOCK FALSE
PROPERTIES SubscribersReceiveAll
