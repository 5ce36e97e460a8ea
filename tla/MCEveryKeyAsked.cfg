SPECIFICATION Spec
CONSTANTS
  Peers = {p1}
  NoPeer = NoPeer
  Blocks = {b1}
  Headers = {h1}
  Epochs = {}
  MaxEvents = 3
  Ids = {i1, i2}
  max_inflight_request_count = 1
  max_capacity = 2
  DEFAULT_REQUEST_DELAY_UPPER_BOUND = 1
CHECK_DEADLOCK FALSE
INVARIANT EveryKeyAsked
