SPECIFICATION Spec
CONSTANTS
  Peers = {p1}
  NoPeer = NoPeer
  Blocks = {b1, b2}
  Headers = {h1}
  Epochs = {e1}
  MaxEvents = 3
  Ids = {i1, i2}
  max_inflight_request_count = 1
  max_capacity = 1
  DEFAULT_REQUEST_DELAY_UPPER_BOUND = 1
SYMMETRY Symmetry
VIEW View
INVARIANTS NoOrphans OneHolder NetWithinInflight PendingServed
PROPERTY RemoverAsksAgain
CHECK_DEADLOCK FALSE
