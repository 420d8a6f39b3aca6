\* Faulty netlink: one duplicated or unsolicited message and one receive error.
CONSTANTS
  Requesters = {r1, r2}
  Responders = {h1}
  Reader = rd
  Ports = {k1, k2}
  MyPort = me
  NoOwner = NoOwner
  None = None
  MaxSeq <- MCMaxSeq
  MaxPeerMsgs = 1
  MaxStray = 1
  MaxLost = 1

SPECIFICATION Spec
CHECK_DEADLOCK FALSE

INVARIANT ReplyMatchesRequest
INVARIANT NoDanglingPending
