\* Fault-free netlink: peers answer every request exactly once.
CONSTANTS
  Requesters = {r1, r2}
  Responders = {h1}
  Reader = rd
  Ports = {k1, k2}
  MyPort = me
  NoOwner = NoOwner
  None = None
  MaxSeq <- MCMaxSeq
  MaxPeerMsgs <- MCMaxPeerMsgs
  MaxStray = 0
  MaxLost = 0

SPECIFICATION Spec
CHECK_DEADLOCK FALSE

INVARIANT TypeOK
INVARIANT MutualExclusion
INVARIANT ReplyMatchesRequest
INVARIANT NoDanglingPending
INVARIANT ResponderFindsRequest
PROPERTY RPCImplemented
