\* One stray reply (duplicate or unsolicited): the no-match path of
\* netlinkResponseMessageArrived unlocks sendReceiveLock a second time.
CONSTANTS
  Requesters = {r1, r2}
  Responders = {h1}
  Reader = rd
  Ports = {k1, k2}
  MyPort = me
  NoOwner = NoOwner
  None = None
  MaxSeq <- MCMaxSeq
  MaxPeerMsgs <- MCMaxPeerMsgs
  MaxStray = 1
  MaxLost = 0

SPECIFICATION Spec
CHECK_DEADLOCK FALSE

INVARIANT MutualExclusion
