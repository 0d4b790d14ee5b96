CONSTANTS
  DHCPS_MAX_IP = 2
  TICKS = 12
  BLOCK = 4
  LEASE = 2
  Clients = {c1, c2}
  Free = Free
  None = None
  Xids = {x1, x2}
  MaxMsgs = 2
SPECIFICATION Spec
INVARIANTS TypeOK NoDoubleUse OfferGrantable
SYMMETRY Symmetry
