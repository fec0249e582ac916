SPECIFICATION Spec
CONSTANTS
  ip1 = ip1  ip2 = ip2
  IPs = {ip1, ip2}
  Limit = 2
  Window = 2
  MaxTime = 7
  MaxRequests = 4
SYMMETRY Symmetry
INVARIANTS TypeOK AtMostLimitPerWindow
PROPERTY RefinesLimiter
