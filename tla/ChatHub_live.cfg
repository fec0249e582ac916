SPECIFICATION FairSpec
CONSTANTS
  c1 = c1  c2 = c2
  r1 = r1
  Hub = Hub
  NoClient = NoClient
  Clients = {c1, c2}
  Rooms = {r1}
  RoomOf <- MCOneRoom
  SendCap = 1
  RegCap = 1
  UnregCap = 8
  MaxSends = 1
  Talks <- MCOneTalker
PROPERTIES HubKeepsServing SkippedLeave PumpsEnd
