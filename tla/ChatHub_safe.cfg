SPECIFICATION Spec
CONSTANTS
  c1 = c1  c2 = c2
  r1 = r1
  Hub = Hub
  NoClient = NoClient
  Clients = {c1, c2}
  Rooms = {r1}
  RoomOf <- MCOneRoom
  SendCap = 1
  RegCap = 1
  UnregCap = 2
  MaxSends = 3
  Talks <- MCShortTalks
SYMMETRY Symmetry
CHECK_DEADLOCK FALSE
INVARIANTS TypeOK NoPanic SkippedAreDoomed OnlyTheHubBlocks EverybodyServed
PROPERTIES RefinesChatRoom GhostsComeLate
