SPECIFICATION PartsSpec
CONSTANTS
  fd1 = fd1
  fd2 = fd2
  gs1 = gs1
  gs2 = gs2
  player = player
  npc1 = npc1
  npc2 = npc2
  file1 = file1
  file2 = file2
  name1 = name1
  name2 = name2
  worker1 = worker1
  worker2 = worker2
  item1 = item1
  item2 = item2
  item3 = item3
  t1 = t1
  t2 = t2
  stick1 = stick1
  ship1 = ship1
  ship2 = ship2
  ship3 = ship3
  Connections <- ThreeConnections
  Slots <- TwoSlots
  Descriptors <- ThreeDescriptors
  Nobody = nobody
  NSystems = 1
  Exempt <- NoSystems
  NEntries = 2
  Fds <- TwoFds
  Nothing = nothing
  Countdown = 3
  Lag = 1
  Servers <- TwoServers
  MaxGameServers = 1
  Timeout = 2
  Period = 1
  MaxLate = 1
  SweepEvery = 6
  Players <- OnePlayer
  Npcs <- TwoNpcs
  NPorts = 3
  NoShip = noship
  Files <- TwoFiles
  Names <- TwoNames
  Decoders <- TwoWorkers
  QueueDepth = 2
  MaxTextures = 2
  Items <- ThreeItems
  MaxTime = 2
  NoItem = noitem
  Talkers <- TwoTalkers
  Sticks <- OneStick
  NoStick = nostick
  MaxPackets = 2
  FleetShips <- ThreeShips
  MaxFleets = 2
  MaxShipsPerFleet = 2
INVARIANTS
  PartsTypeOK
  RefcountIsThreads
  NoDescriptorLeak
  DeadAreForgotten
  NpcsKeepApart
  ResidentsExist
  NpcsHaveOneBerth
  NoWorkIsForgotten
  PendingIsComing
  EventsAreCalled
  TimersFireInTime
  CommandsAreRun
  EveryStickHasOneOwner
  SticksComeBack
  FleetsAreOfTheLiving
  FollowersAreMembers
PROPERTIES
  CrewIsSafe
  ImplementsDirectory
  NobodyIsPushedOut
CHECK_DEADLOCK FALSE
