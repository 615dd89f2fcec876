SPECIFICATION GradingSpec
CONSTANTS
  DevicePorts <- MCDevicePorts
  SwitchPorts <- MCSwitchPorts
  Wires <- MCWires
  Ways <- MCWays
  Macs <- MCMacs
  Routers <- MCRouters
  Hosts <- MCHosts
  Loopbacks <- MCLoopbacks
  Pids <- MCPids
  Space <- MCSpace
  Plan <- MCPlan
  Statements <- MCStatements
  RouterIds <- MCRouterIds
  StaticRoutes <- MCStaticRoutes
  Gateways <- MCGateways
  Keys = {1}
  KeyTexts = {1, 2}
  Strata = {8, 15}
  Servers <- MCServers
  Devices <- MCRouters
  Editors = {1, 2}
  LastDefault = 4
  LastLine = 15
  Ranges <- MCRanges
  Passwords = {1}
  Users = {1}
  KeySizes = {1024, 2048}
  Labs <- MCLabs
CHECK_DEADLOCK FALSE
INVARIANTS
  NeighboursAgree DiagnosisComplete RoutesShortest RoutedArrives EchoesArrive
  ClocksTraceable AccessAgrees LinesAsTyped LinesRestored
  FullScoreMeansSolved TasksEarned RepairKeepsScore
