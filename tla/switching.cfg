CONSTANTS
  h2 = h2
  h3 = h3
  r1 = r1
  nic2 = nic2
  nic3 = nic3
  sub10 = sub10
  main = main
  Switches <- MCSwitches
  Ports <- MCPorts
  Devices <- MCDevices
  Peer <- MCPeer
  Named <- MCNamed
  Attached <- MCAttached
  Groups = {1, 2}
  Vlans <- MCVlans
  Configurable <- MCConfigurable
  Startups <- MCStartups
  MaxCommands = 2
SPECIFICATION Spec
CHECK_DEADLOCK FALSE
INVARIANTS
  BundledAtBothEnds
  SegmentsAreVlans
  LoopFree
