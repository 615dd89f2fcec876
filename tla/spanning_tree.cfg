CONSTANTS
  Bridges <- MCBridges
  Ports <- MCPorts
  Peer <- MCPeer
  NoPort = NoPort
  Fabrics <- MCFabrics
SPECIFICATION Spec
CHECK_DEADLOCK FALSE
INVARIANTS
  OneDesignated
  BestOffer
  SpansComponent
