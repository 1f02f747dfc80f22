SPECIFICATION TransportSpec
CONSTANTS
  HostForgets = FALSE
  Packets = {a}
  MaxNetworkRequests = 2
  BusCapacity = 2
  MaxSockets = 2
  MaxSequences = 4
  MaxSessions = 2
INVARIANTS
  NoStaleData
