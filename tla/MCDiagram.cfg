SPECIFICATION Spec
CONSTANTS
  Projects = {"p", "q"}
  Freqs = {1, 5}
  Titles = {"a", "b"}
  Labels = {"tx"}
  NewIds = {2, 3}
  Contracts <- MCContracts
  InitialNodes <- MCNodes
  InitialEdges <- MCEdges
  Networks = {"arbitrum", "ethereum"}
  ChainUid = "ethereum"
  NewTitle = "a"
  MaxNodes = 4
  MaxFlight = 1
  MaxActs = 4
  None = None
INVARIANTS TypeOK OnePoller TelemetryIsOwn EdgesAnchored PanelShowsSelection PanelFresh
