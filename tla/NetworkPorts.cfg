CONSTANTS
  Nets = {"w1", "w2"}
  WithMycelium = {"w1"}
  Ports = {1, 2, 3}
  DaemonPorts = {3}
  NoPort = NoPort
  TornNet = TornNet
  NoNet = NoNet
  MaxNetCalls = 3
  MaxNetFaults = 2
SPECIFICATION NetworkdSpec
CHECK_DEADLOCK FALSE
INVARIANTS DaemonPortsKept
