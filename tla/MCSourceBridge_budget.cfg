SPECIFICATION Spec
CONSTANTS
  Reqs = {r1}
  MaxReconnect = 2
  MaxDrops = 3
PROPERTY TransportFailureMeansUnrecovered
CHECK_DEADLOCK FALSE
