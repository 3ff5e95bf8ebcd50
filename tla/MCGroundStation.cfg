SPECIFICATION Spec
CONSTANTS
  d1 = d1
  d2 = d2
  commander = commander
  scanner = scanner
  WHITELIST <- MCWhitelist
  o1 = o1
  o2 = o2
  o3 = o3
  Objects <- MCObjects
  Thread = {commander, scanner}
  Requests <- MCRequests
  NoObject = NoObject
INVARIANTS TypeOK OkMeansSent OkMeansReported NoLostLink
VIEW View
SYMMETRY Symmetry
