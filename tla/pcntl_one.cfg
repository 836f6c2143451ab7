CONSTANTS
  None = None
  main = main
  usr1 = usr1
  usr2 = usr2
  kill = kill
  VMs = {main}
  Signals = {usr1, usr2, kill}
  Refused = {kill}
  Q = 2
  Destructible = {usr1}
  MaxCalls = 1
SPECIFICATION FairSpec
INVARIANTS
  TypeOK
  RingOK
  WakeupKept
  InstalledHasHandler
PROPERTIES
  DrainDetaches
  NoCallUnderUnwind
  DrainEnds
