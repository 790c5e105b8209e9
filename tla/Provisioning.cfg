CONSTANTS
  Machines <- MCMachines
  Given <- MCGiven
  Invalid = {}
  SourceTypes <- MCSources
  ClassTypes <- MCClasses
  MaxMoves = 2
  MaxFaults = 3
SPECIFICATION PartsSpec
INVARIANTS SuitsTheNode ZonesMeetTheRequest
PROPERTIES DynamicVolumeIsServed  
