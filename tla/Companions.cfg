CONSTANTS
  Edits = 1
  Registrations = {"none", "others", "driver"}
  MaxChanges = 3
  MaxFailures = 1
  Malformed = Malformed
  NoKey = NoKey
SPECIFICATION PartsSpec
INVARIANTS UnreadyNodeIsTainted
PROPERTIES TaintGoes ReadinessIsEarned LabelsFollowTheConfigMap DefaultIsRestored TenantsHaveTheirClients
