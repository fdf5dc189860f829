SPECIFICATION Spec
CONSTANTS
  Devices <- MCDevices
  Criteria <- MCCriteria
  UserSetsOf <- MCUserSetsOf
  DefaultSet = "Default"
  UserSets = {"UserSet1"}
  file = file
  PfsFiles = {file}
  FAILED_OPEN_RETRY_COUNT = 1
  MaxSdk = 3
  NULL = NULL
INVARIANTS
  TypeOK
  OneCamera
  SettingsInOrder
  SdkInitialised
  StartedAsRequested
PROPERTY
  StartReturns
