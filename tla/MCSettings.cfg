CONSTANTS
  Windows = {"a", "b"}
  KeyKinds = {"plain", "dashed"}
  MaxRevision = 3
  MaxDamage = 1
  MaxSettingsFaults = 2
  ServerShapes <- TwoServers
  ProfileShapes <- TwoProfiles
SPECIFICATION SettingsSpec
INVARIANT AdmittedIsReadable
CHECK_DEADLOCK FALSE
