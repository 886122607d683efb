SPECIFICATION SettingsSpec
CONSTANTS
  other = other
  absent = absent
  Key <- Keys
  Value = {1, 2}
  NoValue = absent
  Current = 2
  StoredVersion = {1, 2}
  MaxEntries = 4
INVARIANT SettingsTypeOK
PROPERTY ImplementsMap
