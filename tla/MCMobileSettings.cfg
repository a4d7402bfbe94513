CONSTANTS
  Absent = Absent
  Torn = Torn
  Null = Null
  config = config
  server1 = server1
  server2 = server2
  Defaults <- MCDefaults
  Forced <- MCForced
  Extra <- MCExtra
  Configs <- MCConfigs
  Servers <- MCServers
  MaxSaves = 1
  MaxKills = 1
  MaxStarts = 2
SPECIFICATION Spec
CHECK_DEADLOCK FALSE
INVARIANTS
  TypeOK
  
PROPERTIES
  
  
  Settles
