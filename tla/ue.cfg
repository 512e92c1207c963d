SPECIFICATION UeSpec
CONSTANTS
  Operator = {o1}
  Profile = {ue1, ue2}
  Same = Same
  MaxFaults = 3
  MaxSqn = 2
  MaxResets = 2
  MaxVault = 2
  Desired = "mongodb-0.mongodb:27017"
  Hosts = {"mongodb-0.mongodb:27017", "mongodb-0.mongodb.5g-core.svc:27017"}
INVARIANTS StartsFresh HostSettled CredentialsKept ResyncsPaidFor
PROPERTIES RerunRepairs
