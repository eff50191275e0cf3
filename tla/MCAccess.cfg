SPECIFICATION Spec
CONSTANTS
  Orgs = {"A", "B"}
  People <- MCPeople
  Nobody = "nobody"
  OrgOf <- MCOrgOf
  RoleOf <- MCRoleOf
  Resources <- MCResources
  HomeOf <- MCHomeOf
  CreatorOf <- MCCreatorOf
  Unknown = "unknown"
  Requests = {"r1", "r2"}
  Asks <- MCAsks
  Conns <- Services
  PoolOf <- MCPoolOf
  None = "none"
  Unset = "unset"
  Reset = "reset"
INVARIANTS
  TypeOK
  SeesExactlyOwn
  OfferedIsPermitted
PROPERTIES
  ForeignLooksMissing
