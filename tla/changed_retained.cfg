SPECIFICATION Spec
CONSTANTS
    NumSlices = 2
    Versions <- MCVersions
    Policies <- MCPolicies
    RoleRequires <- MCRoleRequires
    Configs <- MCConfigs
    ModelPolicies <- MCModelPolicies
    Catalogs <- MCCatalogs
    NoRecord = NoRecord
    LegacyRecords <- MCLegacyRecords
    FirstFiles <- MCFirstFiles
    FirstConfig <- Unset
    FirstModels <- TwoModels
    FirstCatalog <- Both
    EditAt <- BetweenRuns
    NumRuns = 3
    MaxEdits = 2
    MaxFaults = 1
PROPERTIES
    ChangedNotRetained
CHECK_DEADLOCK FALSE
