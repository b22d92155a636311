SPECIFICATION Spec
CONSTANTS
    Instances = {i1, i2}
    Catalogs <- DeployedCatalogs
    First <- Govau
    Lower <- Spelled
    Configured <- SecurityGroups
    Kept = {"recorded", "asked"}
    None = None
INVARIANTS TypeOK InstancesAreServed NothingIsLeft LoginsAreBound AskedPlanFits
CHECK_DEADLOCK FALSE
