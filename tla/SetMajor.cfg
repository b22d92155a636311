SPECIFICATION Spec
CONSTANTS
    Plans <- PostgresTen
    Retentions = {0, 3}
    Default <- RdsDefault
    Shown = {"modifying", "upgrading"}
    None = None
INVARIANTS UpgradesGoThrough
