SPECIFICATION FairSpec
CONSTANTS
    Plans <- OneDigitPlans
    Retentions = {0, 3}
    Default <- RdsDefault
    Shown = {"modifying", "upgrading", "storage-optimization"}
    None = None
INVARIANTS SuccessAppliesPlan UpgradesGoThrough
PROPERTIES StorageNeverShrinks RequestsEnd
