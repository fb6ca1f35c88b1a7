SPECIFICATION Spec
CONSTANTS
    Main = Main
    Upgraders = {}
    Configs <- MCConfigs
    None = None
    LeftOver = LeftOver
    AutoUpgrade = {TRUE, FALSE}
    AutoDownload = FALSE
    MissingUrls = TRUE
    UnreadState = TRUE
    MaxCrashes = 1
    MaxFaults = 1
INVARIANT PendingMatchesInstalled
PROPERTIES
    UpgradeNeedsDownload
    OutcomeIsTrue
