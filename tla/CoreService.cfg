SPECIFICATION FairSpec
CONSTANTS
    Main = Main
    Upgraders = {}
    Configs <- MCConfigs
    None = None
    LeftOver = LeftOver
    AutoUpgrade = {TRUE}
    AutoDownload = FALSE
    MissingUrls = FALSE
    UnreadState = FALSE
    MaxCrashes = 2
    MaxFaults = 2
INVARIANTS TypeOK PendingIsResumable UpgradeHasConfig DownloadIsStored
PROPERTIES RecordKept UpgradeConcludes ConsentIsServed
