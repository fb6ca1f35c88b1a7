SPECIFICATION ManualSpec
CONSTANTS
    Main = Main
    Upgraders = {u1}
    Configs <- MCConfigs
    None = None
    LeftOver = LeftOver
    AutoUpgrade = {FALSE}
    AutoDownload = FALSE
    MissingUrls = FALSE
    UnreadState = FALSE
    MaxCrashes = 0
    MaxFaults = 0
PROPERTY UpgradeNeedsDownload
