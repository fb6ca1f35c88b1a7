SPECIFICATION Spec
CONSTANTS
    Main = Main
    Upgraders = {}
    Configs <- MCConfigs
    None = None
    LeftOver = LeftOver
    AutoUpgrade = {TRUE}
    AutoDownload = FALSE
    MissingUrls = FALSE
    UnreadState = FALSE
    MaxCrashes = 0
    MaxFaults = 0
PROPERTY ConsentPerUpdate
