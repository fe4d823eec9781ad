SPECIFICATION CatalogSpec
CONSTANTS
    Sources <- MCSources
    FileOf <- MCFileOf
    Package0 <- MCPackage0
    Rank <- MCRank
    Exempt <- MCExempt
    MaxRuns = 4
    CSVs <- MCCSVs
    Extras <- MCExtras
    SourceOf <- MCSourceOf
    MaxSteps = 4
    Lines <- MCLines
    NameBegins <- MCNameBegins
    Products = {"3scale", "rhsso"}
    Requests <- MCRequests
    Top = 3
    MaxEdits = 3
    Folders <- MCFolders
    Production <- MCProduction
    Counts = {0, 1, 2}
    Statuses = {"SUCCESS", "FAILED", "ABORTED"}
    MaxStages = 4
INVARIANT VersionIsSet
CHECK_DEADLOCK FALSE
