SPECIFICATION ToolsSpec
CONSTANTS
    c1 = c1  c2 = c2  m1 = m1  p1 = p1  p2 = p2  p3 = p3  p4 = p4
    i1 = i1  i2 = i2  i3 = i3  a1 = a1  a2 = a2  a3 = a3
    b1 = b1  b2 = b2  b3 = b3  b4 = b4  r1 = r1  r2 = r2  r3 = r3
    none = none  d1 = d1  d2 = d2  e1 = e1
    Jobs = {c1, c2, m1, p1, p2, p3, p4, i1, i2, i3, a1, a2, a3}
    JobOf <- MCJobOf
    Teams <- MCTeams
    OldManifest <- MCOldManifest
    MaxTries <- MCMaxTries
    MaxActs = 2
    Blockers = {b1, b2, b3, b4}
    Asked <- MCAsked
    Branches <- MCBranches
    Begins <- MCBegins
    PageSize = 1
    BlockerTries <- MCBlockerTries
    Preparers = {r1, r2, r3}
    Builds = {d1, d2}
    NoBuild = none
    BuildOf <- MCBuildOf
    ReleaseOf <- MCReleaseOf
    PolarionTries = 2
    Sources <- MCSources
    FileOf <- MCFileOf
    Package0 <- MCPackage0
    Rank <- MCRank
    Exempt <- MCExempt
    MaxRuns = 4
    CSVs <- MCCSVs
    Extras <- MCExtras
    SourceOf <- MCSourceOf
    MaxSteps = 4
    Lines <- MCLines
    NameBegins <- MCNameBegins
    Products = {"3scale", "rhsso"}
    Requests <- MCRequests
    Top = 3
    MaxEdits = 3
    Folders <- MCFolders
    Production <- MCProduction
    Counts = {0, 1, 2}
    Statuses = {"SUCCESS", "FAILED", "ABORTED"}
    MaxStages = 4
INVARIANTS DoneHasPull OneRunPerBranch MergedIsReleased ManifestKept
    DuplicatesNeedRace CloseTakesNewest MilestoneHasRelease TemplateMarked
    ManifestRight ImagesRight FilesAsWanted AnswersRight
PROPERTIES TypesGrow
CHECK_DEADLOCK FALSE
