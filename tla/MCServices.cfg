SPECIFICATION ServicesSpec
CONSTANTS
    c1 = c1 c2 = c2 c3 = c3 NoCall = NoCall
    h1 = h1 h2 = h2
    r1 = r1 r2 = r2
    NoURL = NoURL
    j1 = j1 j2 = j2 j3 = j3
    Readers = {r1, r2}
    PerTick = 2
    TicksPerSecond = 2
    MaxRead = 6
    Calls = {c1, c2, c3}
    Episodes = 1
    MaxSeasons = 2
    MaxFaults = 3
    MaxCommands = 4
    Hosts = {h1, h2}
    Providers = {"archiveorg", "genericm3u8"}
    Offers <- TwoOffers
    Scale = 156250
    MaxProbes = 6
    Pages <- Playlists
    Passed = {"#media"}
    Tags = {"#"}
    Sources <- AllSources
    Blocks = 2
    MaxCalls = 2
    MaxLines = 2
    Base = 3
    MaxTime = 80
    Titles <- SomeTitles
    Numbers = {1, 9, 10, 100}
    NameLimit = 20
    Files <- ThreeBoxes
    MaxRefreshes = 3
    Jobs = {j1, j2, j3}
    Size <- ThreeSizes
    MaxConcurrency = 2
    Disk = 13
    Reserve = 7
    Margin = 1
    KeepBytes = 3
INVARIANTS
    BurstBounded CompleteShow BannedSinks  UpRepairs DownClears
    CursorInside FileIsWhole OvercommitBounded
    DueWithinSecond EpisodesApart LateIndexSeen
PROPERTIES
    BytesFlow NothingForgotten
CHECK_DEADLOCK FALSE
