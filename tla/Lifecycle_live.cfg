SPECIFICATION FilmsSpec
CONSTANTS
    Items = {"film", "stray"}
    Movies = {"film", "stray"}
    Seasons = {}
    Inside = {"film"}
    Outside = {"stray"}
    Grace = 1
    Durations = {2}
    Workers = {w1}
    DryRuns = {FALSE}
    Traffic = {"keep", "plex"}
    MaxTime = 3
    MaxRows = 1
    MaxFaults = 1
PROPERTIES
    StuckRowsResolved
    DueDeletionsDecided
    LapsedSnoozesSwept
