SPECIFICATION Spec
CONSTANTS
    Items = {"film"}
    Movies = {"film"}
    Seasons = {}
    Inside = {"film"}
    Outside = {}
    Grace = 1
    Durations = {2}
    Workers = {w1}
    DryRuns = {FALSE}
    Traffic = {"clear"}
    MaxTime = 3
    MaxRows = 1
    MaxFaults = 1
INVARIANTS
    NoRemovalForgotten
