SPECIFICATION ArtSpec
CONSTANTS
    g = g
    h = h
    out = out
    log = log
    here = here
    Processes = {g, h}
    Collectors = {g}
    Paths = {out, log}
    Destinations = {here}
    Workspaces = {"default", "given"}
    Versions <- MCVersions
    Nothing = Nothing
    Torn = Torn
    MaxFaults = 1
INVARIANTS
    ArtTypeOK
    UnverifiedBounded
PROPERTY
    ResultsAreCollected
