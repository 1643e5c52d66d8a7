\* Two assets, four commands, two kills, assets taken out of the library.
CONSTANTS
    a1 = a1
    a2 = a2
    Assets <- TwoAssets
    Records <- TwoRecords
    MissingTex <- NoTex
    MaxRuns = 4
    MaxKills = 2
    MaxRemovals = 2
SPECIFICATION CommandsSpec
INVARIANTS
    OkMeansDone
    CopyRecovers
CHECK_DEADLOCK FALSE
