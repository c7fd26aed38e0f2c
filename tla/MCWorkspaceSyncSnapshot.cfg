SPECIFICATION Spec
CONSTANTS
    r1 = r1
    j1 = j1
    j2 = j2
    file = file
    manifest = manifest
    Runners <- MCOneRunner
    JobIds <- MCTwoJobs
    Files <- MCFiles
    Manifests <- MCManifests
    MaxCommits = 2
    MaxTasks = 1
    Latest = Latest
    Elsewhere = Elsewhere
    NoJob = NoJob
SYMMETRY MCJobSymmetry
INVARIANTS
    SnapshotTruthful
