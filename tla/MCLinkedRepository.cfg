SPECIFICATION LinkedSpec
CONSTANTS
    r1 = r1
    r2 = r2
    j1 = j1
    j2 = j2
    x = x
    e = e
    Runners <- MCRunners
    JobIds <- MCJobs
    Files = {file}
    Manifests = {}
    MaxCommits = 1
    MaxTasks = 1
    Latest = Latest
    Elsewhere = Elsewhere
    NoJob = NoJob
    Users = {Ann, Ben}
    Owner = Ann
    Nobody = Nobody
    Accounts = {x, y}
    Mails = {e}
    AuthorOf <- MCAuthorOf
    MailOf <- MCMailOf
    MaxMade = 2
    MaxFetches = 2
SYMMETRY MCSymmetry
CHECK_DEADLOCK FALSE
INVARIANTS
    PartsTypeOK
    OkIsEarned
    OnlyTracked
    NoOrphans
    OneCredit
    HistoryAddsUp
