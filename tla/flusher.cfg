SPECIFICATION FlusherSpec
CONSTANTS
    r1 = r1
    r2 = r2
    r3 = r3
    Records = {r1, r2, r3}
    Orphans = {r3}
    BatchLimit = 2
    Retries = 1
    Failures = {"refused", "ambiguous", "not_postgres"}
    MaxLost = 1
INVARIANTS DroppedOnlyByEscape CopiesByLossOnly
PROPERTIES ImplementsLog DeliveredOnceUp ShutdownEnds
