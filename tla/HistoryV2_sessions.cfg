SPECIFICATION Spec
CONSTANTS
    uart = uart  spi = spi  s1 = s1  s2 = s2  s3 = s3
    Tests <- MCTests
    Reports <- MCReports
    BucketMax = 3
    SeedMax = 2
    Payload = 128  WordBytes = 4  HalfWord = 6
    Policies = {"strict"}
    MaxCalls = 4
    MaxSquashes = 2
INVARIANTS QueryExact StatsMatchCalls CoverageAccounted
