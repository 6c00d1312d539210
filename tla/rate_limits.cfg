SPECIFICATION Spec
CONSTANTS
    Ips = {ip1, ip2}
    Tokens = {tok1, tok2}
    IpLimit = 2
    TokenLimit = 1
    WindowSeconds = 2
    TicksPerSecond = 2
    MaxKeys = 3
    MaxTime = 6
    MaxCharges = 6
SYMMETRY Symmetry
INVARIANTS CountsExact SpanBounded RetryAfterHonest LeastRecentForgotten
CHECK_DEADLOCK FALSE
