\* A fetch of a Gemini or Vertex task reads the row between the timeout's
\* compare-and-swap and its refund.
CONSTANTS
    Poller = {a}
    Fetcher = {f}
    Hold = 1
    Amounts = {1}
    Billing = {"perCall"}
    Ages = {"recent"}
    Progress = {"part"}
    MaxFailures = 2
    MaxFaults = 0
    MaxCrashes = 0
SPECIFICATION RealtimeSpec
INVARIANT NeverOverRefunded
CHECK_DEADLOCK FALSE
