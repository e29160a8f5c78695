\* Liveness of the calls and of the writes: two callers, two calls, one write,
\* attempts that break or are cancelled.
\* Calls run out and the executor may be unloaded: the system really stops.
CONSTANTS
  alice = alice
  bob = bob
  Clients <- MCClients
  MaxCalls = 2
  MaxWrites = 1
  HardwareCalls = 1
  Faults = {"broken"}
SPECIFICATION FairSpec
PROPERTIES CallsReturn WritesAreLookedAt
CHECK_DEADLOCK FALSE
