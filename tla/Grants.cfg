SPECIFICATION GrantSpec
CONSTANTS
  Client = {c1, c2}
  NoClient = NoClient
  Req = {r1, r2}
  Cleanup = Cleanup
  Uri = {h, x}
  Permitted = {h}
  MaxClients = 1
  AccessTTL = 0
  RefreshTTL = 1
  StaleAfter = 2
  MaxBusy = 2
  MaxStarts = 3
  MaxPairs = 3
  MaxFaults = 1
INVARIANTS GrantTypeOK DurablyDone RegistryKept
PROPERTIES SweepsRight LedgerKept NoRevival
\* With all requests made and every record old, only the clock ticks on.
CHECK_DEADLOCK FALSE
