CONSTANTS
  gate = gate
  tailor = tailor
  api = api
  shared = shared
  own = own
  Coroutines = {gate, tailor, api}
  Conns = {shared, own}
  ConnOf <- TwoLoopsAndARequest
  Nobody = Nobody
  MaxCancels = 2
SPECIFICATION ConnFairSpec
INVARIANTS UncrossedWritesAreAtomic
PROPERTIES WriteLockIsReleased
