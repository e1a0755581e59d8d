\* Three calls for a content ID, with two pulls each; the context of one may end.
CONSTANTS
  k1 = k1  k2 = k2  k3 = k3  x = x
  NoCall = NoCall  NoContent = NoContent  NoEntry = NoEntry
  Calls = {k1, k2, k3}
  Contents = {x}
  ContentOf <- ThreeCalls
  Alpha = 2
  Cancellable = {k3}
SPECIFICATION FairSpec
CHECK_DEADLOCK FALSE
INVARIANTS AllowedExactly PendingOwned
PROPERTIES AnswerReturns
