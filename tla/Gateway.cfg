CONSTANTS
  Keys = {ip1, ip2}
  Capacity = 2
  Cost = 2
  Rate = 1
  Second = 2
  MaxAge = 4
  Horizon = 6
  OwnerKeys = {o1}
  OwnerCapacity = 1
  OwnerRate = 1
  Period = 2
  Lag = 1
  Lifetimes = {1, 7}
  MaxAsks = 1
  MaxPassed = 1
SYMMETRY AddressSymmetry
SPECIFICATION GatewaySpec
INVARIANTS TypeOK WindowBound OwnerWindowBound TokensLive RotationRetires
PROPERTIES RefusalsJustified RetryAfterHonest
