SPECIFICATION FairSpec
CONSTANTS
  main = main
  second = second
  unkeyed = unkeyed
  local = local
  stale = stale
  Callers = {c1, c2}
  Routes = {main, second, unkeyed, local}
  NoRoute = noroute
  Providers = {"gemini", "deepseek", "groq", "local"}
  Limiting = {"gemini"}
  Missing = {"groq"}
  Models = {"m1", "m2", "m3", "m4", "rules"}
  ProviderOf <- Provider
  PoolOf <- Pool
  FallbacksOf <- Chained
  GlobalFallback = local
  CostOf <- Cost
  Budget = 1
  MaxCalls = 3
INVARIANTS
  SpendBound
  FailsOnlyAfterChain
PROPERTIES
  CallsReturn
CHECK_DEADLOCK FALSE
