CONSTANTS
  c1 = c1
  c2 = c2
  Callers = {c1, c2}
  Wants <- AgentAndPage
  Configured = {"yfinance", "alphavantage"}
  MaxMishaps = 1
  MaxCalls = 2

SPECIFICATION FairSpec

CHECK_DEADLOCK FALSE

INVARIANTS
  StampedeIsBounded
  FreshAfterInvalidation

PROPERTIES
  CallsFinish
