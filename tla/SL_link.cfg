CONSTANTS
  c1 = c1
  c2 = c2
  Client <- MCClient
  NumPolls = 2
SPECIFICATION LiveSpec
INVARIANTS LockDiscipline CommEventsAlternate
PROPERTIES LossReported PassesComplete ClientsServed
