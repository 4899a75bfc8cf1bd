\* A rule whose condition is a known fact gives no answer.
CONSTANTS
  FactIds = {1, 2}
  RuleIds = {1}
  Facts <- MCFacts
  Rules <- MCRules
  Goals <- MCGoals
  MaxPairs = 10
SPECIFICATION KBSpec
INVARIANTS
  QueryFindsAll
