CONSTANTS
  Callables = {observe}
  Providers <- MCProviders
  ActionNames = {"notify"}
  RuleBook <- MCRuleBook
  Occasions <- MCOccasions
  Scopes = {"", "survey"}
  MaxEvents = 2
  MaxChanges = 4
  MaxCreated = 3

SPECIFICATION Spec

INVARIANTS
  SubscriptionsOwned
  HeardByAll
  RulesIsolated

CONSTRAINT Focus

CHECK_DEADLOCK FALSE
