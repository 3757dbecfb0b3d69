SPECIFICATION Spec
CONSTANTS
  Clients <- MCClients
  Width = 8
  Routes <- MCRoutes
INVARIANT IgnoredUpgradeKeepsBody
CHECK_DEADLOCK FALSE
