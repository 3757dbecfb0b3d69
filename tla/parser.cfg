SPECIFICATION Spec
CONSTANTS
  Clients <- MCClients
  Width = 8
  Routes <- MCRoutes
INVARIANT CutsAreInvisible
INVARIANT LengthIsTrue
INVARIANT CutsChangeNothing
CHECK_DEADLOCK FALSE
