\* Every world, on both platforms.
SPECIFICATION Spec
CONSTANTS
  Worlds <- AllWorlds
INVARIANTS
  BalancedAtReturn
  NestedLifetimes
  ScriptSeesItsLibrary
  CrashOnlyOnDefaultPath
CHECK_DEADLOCK FALSE
