CONSTANTS
  NoInstance = NoInstance

SPECIFICATION Spec

\* system.run() serves forever: a process that has exited, or whose actors
\* have all started and answered, is idle rather than deadlocked.
CHECK_DEADLOCK FALSE

INVARIANTS
  SingleInstancePerService

PROPERTIES
  StartupCompletes
