\* Four processes: a ring in which a process that is neither first, last nor
\* next to the killer can be removed.
SPECIFICATION Spec
CONSTANTS
  SCHED_MAX_PROC = 4
  Modules = 4
  NULL = NULL
  Idle = Idle
INVARIANTS
  TypeOK
  RingInv
  ContextIntegrity
  KernelStacksDisjoint
  OwnAnswer
PROPERTIES
  NoResurrection
  KillAnswersTruth
  EveryoneRuns
  ImplementsRoundRobin
CHECK_DEADLOCK FALSE
