\* Two rules, or a rule and an exception, over five base policies.
CONSTANTS
  Width = 2
  Programs <- MCPrograms
  Files <- MCFiles
  Daemon <- MCDaemon
  Agents <- MCAgents
  Machine <- MCMachine
  ExecDirs <- MCExecDirs
  Bases <- MCBases
  NewRules <- ManyRules
  NewExceptions <- ManyExceptions
  Loopback <- MCLoopback
  Guard = {}
  MaxEdits = 2
  MaxNow = 2
SPECIFICATION CompilerSpec
CHECK_DEADLOCK FALSE
INVARIANT ProgramsAgree
INVARIANT BaseIsFloor
INVARIANT EveryFetchAlike
INVARIANT ExceptionsExact
