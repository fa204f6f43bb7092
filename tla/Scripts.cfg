SPECIFICATION MCSpec
CONSTANTS
  Execs = {e1}
  Programs <- ThreePipelines
  Statuses = {0, 1}
  MaxCommands = 3
  PersistSession = TRUE
  Nobody = Nobody
  MaxWork = 2
  Unset = Unset
  MayPanic = {2}
INVARIANTS Types LimitsHold ResultIsComplete PipelineResult ShellReads ShellFields
PROPERTY ScriptsEnd
