SPECIFICATION StagesAlone
CONSTANTS
  Execs = {e1}
  Programs <- TwoPrograms
  Statuses = {0, 1}
  MaxCommands = 2
  PersistSession = TRUE
  Nobody = Nobody
  MaxWork = 1
  Unset = Unset
  MayPanic = {3}
INVARIANT TimingsInOrder
