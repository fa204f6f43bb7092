SPECIFICATION ExecAlone
CONSTANTS
  Execs = {e1, e2}
  Programs <- TwoPrograms
  Statuses = {0, 1}
  MaxCommands = 2
  PersistSession = TRUE
  Nobody = Nobody
  MaxWork = 1
  Unset = Unset
  MayPanic = {}
SYMMETRY ExecSymmetry
INVARIANT TimeoutDiscardsSession
