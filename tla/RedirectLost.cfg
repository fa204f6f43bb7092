SPECIFICATION SetupAlone
CONSTANTS
  Scripts <- RedirectScripts
  MaxRedirects = 4
  None = None
  Writers = {w1, w2}
  Sinks = {s1, s2}
  Nobody = Nobody
  Task = Task
  MaxChunks = 2
  ChunkSize = 2
  Jobs = {"a", "b"}
  JobLines <- JqCases
  JqWorkers = 1
  Room = 2
  InputLimit = 4
  MaxBreaks = 1
  MaxFaults = 1
  MaxStops = 1
  JsBreaks = 2
INVARIANT EarlierRedirectsStand
