SPECIFICATION Spec
CONSTANTS
  f1 = f1
  f2 = f2
  m1 = m1
  Function = {f1}
  NoFunction = NoFunction
  Module = {m1}
  ModuleOf <- MCModuleOf
  Envs <- PathEnvs
  Entries = 6
  Slots = 4
  MaxId = 3
  Word = 8
INVARIANTS TypeOK ReleasedAfterFetched PairedEntries StrictSuccessRan
