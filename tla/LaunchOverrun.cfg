SPECIFICATION FairSpec
CONSTANTS
  f1 = f1
  f2 = f2
  m1 = m1
  Function = {f1}
  NoFunction = NoFunction
  Module = {m1}
  ModuleOf <- MCModuleOf
  Envs <- DefaultEnvs
  Entries = 4
  Slots = 4
  MaxId = 2
  Word = 8
PROPERTY EverySubmissionIsConsumed
