SPECIFICATION HostSpec
CONSTANTS
  f1 = f1
  f2 = f2
  m1 = m1
  Function = {f1}
  NoFunction = NoFunction
  Module = {m1}
  ModuleOf <- MCModuleOf
  Envs <- LiveEnvs
  Entries = 6
  Slots = 6
  MaxId = 2
  Word = 8
PROPERTIES CallReturns SubmittedIsConsumed
