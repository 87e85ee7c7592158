\* A task that arms itself again.
SPECIFICATION Spec
CONSTANTS
  Callback = {c1}
  Inline = {c1}
  Value = {v1}
  Meta = meta
  NoValue = NoValue
  NoCallback = NoCallback
  Registers <- RearmRegisters
  Calls <- RearmCalls
  MaxRegs = 2
  MaxDepth = 3
INVARIANTS
  ClosureIntact
