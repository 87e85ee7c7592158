\* The modules the repository ships register this way.
SPECIFICATION Spec
CONSTANTS
  Callback = {boxed, small}
  Inline = {small}
  Value = {v1}
  Meta = meta
  NoValue = NoValue
  NoCallback = NoCallback
  Registers <- ShippedRegisters
  Calls <- ShippedCalls
  MaxRegs = 3
  MaxDepth = 3
INVARIANTS
  ClosureIntact
