\* Any body may register anything.
SPECIFICATION Spec
CONSTANTS
  Callback = {c1, c2}
  Inline = {c1, c2}
  Value = {v1, v2}
  Meta = meta
  NoValue = NoValue
  NoCallback = NoCallback
  Registers <- AnyRegisters
  Calls <- AnyCalls
  MaxRegs = 2
  MaxDepth = 3
INVARIANTS
  TypeOK TokensDenote ReplyMatches
PROPERTY ImplementsCallbackService
SYMMETRY Symmetry
