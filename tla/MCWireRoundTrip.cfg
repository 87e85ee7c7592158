SPECIFICATION Spec
CONSTANTS
  Inputs <- MCInputs
  Types <- MCTypes
  Values <- MCValues
  Depth <- MCDepth
  Base = 64
  Root = "outer"
  Widen <- FloatToDouble
  Narrow <- DoubleToFloat
  ToDouble <- IntegerToDouble
  Truncate <- DoubleToInteger
  MaxGroups = 2
  Modulus <- MCModulus
  IntModulus <- MCIntModulus
  SizeModulus <- MCSizeModulus
INVARIANT RoundTrip
CHECK_DEADLOCK FALSE
