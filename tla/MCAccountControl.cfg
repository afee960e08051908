CONSTANTS
  p1 = p1
  p2 = p2
  q1 = q1
  o1 = o1
  o2 = o2
  NoPosition = NoPosition
  NoCommand = NoCommand
  Op = {o1, o2}
  Position = {p1, p2}
  Order = {q1}
  Commands <- AllCommands
SYMMETRY Symmetry
SPECIFICATION Spec
INVARIANTS
  ClosedHasNoWorkingOrder
  FlattenedStaysFlat
  RecordsAgree
PROPERTIES
  TerminalIsFinal
