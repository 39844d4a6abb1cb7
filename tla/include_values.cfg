SPECIFICATION Spec
CONSTANTS
  pin = pin
  a = a
  b = b
  c = c
  Ids = {pin, a, b, c}
  PinnedIds = {pin}
  PinnedType = "int"
  ConfirmPolls = 2
SYMMETRY Symmetry
INVARIANT TypeOK PinsAndTypeHold AdditionsApply StartNeedsOnePoll
PROPERTY RemovalsAreDamped
