\* What picking a field promises.
CONSTANTS
  None = None
  a = a
  b = b
  junk = junk
  f = f
  g = g
  part = part
  blank = blank
  text = text
  number = number
  Assets = {a, b, junk}
  Datasets = {a, b}
  Fields = {f, g}
  Types = {text, number}
  Texts = {f, g, part, blank}
  Blank = blank
  Fits <- SomeFits
  Schemas <- SomeSchemas
  Preset <- OnePreset
  MaxRequests = 4
SPECIFICATION Spec
CHECK_DEADLOCK FALSE
INVARIANTS
  PickedIsCommitted
