SPECIFICATION Spec
CONSTANTS
  doc = doc
  box = box
  field = field
  copy = copy
  f = f
  g = g
  Elements = {doc, box, field, copy}
  Above <- MCAbove
  Nowhere = Nowhere
  AnyFn = AnyFn
  NoEntry = NoEntry
  Selected = {box, field, copy}
  Fns = {f, g}
  Bindings <- MCBindings
  Unbindings <- MCUnbindings
  Fired <- MCFired
  Copies <- MCCopies
  DataOf = {field}
  Moving = {field}
  MaxSteps = 5
  MaxDepth = 2
INVARIANTS CacheExact HeardExactly
CHECK_DEADLOCK FALSE
