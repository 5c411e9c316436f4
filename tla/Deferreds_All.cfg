SPECIFICATION Spec
CONSTANTS
  Given = {d1, d2}
  Child = Child
  Master = Master
  Plain = Plain
  NoValue = NoValue
  Values = {v}
  Fns = {f, g}
  MaxCalls = 4
  MaxDepth = 2
  Lists <- MCLists
  Flags <- MCFlags
  Settings <- MCSettings
  WhenArgs <- MCWhenArgs
SYMMETRY Alike
INVARIANTS HandlersHeard Answers
PROPERTIES SettlesOnce CallsInOrder
CHECK_DEADLOCK FALSE
