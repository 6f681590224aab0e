SPECIFICATION MCSpec
CONSTANTS
  Ops = {1, 2, 3}
  Comms = {c1, c2}
  Plot = c1
  View = view
  Editor = editor
  Sizes = {s1, s2}
  FirstSize = s1
  None = None
INVARIANT CacheIsInvalidated
