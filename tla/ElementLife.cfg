\* A list with two elements, two handlers and two ready functions; four calls of the page.
SPECIFICATION Spec
CONSTANTS
  list = list
  a = a
  b = b
  None = None
  Elems = {list, a, b}
  Path <- InList
  Handlers = {h1, h2}
  ReadyFns = {f, g}
  Bindable <- MCBindable
  Animated = {a, b}
  Properties = 1
  Unbindings <- MCUnbindings
  Removable = {a}
  MaxActs = 4
INVARIANTS
  TypeOK
  ListenersMatch
  OneRunsOnce
  ReadyServed
  QueueMoves
  LastEffectWins
  RemovedIsForgotten
SYMMETRY Symmetry
CHECK_DEADLOCK FALSE
