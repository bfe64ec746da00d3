SPECIFICATION Spec
CONSTANTS
  p = p
  q = q
  pub = pub
  priv = priv
  old = old
  stray = stray
  None = None
  Files = {pub, priv, old, stray}
  Peers = {p, q}
  Row <- MCRow
  PageSize = 1
  Nodes <- MCNodes
  Events <- MCEvents
  MaxEvents = 2
  Lists <- MCLists
  MaxHeight = 1
INVARIANTS
    AnswersAreRight
PROPERTIES
    EveryRequestAnswered
CHECK_DEADLOCK FALSE
