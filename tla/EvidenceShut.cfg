SPECIFICATION MCSpec
CONSTANTS
  h1 = h1
  h2 = h2
  h3 = h3
  u1 = u1
  u2 = u2
  u3 = u3
  p1 = p1
  p2 = p2
  p3 = p3
  v1 = v1
  Hooks = {h1, h2, h3}
  Users = {u1, u2, u3}
  LegacyLedger = TRUE
  LegacyFindings = TRUE
  MaxFailures = 1
  MaxMoves = 1
  NoRow = NoRow
  NoId = NoId
  Nobody = Nobody
  Callers = {p1, p2}
  Procs = {p1, p2, p3}
  Janitors = {v1}
  MaxFiles = 4
  Timeout = 4
  Floor = 2
  Refreshing = 1
  Shaking = 1
  Attempts = 2
  MaxTokens = 3
  MaxLost = 1
  Budget = 8
  Chunk = 3
  MaxSize = 12
  Prompts = {"p", "q"}
  Whole = 3
  Short = 1
  Recents = {0, 1}
  Wrappers = {0, 9}
  MaxLines = 4
  Paths = {"f", "n/a"}
  Marked = {"n/a"}
  Urls = {"u1", "u2"}
  Key <- MCKey
  Gates = {h1}
  Imported = {"f"}
  Characters = {"a", "sp", "dash", "sq", "dq", "bs", "bar", "semi", "nl", "sub", "redir"}
  MaxLength = 4
  MaxRemovals = 0
  MaxRekeys = 0
PROPERTIES
  StaysOpen
CHECK_DEADLOCK FALSE
