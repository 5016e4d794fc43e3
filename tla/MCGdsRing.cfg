\* Two groups of two chunks with two blocks each; a chunk of the first group is
\* smaller than a slot and padded to less than one.  The ring has two slots.
CONSTANTS
  Refs <- OneRefEach
  BlocksPerChunk = 2
  Align = 3
  Depth = 2
  NumChunks = 2
  NumPages = 4
  Tables <- TwoTables
  Junk = Junk
  None = None
SPECIFICATION Spec
VIEW RegisteredView
INVARIANTS
  TypeOK
  PlanMatches
  RoundTrip
  WindowRegistered
