SPECIFICATION FairSpec
CONSTANTS
  Lists <- MCLists
  Kind <- MCKind
  Items = {"a", "b", "c"}
  NULL = "NULL"
  portMAX_DELAY = 3
VIEW Relevant
INVARIANTS
  ListsSound
PROPERTIES
  ListsAreSequences
  InsertionEnds
