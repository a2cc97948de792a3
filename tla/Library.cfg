CONSTANTS
  NULL = NULL
  t1 = t1
  t2 = t2
  e1 = e1
  e2 = e2
  e3 = e3
  e4 = e4
  p1 = p1
  p2 = p2
  f1 = f1
SPECIFICATION Spec
CHECK_DEADLOCK FALSE
INVARIANTS
  HeapInOrder
  TablesAreRight
  ListsAreSequences
  HashIsSet
  BitmapIsSet
  KeysFollowed
  ScreenShowsText
  LibraryIsRight
  ImagesAreRight
PROPERTY ImplementsPool
