CONSTANTS
  Paths <- MCPaths
  FileCalls <- MCFileCalls
  DirCalls <- MCDirCalls
  Texts = {x, y}
  Matching <- MCMatching
  Dir = Dir
  Nothing = Nothing
SPECIFICATION Spec
INVARIANT TypeOK
INVARIANT SameView
INVARIANT ListingComplete
PROPERTY NativeKeepsOthers
