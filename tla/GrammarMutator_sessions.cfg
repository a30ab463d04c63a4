SPECIFICATION Spec
CONSTANTS
  s1 = s1
  s2 = s2
  f1 = f1
  f2 = f2
  Seeds = {s1, s2}
  Found = {f1, f2}
  Trees <- MCTrees
  NoTree = "none"
  Texts <- MCTexts
  NoText = "none"
  Nodes <- MCNodes
  Recursion = {"join"}
  Out <- MCOut
  Parse <- MCParse
  InputDirs <- OneInput
  RandomSteps = 1
  RecursiveSteps = 1
  SplicingSteps = 2
  MaxKills = 3
SYMMETRY Alike
INVARIANTS
  TypeOK
  TreesMatch
  FuzzesPicked
  NothingLost
  NoMutationError
  StagesComplete
