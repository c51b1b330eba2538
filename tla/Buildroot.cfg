SPECIFICATION MCSpec
CONSTANTS
  Builds = {b1, b2}
  Places = 2
  Symbols = 5
  Trees <- MCTrees
  MaxSaved = 3
  MaxWrites = 5
  Deps <- MCDeps
  PatchDeps <- MCPatchDeps
  Packages = {"lib", "app"}
  Overridden = {"app"}
  Staging = {"app"}
  Images = {}
  Patches = 2
  MaxVersion = 2
  Tristates = {"t"}
  Booleans = {"a", "b"}
INVARIANT WholeAndChecked
INVARIANT NothingLeftOver
INVARIANT KeptIfNotBad
INVARIANT SaveKeeps
INVARIANT DefconfigKeeps
INVARIANT SetTakesEffect
INVARIANT AutoConfLast
INVARIANT PatchedOnce
INVARIANT DepsFirst
INVARIANT EndsInstalled
INVARIANT NeverRebuilt
INVARIANT PlainMeaningKept
INVARIANT BelowNeeds
PROPERTY NeverLost
