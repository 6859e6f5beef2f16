SPECIFICATION Spec
CONSTANTS
  ReleaseBase = 8
  Files <- MCFiles
  Identifiers <- MCIdentifiers
  RustName <- MCRustName
  MinFrame = 4
  DefaultFrame = 6
INVARIANTS
  TypeOK
  NeverPanics
  RunsWhatIsDeclared
  DiscardsAsDeclared
  MacroAgrees
