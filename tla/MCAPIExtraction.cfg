SPECIFICATION Spec
CONSTANTS
  Files <- MCFiles
  Orders <- MCOrders
  Exportable <- MCExportable
  Begins <- MCBegins
  ClassNames = {"A"}
  FunctionNames = {"f", "__init__"}
  Underscored = {"__init__", "_x"}
  Dunder = {"__init__"}
  Accessors = {"none", "getter", "setter"}
  MaxNodes = 3
  MaxExports = 2
INVARIANTS
  StackMirrorsPath
  PublicAsReexported
  DeclarationsAreComplete
