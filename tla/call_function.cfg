SPECIFICATION Spec
CONSTANTS
  Bases = {"variable", "complex", "string", "dfref", "wave", "struct"}
  MaxReturns = 2
  MaxInputs = 2
INVARIANTS TypeOK ChecksDocumentedTypes CheckedCallsConvert ReplyMatchesDeclaration StringsDisposedOnce
CHECK_DEADLOCK FALSE
