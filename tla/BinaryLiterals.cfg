SPECIFICATION Spec
CONSTANT
  Statements <- AllStatements
INVARIANT SentAsWritten
CHECK_DEADLOCK FALSE
