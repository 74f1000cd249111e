CONSTANTS
  w1 = w1
  w2 = w2
  Workers = {w1, w2}
  Main = Main
  NumFunctions = 3
  FlagChoices <- AllCommandLines
  Outcomes = {"ok", "excluded", "badTranslate", "badParse", "badBlock"}
  MaxOptQSize = 2
  EmitQSize = 1
  WaitCalledAtStart = {FALSE}
SPECIFICATION FairSpec
INVARIANTS
  TypeOK
  EmittedInOrder
  EverythingEmitted
  StatusIsDeterministic
  ParserOutlivesItems
  DataLoweringSingleThread
PROPERTIES
  CompilationEnds
