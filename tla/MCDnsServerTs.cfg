SPECIFICATION Spec
CONSTANTS
  Query = {q1, q2}
  Name = {"a", "b"}
  Domain = {"a", "*"}
  Wild <- WildPairs
  Unfit = {"a"}
  Files <- FileContents
INVARIANTS SocketsClosed OneAnswer AnswersFit
PROPERTY QueriesEnd
