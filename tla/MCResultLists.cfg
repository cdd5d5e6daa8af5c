SPECIFICATION Spec
CONSTANTS
  Commands = {"at!band?", "at!band=?", "at+cops=?"}
  Texts = {"title", "profile", "heading", "two", "one", "none", "all", "cut"}
  ProfileCapacity = 2
  NetworkCapacity = 2
  MaxExchanges = 2
  Files <- Scripts
  MaxCalls = 4
  Null = Null
INVARIANTS AnswersFromScript EntriesOwned MasksUnderTheirTitle ListsOfThisAnswer
PROPERTIES ImplementsInterface
CHECK_DEADLOCK FALSE
