\* Every content of MCConversation through every protocol, and every request of a client's own.
CONSTANTS
  None = None
  Accounts = {8, 9}
  Numbers = {1, 2}
  Durations = {0, 999, 1000, 1999}
  Contents <- MCContents
SPECIFICATION Spec
INVARIANTS
  ReplyReachesChat
  ReplyKeepsContent
  RequestsComplete
  AnswerTellsFailure
