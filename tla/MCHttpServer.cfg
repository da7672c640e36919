SPECIFICATION Spec
CONSTANTS
  Tokens <- MCTokens
  Http1 <- MCHttp1
  Http2 <- MCHttp2
  Scripts <- MCScripts
  Replies <- MCReplies
INVARIANTS ParsedAsWhole AnsweredAtOnce AnswersInOrder AnswersRead
CHECK_DEADLOCK FALSE
