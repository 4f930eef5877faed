SPECIFICATION Spec
CONSTANTS
  Lengths <- MCLengths
  Zero = Zero
  Hosts = {"little", "big"}
  Labels <- MCLabels
  MaxLabels = 2
  MaxQuestions = 2
  Bytewise <- MCBytewise
  MaxBody = 7
INVARIANTS HeadersAreRead QuestionsComeBack OnlyMessagesAreParsed
CHECK_DEADLOCK FALSE
