SPECIFICATION FairSpec
CONSTANTS
  Keys = {"ed25519", "agentrsa", "sk"}
  RsaKeys = {"agentrsa"}
  AgentKeys = {"agentrsa", "sk"}
  UnknownKeys = {"sk"}
  ServerRsa = TRUE
  Users = {"alice", "bob", "long"}
  LongUsers = {"long"}
  Links = {"sunset", "otherClient", "otherServer"}
  MaxAnswers = 3
  MaxOther = 3
INVARIANTS AuthedByAllow Understood OneAtATime
PROPERTIES Settles
CHECK_DEADLOCK FALSE
