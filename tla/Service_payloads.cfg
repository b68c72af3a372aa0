SPECIFICATION MCSpec
CONSTANTS
  Failed = Failed
  Nothing = Nothing
  Cores = {"", "a", "b", "..", "not_utf8"}
  DotSegments = {".."}
  NotUTF8 = {"not_utf8"}
  Hosts = {"", "[::%zone]", "10.0.0.5"}
  Unspecified = {"", "[::%zone]"}
  Ports = {"", "http", "no_such_service"}
  LookupPort <- MCLookupPort
  Ephemeral = {40000}
  EnvTexts <- MCEnvTexts
  Positions = {"condition", "case_label"}
  PartKinds = {"CODE", "PLACEHOLDER", "STRING_LITERAL", "UNSPECIFIED", "newer"}
  PartTexts = {"secret", "plain", "redacted"}
  Matched = {"secret"}
  Messages <- MCMessages
  Decoded <- MCDecoded
INVARIANTS
  OnExactlyAsAsked
  ProbeSucceeds
  SinkCanKey
  NothingBlockedLeaves
  RewritesAreCounted
  OneServiceOneShard
