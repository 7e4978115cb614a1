\* Two upstreams and one that is gone; five pieces of a conversation; three
\* blocks of a stream in three chunks; two callers on each of eleven providers;
\* five atoms of text in chunks of at most two.
SPECIFICATION Spec
CONSTANTS
  Supported <- MCSupported
  ChatUpstreams <- MCChatUpstreams
  Spoken <- MCSpoken
  SettingsSet <- MCSettings
  RequestSet <- MCRequestSet
  MaxStrategies = 1
  MaxPieces = 5
  MaxBlocks = 3
  Indices = {0, 1}
  NoIndex = 99
  Tools <- MCTools
  MaxChunks = 3
  MaxSlots = 3
  Providers <- MCProviders
  Wishes <- MCWishes
  Upstreams <- MCUpstreams
  FirstWords <- MCFirst
  Answers <- MCAnswers
  FollowUps <- MCFollow
  Collection <- MCCollection
  NimMaxTokens = 8
  DefaultMax = 12
  Margin = 1
  Least = 2
  MaxCache = 2
  MaxTalk = 5
  MaxStarts = 2
  MaxSideTalk = 1
  MaxAtoms = 5
  MaxChunk = 2
  Hold = 3
INVARIANTS RequestsServedRight ConversionsKept ClientHasResponse RequestsSuitProviders
CHECK_DEADLOCK FALSE
