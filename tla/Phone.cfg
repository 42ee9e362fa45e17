SPECIFICATION PhoneFair
CONSTANTS
  HttpPeers = {h1, h2}
  WsPeers = {s1, s2, s3}
  NoPeer = NoPeer
  BodyChunks = 1
  BeginsAgain = FALSE
  WsNums = 2
  Docs = {d1, d2}
  NoDoc = NoDoc
  NameCount = 2
  Budgets <- MCBudgets
  Book <- MCBook
  MaxSkips = 1
  Wishes <- MCWishes
INVARIANTS PhoneTypeOK SpeechFollows DispatchOwnsRequest UploadsEnd EventsAlternate MessagesWhole ClosedIsQuiet OpensWhatWasGiven
CHECK_DEADLOCK FALSE
PROPERTIES TurnsAreEarned AudioIsGivenBack MainComesBack UpdateStaysAwake OwnerGetsItBack HeldIsKept
