SPECIFICATION FairSpec
CONSTANTS
  w1 = w1
  Processes <- OneWorker
  Count = 5
  Missing <- SecondPicture
  Damages <- SomeMayBeBroken
  Limits <- UpToTwo
  ThreadCap = 32
  MaxRetries = 1
INVARIANTS
  PermitsMatchCalls
  RequestsAreBounded
PROPERTIES
  CaptionedIsNotAskedAgain
  EveryDocumentEnds
