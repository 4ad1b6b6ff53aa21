SPECIFICATION FairSpec
CONSTANTS
  MaxDocs = 2
  MaxBuilds = 3
INVARIANTS
  CorpusTypeOK
  WriterHandedOver
  FinishedBuildIsHonest
  CancelIsHonoured
  NoStaleCancel
PROPERTIES
  OutcomeIsFinal
  WriterComesBack
