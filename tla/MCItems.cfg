SPECIFICATION Spec
CONSTANTS
  CompositionRows <- SmallRows
  SeriesRuns <- SmallRuns
  Designs <- SmallDesigns
  Facts <- CoinFacts
  SentValues <- CoinValues
  SentTogether <- OneAtATime
  BaseMetal <- Plated
  WordsSay <- Words
  PeersSay <- Peers
  NoteFacts <- SomeNoteFacts
  NoteValues <- SomeNoteValues
  Issues <- SmallIssues
  BaseSeal <- Shades
  BankOf <- Banks
  BySerial <- Cutoffs
  Districts = {"A", "B", "C"}
  Rule <- NoMotto
  Editor = {e1, e2}
  Values <- FieldValues
  TypesOn = FALSE
  MaxSaves = 2
  Releases <- Shipped
  Labels = {"mine"}
  EditsOverlap = FALSE
  NamesComeAgain = FALSE
  MaxChange = 4
  Order <- SmallOrder
  LinksOf <- SmallLinks
  Vocabularies = {"grade", "mint"}
  Guessable = {"grade"}
  FirstRows <- SmallStock
  SeededRows <- Migrated
  EmptiesSheets = FALSE
  MaxSave = 1
  MaxJob = 2
  MaxCorrection = 1
INVARIANT
  DefaultsSettle
PROPERTIES
  PersonsWordStands
  EditsMerge
  LoadsKeepWhatIsHeld
SYMMETRY Editors
CHECK_DEADLOCK FALSE
