SPECIFICATION DocSpec
CONSTANTS
  a = a
  b = b
  none = none
  NoMedia = none
  Media <- SomeMedia
  Workbooks <- TwoSheets
  Bodies <- SomeBodies
  Uses <- SomeUses
INVARIANTS
  NothingIsLost
  LinksNameTheirPictures
  ContentInOrder
  MarkersNamePages
  MatterLeads
