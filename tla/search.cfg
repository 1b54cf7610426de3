\* Two sections, one page of three rows, two texts.
CONSTANTS
  Plain = {"b", "o", "s"}
  Label <- SearchLabel
  searchData <- SmallData
  indexSectionsWithContent <- SmallSections
  Text <- SmallTexts
  MaxStray = 1
SPECIFICATION FairSpec
INVARIANTS
  InOrder
PROPERTIES
  OneMove
  Searched
