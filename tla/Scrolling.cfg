SPECIFICATION Spec
CONSTANTS
  Widths <- MCWidths
  Heights <- MCHeights
  Lines <- MCLines
  Contents <- MCContents
  MaxRows = 5
  Shown = 4
  Margin = 15
  MaxScroll = 3
INVARIANTS TypeOK 
PROPERTIES RowStaysInSight EstimateSuffices
CHECK_DEADLOCK FALSE
