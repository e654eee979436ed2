CONSTANTS
  Pages <- MCPages
  PaintSpace <- MCPaintSpace
  AliasSpace <- MCAliasSpace
  RawDevice <- MCRawDevice
  FontOf <- MCFontOf
  ExtGStateFont <- MCExtGStateFont
  XObjectLanes <- MCXObjectLanes
  AdmittedFonts = {"ordinary"}
SPECIFICATION Spec
INVARIANT NothingConvertedInPart
CHECK_DEADLOCK FALSE
