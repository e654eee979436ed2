CONSTANTS
  Pages <- MCPages
  PaintSpace <- MCPaintSpace
  AliasSpace <- MCAliasSpace
  RawDevice <- MCRawDevice
  FontOf <- MCFontOf
  ExtGStateFont <- MCExtGStateFont
  XObjectLanes <- MCXObjectLanes
  AdmittedFonts = {"ordinary"}
SPECIFICATION Spec
INVARIANTS
  PlanMirrorsWalker
  RewriteKeepsMeaning
  OccurrencesAgree
  PlainEpochIsConverted
CHECK_DEADLOCK FALSE
