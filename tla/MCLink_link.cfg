SPECIFICATION LinkSpec
CONSTANTS
  Inputs <- MCInputs
  Options <- MCOptions
  NameOrder <- MCNames
  RelocSizes <- MCRelocSizes
INVARIANTS
  LayoutTypeOK
  InputsApart
  SectionsApart
  WhereHome
  OutputOrder
  LinkedApart
  HeadersRight
