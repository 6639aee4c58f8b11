SPECIFICATION Spec
CONSTANTS
  Letters = {"a", "b"}
  MaxLen = 5
  Rows = 2
  Cols = 2
INVARIANTS
  WindowShowsText
PROPERTIES
  ImplementsTextLines
