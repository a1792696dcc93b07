SPECIFICATION LogViewSpec
CONSTANTS
  Visible = Visible  LF = LF  CR = CR  DataPrefix = DataPrefix
  MayWriteCR = FALSE
  MaxText = 6
  MaxReconnects = 1
INVARIANTS
  TextIsIntact
  LinesStayApart
CHECK_DEADLOCK FALSE
