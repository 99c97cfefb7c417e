SPECIFICATION Spec
CONSTANTS
  Window = {t, u1, u2, p1}
  Terminal = t
  User = {u1, u2}
  None = None
  MaxWindows = 3
  Width = 320
  Byte = 256
  ClickX = {0, 110, 250}
SYMMETRY Alike
INVARIANTS DesktopInv FocusOnTop TaskBarOpensShown OneUserWindow
PROPERTY StackOrder
