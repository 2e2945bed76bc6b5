SPECIFICATION Spec
CONSTANTS
  Controllers = {a1}
  Calls = {c1, c2}
  Lines = {l1}
  Handlers = {h1}
  Ticker = Ticker
  Main = Main
  None = None
  Duration = 1
PROPERTIES
  NothingSuppressed
