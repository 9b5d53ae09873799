CONSTANTS
  N = 2
  Handlers = {h1, h2}
  Flusher = fl
  MaxPicks = 3
SPECIFICATION Spec
PROPERTIES DownIsLogged
