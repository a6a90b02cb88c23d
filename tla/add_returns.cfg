SPECIFICATION Spec
CONSTANTS
  Threads = {t1}
  NoThread = NoThread
  MaxContexts = 1
  CountMod = 2
  FirstElsewhere = FALSE
  Failures = {"getfd", "kontext_init"}
PROPERTIES
  AddReturnsKontext
