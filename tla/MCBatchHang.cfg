SPECIFICATION AnsweringSpec
CONSTANTS
  r1 = r1
  Local = Local
  None = None
  Remote = {r1}
  Lossy = {r1}
  N = 2
  Workers <- MCWorkers
  FileModes <- MCModes
  Cacheable = {}
  Unsendable = {}
  HasTimeout = FALSE
PROPERTIES
  LostInputsRunAgain
