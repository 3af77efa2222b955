SPECIFICATION PagesSpec
CONSTANTS
  Tab = {t1, t2}
  Max = 1
  Typists = {t2}
  Deaf = {t2}
  Lingering = {t2}
  None = None
  FileCall = {w1, w2}
  Path = {a, b}
  Thing = {f1, d1, d2}
  Folder = {d1, d2}
  NoThing = none
  MaxMeddling = 1
  MaxCuts = 1
INVARIANTS
  EndIsTrue
PROPERTIES
  CloseKills
  TabGoes
  ContentGoesOnlyIfAsked
CHECK_DEADLOCK FALSE
