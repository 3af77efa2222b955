SPECIFICATION FilesSpec
CONSTANTS
  FileCall = {w1}
  Path = {a, b}
  Thing = {f1, d1, d2}
  Folder = {d1, d2}
  NoThing = none
  MaxMeddling = 1
  MaxCuts = 1
PROPERTIES
  AbsentIsSeen
CHECK_DEADLOCK FALSE
