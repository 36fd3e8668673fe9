SPECIFICATION Spec
CONSTANTS
  Files = {f1, f2, f3}
  Slots = {s1, s2}
  MaxFiles = 2
INVARIANTS
  TypeOK
  ListedIsThere
  ReplacedIsTold
  FilesAccounted
PROPERTIES
  UploadEnds
