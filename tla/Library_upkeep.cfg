\* Every name of two tokens in two folders; two copies of a title, two workers,
\* three events from outside.
SPECIFICATION LibrarySpec
CONSTANTS
  Parts = {"naming", "library"}
  MaxTokens = 2
  MaxFolders = 2
  f1 = f1
  f2 = f2
  t1 = t1
  t2 = t2
  File = {f1, f2}
  Title = {t1, t2}
  LibWorker = {w1, w2}
  FileKey <- MCKey
  FileSeedKey <- MCKey
  FileTitle <- MCTitle
  Dir <- MCDir
  Grade <- MCGrade
  MaxVersion = 2
  MaxEvents = 3
INVARIANTS NamesAgree WorkAccounted
PROPERTIES  ScanEnds
CHECK_DEADLOCK FALSE
