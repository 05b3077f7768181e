SPECIFICATION Spec
CONSTANTS
  Workers = {w1, w2}
  Names <- MCNames
  Datas <- MCDatas
  Blocks = 2
  MaxRequests = 2
  MaxFailures = 0
  NoFile = NoFile
INVARIANT UploadExact
CHECK_DEADLOCK FALSE
