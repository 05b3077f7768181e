SPECIFICATION Spec
CONSTANTS
  c1 = c1
  c2 = c2
  c3 = c3
  Clients = {c1, c2, c3}
  Callers = {c1, c2}
  Polite = {c1}
  NoClient = NoClient
  Unused = Unused
  SessTalks <- MCSessTalks
  MuxTalks <- MCMuxTalks
  EchoTalks <- MCEchoTalks
  CalcTalks <- MCCalcTalks
  HttpTalks <- MCHttpTalks
  SessRead = 3
  MuxRead = 1
  EchoRead = 1
  CalcRead = 4
  HttpRead = 9
  MaxFailures = 1
  Threads = 1
  Fds = {5, 6}
  Listener = 3
  NoFd = 99
  TxCap = 3
  MaxEvents = 2
  IntMin <- MCIntMin
  IntMax = 7
  Sep = Sep
  Files = {"/index.html", "/user.html"}
  Dirs = {"/."}
  Texts <- MCTexts
  Words <- MCWords
  QuitWords <- MCQuitWords
  BufferSize = 3
  MaxDatagrams = 3
  Names = {"404.html", "uploaded_file.dat", "f"}
  Datas <- MCDatas
  Blocks = 2
  MaxRequests = 3
  NoFile = NoFile
INVARIANTS DescriptorsAccounted AnswersRight NothingMissed
PROPERTY EveryoneServed
CHECK_DEADLOCK FALSE
