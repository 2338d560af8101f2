SPECIFICATION Spec
CONSTANTS
  Nobody = Nobody
  EncThread = {1, 2}
  Encoder = {24, 25}
  EncBase = 2
  Uses <- MCUses
  MaxResets <- MCMaxResets
  DigThread = {"t1", "t2"}
  Port = {6, 7}
  Level = {0, 255}
  ActThread = {"t1", "t2"}
  Units = 2
  ActBase = 4
  Positions = {6}
  Velocities <- MCVelocities
  PosThread = {"rf", "daemon", "main"}
  PosRf = "rf"
  PosDaemon = "daemon"
  Us = "us"
  Them = "them"
  PosNone = "none"
  Board = {"b1", "b2"}
  NoBoard = "no board"
  Origin = {1}
  PosPackets = 4
  RingByte = {"b1", "b2"}
  Capacity = 3
  Word = 16
  MaxCount = 4
  BusThread = {"t1", "t2", "t3"}
  BusAsks <- MCAsks
  BusRadio = "t3"
  GyrThread = {"gyro", "user"}
  GyroThread = "gyro"
  User = "user"
  Top = 4
  Expire = 2
  Modulus32 = 32
  StartTimes = {14}
  Readings = {1, 2}
  Degrees <- MCDegrees
  CalibrationMs = 1
  MaxTicks = 5
  MaxSamples = 2
  MaxUpdates = 2
  MaxSets = 1
  ConThread = {"t1", "t2"}
  ConTexts <- MCConTexts
  ConPanicText <- MCConPanicText
  ConNewline = 10
  ConReturn = 13
  Keys <- MCKeys
  RxDepth = 2
  Clicker = "t1"
  MaxPrints = 2
  MaxScans = 2
  MaxClicks = 2
  MaxPresses = 1
  StrThread = {"rf", "a", "b"}
  StringThread = "rf"
  Strings <- MCStrings
  StringSize = 3
  MaxStrings = 2
  RadThread = {"rf", "p1", "p2"}
  RadRf = "rf"
  PayloadSize = 2
  FifoSize = 3
  RadPackets = 2
  MaxChars = 3
  Page = {0, 32768}
  PageWords = 2
  Block <- MCBlock
  Memories = {69, 70, 88}
  LoadCommands = 5
  MaxLost = 1
  Columns = 2
  Char = {"a", "b"}
  LcdTexts <- MCLcdTexts
  LcdPanicText <- MCLcdPanicText
  LcdPrints = 3
  LcdResets = 1
  SimThread = {"t1", "t2"}
  SimVelocities = {0, 255}
  SimCommands = 3
  MaxSteps = 2
  TwiByte = {"b1", "b2"}
  Fill = "b0"
  BufferSize = 2
  MaxTransfers = 2
  UpThread = {"main", "rf", "daemon"}
  Main = "main"
  UpRf = "rf"
  UpDaemon = "daemon"
  OurId = "our id"
  OtherId = "other id"
  NoId = "no id"
  UpPackets = 3
  MaxGo = 3
INVARIANTS
  TypeOK DistancesAreTrue ActuatorsAsAsked BusIsOurs GyroIsTrue ConsoleIsWhole
   DisplayInStep AnswersAreOwn NotInterleaved
  TransfersAreFaithful StartsSoundAndTold PositionsAreWhole
PROPERTIES
  ImplementsFeed  IsATextScreen PortsAsAsked 
CHECK_DEADLOCK FALSE
