SPECIFICATION MCSpec
CONSTANTS
  a = a
  b = b
  neg = neg
  Stoppers = {a, b}
  MaxTasks = 2
  LastInstant = 2
  Setters = {a, b}
  Readings = {1, 2, 4}
  MaxSets = 4
  Updaters = {a, b}
  GaugeValues <- TheGaugeValues
  MaxUpdates = 4
  Records = {a, b, neg}
  Negative = {neg}
  LastTimerStep = 2
  TagKeys <- TheKeys
  TagValues <- TheValues
  NameKey = "name"
  Length <- TheLength
  Restricted = {"nf.app", "nf.x"}
  Allowed = {"nf.app"}
  RecodedKeys = {"u2"}
  RecodedValues <- TheRecodedValues
  MaxKeyLength = 2
  MaxValLength = 3
  MaxUserTags = 2
  MaxNameLength = 4
  Width = 8
  Percentages = {1, 25, 50, 75, 99, 100}
  MaxRecorded = 2
  Maxima <- TheMaxima
  MaxLabelled = 2
CHECK_DEADLOCK FALSE
INVARIANTS
  StopsAreFinal
  CountsOnlyRises
  LocalMaxIsKept
  StatisticsAgree
  VerdictsAgree
  EstimateIsNear
  BucketsAreToldApart
