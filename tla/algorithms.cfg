SPECIFICATION AlgorithmsSpec
CONSTANTS
  MonthDays <- MCMonthDays
  HoursPerDay = 2
  MinutesPerHour = 2
  YearSpan = 3
  EndOfTime = 4
  SearchLimit = 60
  Expressions <- MCExpressions
  Starts = {0, 9, 41, 77}
  Zones <- MCZones
  Lengths = {7, 11, 12, 16, 20, 129}
  Texts <- MCTexts
  MaxLengthOf <- MCMaxLength
  MinLengthOf <- MCMinLength
  MaxLocalPart = 2
  Packages <- MCPackages
  Plain = {"tools"}
  Flat = {"accounts"}
  JobModules <- MCJobModules
  ReExports <- MCReExports
  Classes <- MCClasses
  ListenersIn <- MCListeners
  Registers <- MCRegisters
  Configured <- MCPackages
  MaxFaults = 1
  MaxEvents = 2
  Manifests <- MCManifests
  Claim = "pvc"
  Ingress = "ingress"
  MaxCommands = 4
INVARIANTS
  AlgorithmsTypeOK
  NextRunIsFirst
  NextRunIsLater
  StrengthAgrees
  LayersAgree
  DiscoveryComplete
  DependenciesPresent
CHECK_DEADLOCK FALSE
