SPECIFICATION ProgramsSpec
CONSTANTS
  port80 = port80
  port22 = port22
  port5201 = port5201
  t1 = t1
  t2 = t2
  Port = {port80, port22, port5201}
  SshPort = port22
  PerfPort = port5201
  CommandLines <- AllCommandLines
  Visitor = {v1}
  Channel = {1, 2}
  Session = {s1, s2}
  Flags <- OpenFlags
  MaxObjects = 3
  MaxHandles = 1
  Process = {p1, p2}
  MaxVersion = 2
  Server = {s1, s2}
  Keygen = {g1, g2}
  MaxKeys = 3
  Test = {t1, t2}
  NoTest = NoTest
  Kinds <- TestKinds
  Connection = {c1}
  Destination = {d1, d2}
  Source = {s1, s2}
  Address = {a1, a2}
  Nobody = Nobody
  MaxTasks = 2
  RouteCapacity = 1
  RouteQueue = 1
  Handle = {h1, h2}
  Flow = {f1, f2}
  MaxGenerations = 2
\* Commands, files and programs may be done.
CHECK_DEADLOCK FALSE
INVARIANTS
  ServedAsAsked OnlyOwnFiles AnsweredIsCurrent OneHostKey
  OneTestAtATime OneClientPerAddress RoutesSound ConnectionsIsolated
PROPERTIES SavedKeyKept TestsEnd
