SPECIFICATION SftpSpec
CONSTANTS
  Session = {s1, s2}
  Flags = {{"WRITE", "CREATE"}}
  MaxObjects = 3
  MaxHandles = 1
INVARIANTS SessionCreatedOnly
CHECK_DEADLOCK FALSE
