CONSTANTS
  a = a
  b = b
  c = c
  u1 = u1
  u2 = u2
  u3 = u3
  Files = {a, b, c}
  Root = a
  Absent = Absent
  Library = Library
  Foreign = Foreign
  Unknown = Unknown
  Sources <- MCSources
  Urls = {u1, u2, u3}
  Names = {1, 2}
  NameOf <- MCNameOf
  NoUrl = NoUrl
  MaxEdits = 2
  MaxCommands = 2
SPECIFICATION Spec
CHECK_DEADLOCK FALSE
INVARIANT ImportsCheckedFirst
