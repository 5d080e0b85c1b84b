\* The chat session alone, on the Buffer as it is: is process given bodies?
CONSTANTS
  DbNum = 1
  MaxTime = 14
  MaxLeaked = 3
  Names = {"Id", "name"}
  Texts = {"a"}
  Null = "NULL"
  NativeTypes = {"LONG", "NEWDECIMAL"}
  MaxRows = 2
  MaxFields = 2
  Callers <- MCCallers
  Managers <- MCManagers
  NULL = NULL
  DBThreads <- MCThreads
  DBConns <- MCConns
  DBMaxConn = 3
  DBNoThread = DBNoThread
  t1 = t1
  t2 = t2
  t3 = t3
  t4 = t4
  m1 = m1
  m2 = m2
  m3 = m3
  c1 = c1
  c2 = c2
  c3 = c3
  c4 = c4
  Prepend = 2  InitSize = 2  ExtraSize = 3  Bytes = {1, 2}  MaxLen = 4  MaxSize = 7  MaxOwed = 4
  LineMax = 12  PairMax = 6  Settings <- MCSettings  FileTexts <- MCTexts
  HeadLen = 2  MaxPackage = 3  Packages <- MCPackages  MaxPacks = 3  MaxCalls = 4
  Items = {1, 2, 3, 4}
  Octets = {0, 1, 10, 13, 255}  MaxOctets = 6  UInt = 131072
  Numbers = {0, 1, 127, 128, 129, 16383, 16384, 2097151, 2097152, 268435455, 268435456, 2147483647}
  Parts = {"chat"}
SPECIFICATION DataSpec
INVARIANT BodyIsProcessed
CHECK_DEADLOCK FALSE
