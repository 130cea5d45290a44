CONSTANTS
  LFIELDS_PER_FLUSH = 1
  MAXARG_C = 4
  MAXINDEXRK = 2
  MAXSTACK = 20
  LUAI_MAXCCALLS = 12
  LUAI_MAXVARS = 8
  LUAI_MAXUPVALUES = 3
  MAXTAGLOOP = 3
  LUA_MAXCAPTURES = 3
  Alphabet <- Alphabet_
  CharClass <- CharClass_
  Libraries <- Libraries_
  StrLess <- StrLess_
  Means <- Means_
  Programs <- LongConstructors
  Tokens <- Written
  Meaning <- Meant
  Parser <- luaY_parser
  Dump <- luaU_dump
  Undump <- luaU_undump
  Matcher <- match
  Finder <- FirstMatch
  Loads <- OnlySource
SPECIFICATION Spec
INVARIANTS
  RealCounts
