CONSTANTS
  LFIELDS_PER_FLUSH = 2
  MAXARG_C = 2
  MAXINDEXRK = 2
  MAXSTACK = 20
  LUAI_MAXCCALLS = 12
  LUAI_MAXVARS = 8
  LUAI_MAXUPVALUES = 3
  MAXTAGLOOP = 3
  LUA_MAXCAPTURES = 3
  Alphabet <- Alphabet_
  CharClass <- CharClass_
  Libraries <- Libraries_
  StrLess <- StrLess_
  Means <- Means_
  Programs <- Programs_
  Tokens <- Written
  Meaning <- Meant
  Parser <- luaY_parser
  Dump <- luaU_dump
  Undump <- luaU_undump
  Matcher <- match
  Finder <- FirstMatch
  Loads <- Loads_
SPECIFICATION LibSpec
INVARIANTS
  CodeChecked
  SemanticsPreserved
  TopDiscipline
  CachedAbsence
  Reentry
PROPERTIES
  ChunkWhole
