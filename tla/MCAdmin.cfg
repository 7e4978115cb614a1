\* Three calls around two settings changes; two modules; one secret and one
\* setting that takes a restart; two MCP servers seen by one page.
SPECIFICATION Spec
CONSTANTS
  k = k
  m = m
  r1 = r1
  r2 = r2
  r3 = r3
  page = page
  a = a
  b = b
  Kinds = {k, m}
  RegCalls = {r1, r2, r3}
  MaxApplies = 2
  MaxMade = 4
  Modules = 2
  BuiltinKind = "b"
  CustomKinds = {"c"}
  Platforms = {"mine", "telegram"}
  BuiltinPlatform = "telegram"
  Secret = {"token"}
  Manual = {"port"}
  Plain = {}
  Texts = {"", "v", "bad"}
  Empty = ""
  Bad = "bad"
  Mask = "****"
  Names = {a, b}
  Secrets = {"x"}
  Pages = {page}
  Blank = ""
  Masked = "****"
INVARIANTS RegistryKept ModulesKept McpKept
PROPERTIES SettingsKept
CHECK_DEADLOCK FALSE
