\* One session and three disturbances, or two sessions and one; a fair event loop.
SPECIFICATION FairSpec
CONSTANTS
  Session = {s1, s2}
  Console = {c1, c2, c3, c4, c5}
  None = None
  Plugin = Plugin
  Admin = Admin
  Situation <- OneOrTwoSessions
INVARIANTS TypeOK OneConsole
 
CHECK_DEADLOCK FALSE
