SPECIFICATION MCSpec
CONSTANTS
  Bios = {"b1", "b2"}
  Threads = {"t1", "t2"}
  MaxRefs = 3
  Word = 2
  Results = {r1, r2}
  Events = {e1, e2}
  Nobody = Nobody
SYMMETRY Interchangeable
INVARIANTS
  BiosExact ResultsExact PgHooksExact RuntimeExact SaslExact
  FilesExact ModulesExact
CHECK_DEADLOCK FALSE
