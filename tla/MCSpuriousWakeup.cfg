SPECIFICATION Spec
CONSTANTS
  Inflaters = {t1, t2}
  Collectors = {c1, c2}
  Reclaimer = r
  Objects = {o1, o2, o3}
  Monitors = {m1, m2, m3, m4, m5, m6}
  NoMonitor = NoMonitor
  NoObject = NoObject
  HY_FAT_TABLE_ENTRIES = 2
  HY_MAX_FAT_TABLES = 2
  MaxSpurious = 1
SYMMETRY Symmetry
CHECK_DEADLOCK FALSE
INVARIANTS
  MonitorCannotVanish
