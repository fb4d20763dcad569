SPECIFICATION FairSpec
CONSTANTS
  Inflaters = {t1, t2}
  Collectors = {c1, c2}
  Reclaimer = r
  Objects = {o1, o2}
  Monitors = {m1, m2, m3, m4, m5}
  NoMonitor = NoMonitor
  NoObject = NoObject
  HY_FAT_TABLE_ENTRIES = 1
  HY_MAX_FAT_TABLES = 3
  MaxSpurious = 1
CHECK_DEADLOCK FALSE
INVARIANTS
  TypeOK
  MonitorStays
  WriteExclusive
  SweepIsExact
PROPERTIES
  InflationEnds
  CollectionEnds
