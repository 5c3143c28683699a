SPECIFICATION ReporterSpec
CONSTANTS
  SlotWidth = 2
  ReportEvery = 4
  Retention = 8
  MaxTime = 10
  MaxTraffic = 2
  MaxReportFaults = 0
INVARIANT CountedOnce
CHECK_DEADLOCK FALSE
