SPECIFICATION HttpSpec
CONSTANTS
  Lifetime = 1
  Ticks = 2
  MaxTime = 2
INVARIANTS
  HttpTypeOK
  HealthIsTrue
PROPERTIES
  ServedOnlyInTime
  RefusedOnlyForCause
  RequestIsAnswered
  FalseAlarmsEnd
