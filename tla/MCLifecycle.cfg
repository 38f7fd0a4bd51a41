\* Signals arrive in two of the launches; all launches take their course.
CONSTANTS
  Malformed = Malformed
  Garbled = Garbled
  Word = 4
  Launches <- MCAllLaunches
  Interrupted <- MCInterrupted
  MaxEntries = 1
SPECIFICATION FairSpec
INVARIANTS
  TypeOK
  EffectiveSettings
  KeyWholeUnlessBroken
  LogsAgree
  QuietSignalsNeverBlock
  LeavesNothingBehind
PROPERTIES
  StopsWhenAsked
\* A process ends, serves on when no signal comes, or is stuck.
CHECK_DEADLOCK FALSE
