SPECIFICATION ProgramsSpec
CONSTANTS
  MaxWrong = 2
  MaxFaulty = 2
INVARIANTS DiagnosisHonest PreflightExact
\* a run of a program ends
CHECK_DEADLOCK FALSE
