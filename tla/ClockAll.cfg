SPECIFICATION ClockSpec
CONSTANT Century <- AllYears
INVARIANT EpochCountsDays
