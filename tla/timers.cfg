\* Intervals that share ticks and intervals that do not.
SPECIFICATION FairSpec
CONSTANTS
    Interval <- SmallInterval
    SameTick = 9
    MaxPcbs = 2
INVARIANTS TcpTimerRuns NeverLate
PROPERTIES ImplementsAlarmClock TimersFire
