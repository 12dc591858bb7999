SPECIFICATION FairSpec
INVARIANT SettledStepIsOver
INVARIANT NoUsageAfterVerdict
PROPERTY NoLaunchAfterDeadline
PROPERTY OutcomeIsFinal
PROPERTY CallReturns
PROPERTY TerminatedChildEnds
CHECK_DEADLOCK FALSE
