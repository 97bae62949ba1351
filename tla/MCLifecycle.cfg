\* Two requests in flight.
CONSTANT MaxRequests = 2
SPECIFICATION SpecAnswering
INVARIANTS TypeOK StopNeverStuck
PROPERTIES CleanReturn StopEnds FailureRecovers
