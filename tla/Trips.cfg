SPECIFICATION Spec
INVARIANTS NoSilentDrift PlansWhatWasPicked PickersAreGrounded DeviationsAccountedFor
PROPERTIES HandlerReturns PrefetchEnds
CHECK_DEADLOCK FALSE
