SPECIFICATION Spec
CHECK_DEADLOCK FALSE
INVARIANTS TestsAreAsTheirTypes PromisesAreLookedAfter PromisesSettleAsExpected ResultsAreNotLost AssertionsAreNeeded AnyIsNotLost
    SearchesMeanWhatTheySay DeprecatedUsesAreFound DeclarationsAreHonoured
