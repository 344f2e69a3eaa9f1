CONSTANT Threads = {t1, t2, t3}
SPECIFICATION FairHSpec
INVARIANTS TypeOK WaitersExact NoLostWakeup NoSpuriousReport
PROPERTIES ImplementsAutoReset SignalConsumed
