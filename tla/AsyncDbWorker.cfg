SPECIFICATION Spec
CONSTANT MaxTasks = 4
INVARIANTS TypeOK MutualExclusion NoLostWakeup DrainedBeforeFree FifoQueue
PROPERTIES ExecutorSafety EveryTaskRuns CallbackCalled DestructionEnds
