SPECIFICATION QueueFairSpec
CONSTANT Messages = {m1, m2, m3, m4}
INVARIANTS FreedUnused HandledOnce
PROPERTIES InOrder Handled StopFrees
\* a queue that was stopped and freed is the end
CHECK_DEADLOCK FALSE
