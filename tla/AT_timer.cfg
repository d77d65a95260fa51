CONSTANT MaxThreads = 3
SPECIFICATION Spec
INVARIANT OneBody
PROPERTY TimerContract
