CONSTANTS
  Workers = {w1, w2, w3}
  MaxPosts = 6
SPECIFICATION FairSpec
INVARIANTS NoLostWakeup StopperAwaitsJobs JobsConserved NoUseAfterFree GracefulDrain
PROPERTIES ImplementsJobPool StopTerminates JobsServed
