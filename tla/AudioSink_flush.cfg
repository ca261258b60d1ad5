\* Any order of flushes and teardowns, and ten questions for the delay.
SPECIFICATION Spec
CONSTANTS
  NoThread = NoThread
  MaxDelays = 10
INVARIANT Serialised
PROPERTIES TeardownReturns SoundResumes
