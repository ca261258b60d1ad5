\* One WebProcess, up to five frames: enough to lap both slots twice.
SPECIFICATION LiveSpec
CONSTANTS
  Procs = {p1}
  NoProc = NoProc
  Fds = {f1, f2, f3}
  NoFd = NoFd
  SockCap = 2
  MaxFrames = 5
INVARIANTS TypeOK WholeUnlessLapped
PROPERTIES FeedSpec SendReturns ChannelReaped
CHECK_DEADLOCK FALSE
