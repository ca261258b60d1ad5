\* Two WebProcesses of one view, and view_destroy with channels still open.
SPECIFICATION Spec
CONSTANTS
  Procs = {p1, p2}
  NoProc = NoProc
  Fds = {f1, f2, f3, f4}
  NoFd = NoFd
  SockCap = 1
  MaxFrames = 2
SYMMETRY Sym
INVARIANTS DescriptorsMatch
PROPERTIES ForeignFdsUntouched
CHECK_DEADLOCK FALSE
