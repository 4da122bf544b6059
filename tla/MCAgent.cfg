SPECIFICATION Spec
CONSTANTS
  Threads = {t1, t2}
  Cmds = {ip, os_reboot}
  Reboots = {os_reboot}
  MaxCalls = 3
  MaxFaults = 1
  None = None
  Garbage = Garbage
CHECK_DEADLOCK FALSE
INVARIANT AnswerFits
PROPERTY AnswerComes
