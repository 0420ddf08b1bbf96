SPECIFICATION Spec
CONSTANTS
  navi = navi
  servo = servo
  history = history
  Task <- MCTask
  Prio <- MCPrio
  Msg = {blocked, clear}
  NoMsg = none
  blocked = blocked
  clear = clear
  none = none
  QSize = 2
CHECK_DEADLOCK FALSE
INVARIANTS
  NoWaitOverMessage
  OneReasonToWait
