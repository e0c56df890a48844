CONSTANTS
  n1 = n1
  n2 = n2
  n3 = n3
  Hosts = {n1, n2, n3}
  Requesting <- OneWay
  Interval = 2
  Timeout = 6
  MaxDelay = 1
  RequestGap = 4
  Crashes = {n1}
SPECIFICATION HeartbeatFairSpec
CHECK_DEADLOCK FALSE
 
PROPERTIES CrashDetected
