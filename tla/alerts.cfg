\* Two problems, one raised twice, over one channel; or one alert to two
\* channels that are edited, deleted and tested. A queue of one, and crashes
\* and failing calls without number.
CONSTANTS
  n1 = n1
  n2 = n2
  n3 = n3
  c1 = c1
  c2 = c2
  e1 = e1
  Sides = {"alerts", "channels"}
  Alerts = {n1, n2, n3}
  KeyOf <- MCKeyOf
  Channels = {c1, c2}
  Editors = {e1}
  QueueCap = 1
  Window = 0
  MaxTime = 1
SPECIFICATION NotifySpec
INVARIANTS TypeOK NoRepeat EveryChannelTried
PROPERTIES KeepsLog EventuallyDecided
CHECK_DEADLOCK FALSE
