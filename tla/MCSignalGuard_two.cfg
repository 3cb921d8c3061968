SPECIFICATION FairGuardSpec
CONSTANTS
  Guard = {g, h}
  Waited = {g, h}
  Waiter = {t, u}
  Signals = {2, 15}
  Unit = 64
  MaxCaught = 2
PROPERTIES
  WaitTakes
