\* Three rings with records and a generation that wraps after 6; a small
\* configuration, one write of which may fail; a clock of 12 ticks for the Web UI.
SPECIFICATION MCSpec
CONSTANTS
  Rings = {empty, r1, r2, r3}
  Empty = empty
  Half = 3
  Absent = Absent
  Torn = Torn
  Nothing = Nothing
  Modes = {off, master}
  Disabled = off
  Networks = {wlan}
  AppKeys = {k1, k2}
  Hosts = {broker}
  Certificates = {ca}
  None = None
  MaxFailures = 1
  Browsers = {b1, b2}
  Nobody = nobody
  HalfTurn = 6
  IdleTimeout = 2
  MaxLifetime = 4
  FailuresBeforeLock = 2
  InitialLock = 1
  MaximumLock = 3
  MaxTier = 2
  Horizon = 14
INVARIANTS SessionInTime LockoutKept
PROPERTIES ImplementsDurableRing SettingsSurvive
