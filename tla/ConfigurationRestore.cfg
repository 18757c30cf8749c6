\* A restore that the power cuts off.
SPECIFICATION ConfigSpec
CONSTANTS
  Modes = {off, master}
  Disabled = off
  Networks = {wlan}
  AppKeys = {k1, k2}
  Hosts = {broker}
  Certificates = {ca}
  None = None
  MaxFailures = 1
PROPERTIES RestoreIsAtomic
