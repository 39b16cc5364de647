SPECIFICATION ScanSpec
CONSTANTS
  Backends = {TRUE, FALSE}
  Devices <- MCDevices
  Calls = {"scan_devices", "snapshot", "open_first", "open_at", "open_path"}
  Faults = {"init", "list", "read", "memory"}
  PortValues = 3
  MaxChanges = 3
INVARIANT ScanTypeOK
INVARIANT NothingKept
PROPERTY ReportsPresent
PROPERTY OpenedIsChosen
