\* Starts that fail anywhere, reads that cut lines, early and regular returns.
SPECIFICATION MonitorsSpec
CONSTANTS
    MaxCalls = 2
    Files <- MCFiles
    PciDevices = {"nvme0", "nvme1"}
    MaxStops = 2
INVARIANTS ReportedRight OutputHasEveryReport NothingLeft
PROPERTIES MainReturns CallsReported
CHECK_DEADLOCK FALSE
