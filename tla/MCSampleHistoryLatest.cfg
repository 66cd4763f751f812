SPECIFICATION HistorySpec
CONSTANTS
    Capacity = 2
    Clients = {usb}
    MaxPublished = 4
PROPERTIES
    LatestWereNewest
