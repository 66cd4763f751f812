SPECIFICATION AllSpec
CONSTANTS
    Clients = {c1, c2, c3}
    Idle = Idle
    Missing = Missing
    Values = {0, 1, 2, 3}
    MaxOvp = 2
    Rates = {1, 3}
    MinAverage = 1
    MaxAverage = 2
    Default <- Defaults
    Measurements = {m1, m2}
    Capacity = 3
    SectorSlots = 2
    Empty = Empty
    Garbled = Garbled
    None = None
    Setters = {s1, s2}
    Good = {Text}
    Odd = Odd
    Blank = Blank
    Overlong = Overlong
    Absent = Absent
    Standard = Standard
    NoOne = NoOne
    Sessions = {usb, tcp}
    EventTask = EventTask
    Texts = {Text}
    TooLong = TooLong
    NoText = NoText
    Address = Address
    MaxLinks = 1
    MaxCalls = 3
INVARIANTS
    SettingIsSound
    LogIsDurable
    ConfigurationIsSound
    WifiStateIsSound
