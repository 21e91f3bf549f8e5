CONSTANTS
    None = None
    Empty = ""
    Mtp = "MTP"
    Ids = {1, 2}
    Sticks = {"red", "blue", "phone"}
    Times = {1, 2, 3}
    MaxEvents = 4
    Locator = "capture"
    Locators = {"capture"}
    Names <- MCNames
    UsbName <- MCUsbName
    Model <- MCModelOf
    Captures <- MCCaptures

SPECIFICATION Spec

INVARIANTS
    IInv
    SpanReported
    OneClaimEach

\* The function returns when the map is empty.
CHECK_DEADLOCK FALSE
