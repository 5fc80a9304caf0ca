CONSTANTS
    Text <- MCText
    OutputSize = 18
    MaxUrlLength = 14
    AddressSize = 4
    Ipv6 <- MCIpv6
    MaxBody = 72
    MaxLocation = 14
    ResponseSize = 342
    PageLength = 72
    None = None
SPECIFICATION Spec
INVARIANTS
    BufferSuffices
    DecodesTheText
    StoresOriginalUrls
    RedirectsToTheText
    ResponsesFit
CHECK_DEADLOCK FALSE
