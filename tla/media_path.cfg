SPECIFICATION FairSpec
CONSTANTS
    small = small
    large = large
    Size = {small, large}
    EncoderHosts <- MCEncoderHosts
    Volatile = {"hevc_nvenc"}
    Clients <- MCClients
    Breakable = {"hevc_cuvid", "hevc_vaapi"}
    GOP = 2
    WireCap = 2
    MaxEncodeErrors = 1
    MaxBuffered = 2
    OpusFrame = 1
INVARIANT MediaSafety
PROPERTIES HardwareKept PictureReturns
