\* The UI thread: what it opens and plays, the chat, the panels and prompts, the
\* settings on disk, drift correction, the window itself and what is sent to it.
CONSTANTS
    f1 = f1
    f2 = f2
    u = u
    bad = bad
    \* MediaPlayer
    Media = {f1, u, bad}
    Streams = {u}
    Unplayable = {bad}
    Missing = {}
    NoMedia = NoMedia
    Duration <- MCDuration
    MaxQueue = 2
    MaxRecent = 2
    MaxOpens = 2
    \* ChatTimeline
    Files = {f1, f2}
    NoFile = NoFile
    MaxLines = 3
    MaxShares = 2
    MaxEvents = 6
    \* MainWindow
    Urls = {u1, u2}
    NoUrl = NoUrl
    Options = {c1, c2}
    \* Settings
    Values = {v0, v1}
    Default = v0
    NotUtf8 = notutf8
    \* DriftCorrection
    Offsets <- MCOffsets
    Errors <- MCErrors
    MaxActs = 1
    \* WindowFrame
    WindowSizes = {"small", "large"}
    MaxKeys = 4
    \* WindowMessages
    Processes = {p1, p2, p3}
    NoProcess = NoProcess
    Drops = {d1, d2}
    MaxArrivals = 3
\* Commands, events and keys are bounded, so each part may come to rest.
CHECK_DEADLOCK FALSE
SPECIFICATION Spec
INVARIANTS
    TimelineIsTrue TransferHasOneLine ControlsAreTrue WindowComesBack
PROPERTIES
    MpvIsFollowed RowLandsWhereDropped NothingOpensUnasked SettingsAreKept
    DriftIsCorrected FrameObeys FilesAreOpenedOnce
