CONSTANTS
    SIGN_LEN = 64
    MaxSigns = 2
    Ids <- MCIds
    Rounds <- MCRounds
    Keys <- MCKeys
    Payloads <- MCPayloads
    Sigs <- MCSigs
    RawFrames <- MCRawFrames
SPECIFICATION Spec
INVARIANT MalformedFrameDropped
\* A dispatcher whose main-loop task panicked (sequencer.rs 330) serves no
\* further frame: the connection really stops there.
CHECK_DEADLOCK FALSE
