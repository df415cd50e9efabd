\* Every cut of the bytes, both kinds of call, a peer that may close, break down, or
\* send bytes outside a frame.
CONSTANTS
    Chars = {"#", "|", "a"}
    Payloads <- SafePayloads
    Garbage <- LooseEnd
    MaxSent = 2
    BufferSize = 7
SPECIFICATION FairSpec
INVARIANTS ReceivedInOrder ReceiverSound
PROPERTIES NothingAfterMalformed BlockingReturns NonblockingReturns
