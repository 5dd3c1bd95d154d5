SPECIFICATION Spec
CONSTANTS
    Payloads <- SomePayloads
    MaxFrames = 3
INVARIANT
    HeartbeatsIgnored
