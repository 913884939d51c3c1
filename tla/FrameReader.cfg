\* Both directions; three frames of the peer.  It may stop sending.
CONSTANTS
  ShortLen = 2
  Base = 4
  NarrowBytes = 1
  WideBytes = 2
  MaskBytes = 2
  MaxMessage = 6
  Payloads <- MCPayloads
  Controls <- MCControls
  Masks <- MCMasks
  MaxFrames = 3
SPECIFICATION Spec
CHECK_DEADLOCK FALSE
INVARIANT IInv
PROPERTY StreamSpec
