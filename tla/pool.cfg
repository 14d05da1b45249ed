SPECIFICATION Spec
CONSTANTS
  Frame = 2
  Byte = 1
  Power = {1, 2, 4, 8, 16}
  Request = {1, 2, 3, 5}
  BlockSize = {1, 3}
INVARIANTS
  BitmapShowsHeld
  CountsShowHeld
  ServesAsAsked
  WalkFindsHeld
  GrabFindsRun
\* A process that followed links nothing has set has crashed.
CHECK_DEADLOCK FALSE
