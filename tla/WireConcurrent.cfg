\* Two positions of a batch_hover are asked for at the same time.
SPECIFICATION Spec
CONSTANTS
  Writers = {h1, h2}
  MaxFrames = 1
INVARIANT FramesWhole
\* Every goroutine has returned.
CHECK_DEADLOCK FALSE
