SPECIFICATION Spec
CONSTANTS
  Channels = {c1, c2, c3}
  Devices = {tty, plain}
  Ttys = {tty}
  Bauds = {115200, 100}
  MaxFds = 2
  None = None
  ReadSize = 1
  RxSize = 2
  MaxOps <- FewOps
SYMMETRY Alike
INVARIANT TypeOK
INVARIANT DescriptorsAreOwned
INVARIANT ReadsWhatItSetUp
CHECK_DEADLOCK FALSE
