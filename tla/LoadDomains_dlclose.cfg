SPECIFICATION Spec

CONSTANTS
  exe = exe
  first = first
  second = second
  plugin = plugin
  i1 = i1
  i2 = i2
  ip = ip
  x0 = x0
  xp = xp
  Exe = exe
  Linked <- TwoLinked
  Plugins <- OnePlugin
  InitCallbacks <- ThreeInits
  ExitCallbacks <- TwoExits
  NoCallback = NoCallback
  Owner <- Owners
  Priority <- Priorities

INVARIANT
  CallbackMapped
