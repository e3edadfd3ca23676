SPECIFICATION Spec
CONSTANTS
  left = left
  right = right
  mute = mute
  keyboard = keyboard
  None = None
  Ports = {p1, p2}
  Devices = {left, right, mute, keyboard}
  Blinks = {left, right, mute}
  Serial <- Serials
  PathMax = 3
  Millis = {0, 1000, 2550, 65535}
  Levels = {0, 25, 255}
INVARIANTS
  TypeOK
  OpenedIsBlink
  OpenedIsFirst
  FadeTimeNear
