SPECIFICATION Spec
CONSTANTS
  Cloud = Cloud
  Usb = Usb
  Lan = {lan0, lan1}
  NoOwner = NoOwner
  Images = {a}
  Junk = Junk
  Size = 2
  Kinds = {"firmware", "bridge"}
  Installable = {a}
  Required = FALSE
  Takeover = 1
  StageIdle = 1
  VerifiedHold = 2
  Nothing = Nothing
INVARIANTS TypeOK UpdateSound
PROPERTIES SessionProtected NotBusyForever
