SPECIFICATION Spec
CONSTANTS
  Results = {r1, r2}
  NoResult = NoResult
  GrabLoop = GrabLoop
  Interrupters = {unlock, removal}
INVARIANTS
  TypeOK
  NoLostWakeup
  PendingIsReady
PROPERTY
  ImplementsMailbox
