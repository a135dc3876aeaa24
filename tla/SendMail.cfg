SPECIFICATION Spec
CONSTANTS
  Private <- MCPrivate
  Zones <- MCZones
INVARIANTS OkIsAccepted ErrorIsNotSent EnvelopeEncrypted RightServer
CHECK_DEADLOCK FALSE
