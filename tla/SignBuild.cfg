SPECIFICATION Spec
CONSTANTS
  MaxEdits = 2
  MaxSegments = 2
INVARIANTS TypeOK SignatureMatches OneSignature StampedIsSigned StampedIsCurrent
