SPECIFICATION Spec
CONSTANTS
  MinLength <- MCMinLength
  MaxLength <- MCMaxLength
  LabelLength <- MCLabelLength
  Incidents = {i1}
  Workers = {w1}
  Requests = {r1, r2}
  Severities <- MCTwoSeverities
  Texts <- MCTexts
  NoRow = NoRow
  Idle = Idle
INVARIANTS
  TypeOK
  StoredRcaPassesPolicy
  SnapshotIsFresh
PROPERTIES
  LegalMoves
  ImplementsLifecycle
SYMMETRY MCSymmetry
