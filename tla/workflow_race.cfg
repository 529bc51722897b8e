SPECIFICATION Spec
CONSTANTS
  MinLength <- MCMinLength
  MaxLength <- MCRoomyMaxLength
  LabelLength <- MCLabelLength
  Incidents = {i1}
  Workers = {w1, w2}
  Requests = {r1, r2}
  Severities <- MCOneSeverity
  Texts <- MCOneText
  NoRow = NoRow
  Idle = Idle
PROPERTY
  ClosedIsTerminal
