\* Two accounts in two tabs of one browser, with lost messages and late answers.
SPECIFICATION AuthSpec
CONSTANTS
  ann = ann
  bob = bob
  t1 = t1
  t2 = t2
  None = None
  Late = Late
  Users = {ann, bob}
  Tabs = {t1, t2}
  MaxVersion = 1
  MaxIssued = 2
  MaxActs = 3
SYMMETRY AuthSymmetry
INVARIANTS
  LiveSessionsProvedThePassword
  RequestsRunAsTheirUser
  SignedOutOnlyWhenOver
PROPERTIES
  LateRefreshCannotUndoLogout
CHECK_DEADLOCK FALSE
