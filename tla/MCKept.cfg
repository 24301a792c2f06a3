SPECIFICATION MCSpec
CONSTANTS
  Cmd = {c1, c2}
  MaxVer = 2
  MaxEpoch = 1
  MaxFail = 1
  Off = Off
  None = None
  Plugin = {p1}
  Key = {k1}
  Installer = {i1}
  Secret = {e1, e2}
  Value = {v1, v2}
  Pass = {w1, w2}
  Client = {b1, b2}
  MaxTokens = 3
  Syncer = {s1, s2}
  MaxVersion = 3
  Updater = {u1, u2}
SYMMETRY Symmetry
INVARIANTS
  SavedStaysSaved
  CleanMeansSaved
  ExportHasEarlierChanges
  EnabledByUser
  SecretsKept
  SyncedMeansPushed
  ExecutableKept
CHECK_DEADLOCK FALSE
