SPECIFICATION Spec
CONSTANTS
  Tips = {t1, t2}
  Shapes = {"full", "nocoinbase", "commitment", "badbody", "noprev", "badhead"}
  Stalls = FALSE
  AllowSynth = TRUE
  NoTip = NoTip
  MaxChanges = 3
INVARIANT PolledTipHasJob
