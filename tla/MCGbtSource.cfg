SPECIFICATION Spec
CONSTANTS
  Tips = {t1, t2}
  Shapes = {"full", "nocoinbase", "commitment", "badbody", "noprev", "badhead"}
  Stalls = TRUE
  AllowSynth = TRUE
  NoTip = NoTip
  MaxChanges = 2
INVARIANTS CacheMatchesJob PolledTipHasJobUnlessMalformed
PROPERTIES TipEventuallyMined
