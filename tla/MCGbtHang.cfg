SPECIFICATION Spec
CONSTANTS
  Tips = {t1, t2}
  Shapes = {"full", "nocoinbase", "commitment", "badbody", "noprev"}
  Stalls = TRUE
  AllowSynth = TRUE
  NoTip = NoTip
  MaxChanges = 1
PROPERTY PollsAgain
