SPECIFICATION Spec
CONSTANTS
  Worker = {w1, w2}
  Captcha = {c1, c2}
  Step = {1, 2}
  NoUser = nouser
  NoFactor = nofactor
  NoCode = nocode
  NoCaptcha = nocaptcha
  MaxRequests = 3
SYMMETRY MCSymmetry
INVARIANTS TypeOK Lasting CaptchaOnce StepOnce HumanFirst
PROPERTIES CodesExpire
CHECK_DEADLOCK FALSE
