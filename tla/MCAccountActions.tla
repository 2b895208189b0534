-------------------------- MODULE MCAccountActions --------------------------
(* Instances of AccountActions for TLC; workers and captchas are alike.       *)
EXTENDS AccountActions, TLC

MCSymmetry == Permutations(Worker) \cup Permutations(Captcha)
=============================================================================
