---------------------------- MODULE MCDSMSynch ----------------------------
(* DSM-Synch for TLC. The object is a bit: a request flips it and is told   *)
(* whose request it was, so a lost, repeated or misdelivered one shows.     *)
EXTENDS DSMSynch, TLC

FlipState(s, a, t) == ~s
CallerResult(s, a, t) == t

ThreadSymmetry == Permutations(Threads)
=============================================================================
