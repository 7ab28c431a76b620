---------------------------- MODULE MCMailQueue ----------------------------
(* Small instances of the mail queue for TLC; connections are alike.        *)
EXTENDS MailQueue, TLC

ConnSymmetry == Permutations(Conns)
=============================================================================
