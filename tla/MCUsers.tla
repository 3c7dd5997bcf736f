------------------------------ MODULE MCUsers ------------------------------
(***************************************************************************)
(* Accounts with two users, two devices and two requests at a time.  The   *)
(* two spellings of the e-mail address differ in case.  Tokens are signed  *)
(* in the seconds 0 and 1 and live for two, so that one is replaced before *)
(* it expires, and has expired in second 2.  One change of a profile,      *)
(* after an administrator was made, reaches another account, or takes the  *)
(* role away.                                                              *)
(***************************************************************************)
EXTENDS Accounts, TLC

CONSTANTS u1, u2, d1, d2, s1, s2, r1, r2, low, up, n1, n2

MCUserSet == {u1, u2}
MCEmails == {low, up}
MCFolded == [e \in MCEmails |-> "address"]
MCNames == {n1, n2}
MCDevices == {d1, d2}
MCSessions == {s1, s2}
MCRequests == {r1, r2}

\* Nothing tells the elements of these sets apart.
MCSymmetry ==
  UNION {Permutations(MCUserSet), Permutations(MCEmails), Permutations(MCNames),
         Permutations(MCDevices), Permutations(MCSessions),
         Permutations(MCRequests)}

============================================================================
