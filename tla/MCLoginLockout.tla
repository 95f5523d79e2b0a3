--------------------------- MODULE MCLoginLockout ---------------------------
(* Small instances of LoginLockout for TLC; request threads, addresses and  *)
(* account names are interchangeable.                                       *)
EXTENDS LoginLockout, TLC

Symmetry == Permutations(Handlers) \union Permutations(Ips) \union Permutations(Users)
=============================================================================
