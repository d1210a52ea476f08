-------------------------- MODULE MCWalletService --------------------------
(* A small instance of WalletService.                                      *)
EXTENDS WalletService, TLC

Symmetry == Permutations(Passphrases)

\* Complete and truncated files.
AnyFile == [key : Passphrases, records : {Records}, ended : BOOLEAN]
=============================================================================
