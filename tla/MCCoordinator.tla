----------------------------- MODULE MCCoordinator -----------------------------
(***************************************************************************)
(* Coordinator for TLC.  The constants are given in the .cfg files; this   *)
(* module only names the permutations under which the model is symmetric.  *)
(* Mints, users, operators and result hashes are compared for equality and *)
(* nothing else, so any permutation of each is a symmetry.                 *)
(***************************************************************************)
EXTENDS CoordinatorLedger, TLC

Symmetry ==
    Permutations(Mints) \cup Permutations(Users)
        \cup Permutations(Operators) \cup Permutations(ResultHashes)

\* A file with the n-th request of an account, as it will be if it is submitted in
\* the given epoch and so as to expire in the given slot.
Foreseen(a, n, epoch, expiry) ==
    LET hash == CHOOSE h \in InputHashes : TRUE IN
    [ request_pda |-> <<a, n>>, mint |-> a[1], confidential_account |-> a,
      balance_hash |-> hash, amount_hash |-> hash, limit_hash |-> hash,
      params_hash |-> hash, state_version |-> n - 1, request_nonce |-> n,
      key_version |-> 1, operator_epoch |-> epoch, expiry_slot |-> expiry ]

\* The second request of each account, after a rotation.
SecondRequests == {Foreseen(a, 2, 2, 2) : a \in Accounts}

\* The first request of one of the accounts, submitted in the first slot.
FirstRequest == {Foreseen(CHOOSE a \in Accounts : TRUE, 1, 1, 1)}

=============================================================================
