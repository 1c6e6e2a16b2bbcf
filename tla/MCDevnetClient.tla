----------------------------- MODULE MCDevnetClient -----------------------------
(* DevnetClient for TLC: processes, operators and hashes are interchangeable. *)
EXTENDS DevnetClient, TLC

Symmetry ==
    Permutations(Procs) \cup Permutations(Operators) \cup Permutations(ResultHashes)
        \cup Permutations(InputHashes)

\* What demo works on: submit creates no request at an address of nonce 0, so a
\* binding with one stands for any that is not of this chain.
DemoRequest ==
    LET hash == CHOOSE h \in InputHashes : TRUE
        a == CHOOSE b \in Accounts : TRUE
    IN
    {[ request_pda |-> <<a, 0>>, mint |-> a[1], confidential_account |-> a,
       balance_hash |-> hash, amount_hash |-> hash, limit_hash |-> hash,
       params_hash |-> hash, state_version |-> 0, request_nonce |-> 1,
       key_version |-> 1, operator_epoch |-> 1, expiry_slot |-> U64Max ]}

=============================================================================
