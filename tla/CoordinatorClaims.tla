--------------------------- MODULE CoordinatorClaims ---------------------------
(***************************************************************************)
(* A statement of the repository's documentation about pending requests    *)
(* that the program does not keep.  It needs to remember which requests    *)
(* were in flight when the key version changed.                            *)
(***************************************************************************)
EXTENDS Coordinator

VARIABLE rekeyed   \* history: requests pending while their key version changed

claimVars == <<vars, rekeyed>>

ClaimInit == Init /\ rekeyed = {}

ClaimNext ==
    /\ Next
    /\ rekeyed' = rekeyed \cup
           {r \in RequestKeys :
               /\ Pending(r)
               /\ config'[request[r].mint].key_version
                      # config[request[r].mint].key_version}

ClaimSpec == ClaimInit /\ [][ClaimNext]_claimVars

(***************************************************************************)
(* README.md: "finalize requires unchanged bound state version, nonce, key *)
(* version, and operator epoch"; security mapping, operator / key          *)
(* rotation: "After set_key_version, pending finalize ... fail closed".    *)
(* finalize compares versions, and set_key_version may write an old one.   *)
(***************************************************************************)
RekeyedRequestNeverFinalized ==
    \A r \in rekeyed : ~Finalized(r)

=============================================================================
