--------------------------- MODULE CoordinatorLedger ---------------------------
(***************************************************************************)
(* The coordinator implements RequestLedger.  The ledger of an account is  *)
(* read off the request PDAs below its state version, its lock says        *)
(* whether a request is open, and a result counts as attested for a        *)
(* request when the operator of the epoch the request was submitted in     *)
(* has signed it.                                                          *)
(***************************************************************************)
EXTENDS Coordinator, Sequences

Outcome(r) ==
    IF request[r].status = "finalized"
    THEN [outcome |-> "finalized", result |-> request[r].result_hash]
    ELSE [outcome |-> request[r].status]

AccountLedger(a) ==
    IF account[a] = Absent
    THEN << >>
    ELSE [n \in 1 .. account[a].state_version |-> Outcome(<<a, n>>)]

LockHeld(a) == account[a] # Absent /\ HasPending(a)

AttestedResults ==
    {t \in Accounts \X U64 \X ResultHashes :
        /\ Exists(<<t[1], t[2]>>)
        /\ AttestationFor(<<t[1], t[2]>>, t[3]) \in signed}

Ledger == INSTANCE RequestLedger WITH
    Results  <- ResultHashes,
    ledger   <- [a \in Accounts |-> AccountLedger(a)],
    open     <- [a \in Accounts |-> LockHeld(a)],
    attested <- AttestedResults

(***************************************************************************)
(* Every run of the program is, seen through the mapping above, a run of   *)
(* the ledger: one settlement per request, in order, never rewritten, and  *)
(* with a result only when it was attested for that request.               *)
(***************************************************************************)
ImplementsLedger == Ledger!Spec

=============================================================================
