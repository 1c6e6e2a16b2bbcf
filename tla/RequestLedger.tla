----------------------------- MODULE RequestLedger -----------------------------
(***************************************************************************)
(* What the coordinator promises an account owner, without addresses,      *)
(* locks, nonces, epochs or slots.  Each account has a ledger of settled   *)
(* requests and at most one open request.  An open request is settled      *)
(* once, at the end of the ledger; it is settled with a result only if an  *)
(* attestation of that result for that very request exists; and nothing    *)
(* already in a ledger ever changes.                                       *)
(***************************************************************************)
EXTENDS Naturals, Sequences

CONSTANTS Accounts, Results

VARIABLES
    ledger,     \* ledger[a]: the outcomes of a's settled requests, in order
    open,       \* open[a]: a has a request in flight
    attested    \* the <<a, n, result>> attested for a's n-th request

ledgerVars == <<ledger, open, attested>>

Granted(result) == [outcome |-> "finalized", result |-> result]
Abandoned == {[outcome |-> "cancelled"], [outcome |-> "expired"]}

Init ==
    /\ ledger = [a \in Accounts |-> << >>]
    /\ open = [a \in Accounts |-> FALSE]
    /\ attested = {}

\* Attestations may come early: whoever knows what will be asked can attest the
\* answer before the request is opened.
Open(a) ==
    /\ ~open[a]
    /\ open' = [open EXCEPT ![a] = TRUE]
    /\ \E early \in SUBSET Results :
           attested' = attested \cup {<<a, Len(ledger[a]) + 1, result>> : result \in early}
    /\ UNCHANGED ledger

\* They may come late: for a request that is already settled.
Attest(a, n, result) ==
    /\ n \in 1 .. Len(ledger[a]) + (IF open[a] THEN 1 ELSE 0)
    /\ attested' = attested \cup {<<a, n, result>>}
    /\ UNCHANGED <<ledger, open>>

Close(a, outcome) ==
    /\ open[a]
    /\ open' = [open EXCEPT ![a] = FALSE]
    /\ ledger' = [ledger EXCEPT ![a] = Append(@, outcome)]
    /\ UNCHANGED attested

Grant(a, result) ==
    /\ <<a, Len(ledger[a]) + 1, result>> \in attested
    /\ Close(a, Granted(result))

Abandon(a) == \E outcome \in Abandoned : Close(a, outcome)

Next ==
    \E a \in Accounts :
        \/ Open(a)
        \/ \E result \in Results :
               \/ Grant(a, result)
               \/ \E n \in 1 .. Len(ledger[a]) + 1 : Attest(a, n, result)
        \/ Abandon(a)

Spec == Init /\ [][Next]_ledgerVars

=============================================================================
