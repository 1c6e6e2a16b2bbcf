------------------------ MODULE CoordinatorLedgerProofs ------------------------
(***************************************************************************)
(* Every step of the coordinator is a step of RequestLedger or changes     *)
(* nothing of it.                                                          *)
(*                                                                         *)
(* What an account's ledger is read from never changes: the requests below *)
(* its state version are settled, and the one it is locked for, if any, is *)
(* the next.  A request may be signed before it is submitted: submit then  *)
(* opens it with the results its operator has attested already.            *)
(***************************************************************************)
EXTENDS CoordinatorLedger, CoordinatorAttestationProofs, SequenceTheorems

USE U64Assumption DEF U64

Outcomes ==
    [outcome : {"finalized"}, result : ResultHashes \cup {ZeroHash}]
    \cup [outcome : Statuses]

\* The lock is for the newest request.
LockNewest ==
    \A a \in Accounts :
        account[a] # Absent /\ HasPending(a) =>
            account[a].pending_request = <<a, account[a].request_nonce>>

LInv == AInv /\ LockNewest

-----------------------------------------------------------------------------
LEMMA FunctionIsSeq ==
    ASSUME NEW S, NEW k \in Nat, NEW f \in [1 .. k -> S]
    PROVE  f \in Seq(S) /\ Len(f) = k
<1>1. f \in Seq(S)
  BY SeqDef
<1>2. DOMAIN f = 1 .. Len(f) /\ Len(f) \in Nat
  BY <1>1, LenProperties
<1> QED
  BY <1>1, <1>2

LEMMA AppendFunction ==
    ASSUME NEW S, NEW k \in Nat, NEW f \in [1 .. k -> S], NEW g \in [1 .. k + 1 -> S],
           \A i \in 1 .. k : g[i] = f[i]
    PROVE  g = Append(f, g[k + 1])
<1>1. f \in Seq(S) /\ Len(f) = k /\ g \in Seq(S) /\ Len(g) = k + 1 /\ g[k + 1] \in S
  BY FunctionIsSeq
<1> DEFINE h == Append(f, g[k + 1])
<1>2. /\ h \in Seq(S) /\ Len(h) = k + 1
      /\ \A i \in 1 .. k : h[i] = f[i]
      /\ h[k + 1] = g[k + 1]
  BY <1>1, AppendProperties
<1> HIDE DEF h
<1>3. \A i \in 1 .. Len(g) : g[i] = h[i]
  BY <1>1, <1>2
<1>4. g = h
  BY <1>1, <1>2, <1>3, SeqEqual
<1> QED
  BY <1>4 DEF h

LEMMA EmptyFunction ==
    ASSUME NEW S, NEW f \in [1 .. 0 -> S]
    PROVE  f = << >>
<1>1. f \in Seq(S) /\ Len(f) = 0
  BY FunctionIsSeq
<1> QED
  BY <1>1, EmptySeq

LEMMA OutcomeType ==
    ASSUME NEW r, request[r] \in Requests
    PROVE  Outcome(r) \in Outcomes
BY DEF Outcome, Outcomes, Requests

\* The requests below the state version, and the one after it.
LEMMA LedgerRange ==
    ASSUME LInv, NEW a \in Accounts, account[a] # Absent
    PROVE  /\ account[a] \in ConfidentialAccounts
           /\ account[a].state_version \in Nat
           /\ \A n \in 1 .. account[a].state_version :
                  /\ <<a, n>> \in RequestKeys /\ Exists(<<a, n>>)
                  /\ ~Pending(<<a, n>>)
                  /\ request[<<a, n>>] \in Requests
           /\ HasPending(a) =>
                  /\ account[a].pending_request = <<a, account[a].state_version + 1>>
                  /\ account[a].request_nonce = account[a].state_version + 1
           /\ ~HasPending(a) => account[a].request_nonce = account[a].state_version
<1> DEFINE v == account[a].state_version
           k == account[a].request_nonce
<1>1. /\ account[a] \in ConfidentialAccounts
      /\ v \in U64 /\ k \in U64
      /\ k = v + (IF HasPending(a) THEN 1 ELSE 0)
  BY AccountRead DEF LInv, AInv, EInv, IInv, NonceAccounting, ConfidentialAccounts
<1>2. HasPending(a) => account[a].pending_request = <<a, k>>
  BY DEF LInv, LockNewest
<1>3. ASSUME NEW n \in 1 .. v
      PROVE  /\ <<a, n>> \in RequestKeys /\ Exists(<<a, n>>)
             /\ ~Pending(<<a, n>>)
             /\ request[<<a, n>>] \in Requests
  <2>1. n \in U64 /\ n \in 1 .. k
    BY <1>1
  <2>2. <<a, n>> \in RequestKeys /\ Exists(<<a, n>>)
    BY <2>1 DEF RequestKeys, LInv, AInv, EInv, IInv, NonceAccounting
  <2>3. request[<<a, n>>] \in Requests
    BY <2>2, RequestRead DEF Exists, LInv, AInv, EInv, IInv
  <2>4. ~Pending(<<a, n>>)
    <3> SUFFICES ASSUME Pending(<<a, n>>) PROVE FALSE
      OBVIOUS
    <3>1. account[a].pending_request = <<a, n>>
      BY <2>2 DEF LInv, AInv, EInv, IInv, LockCoherence
    <3>2. HasPending(a)
      BY <2>2, <3>1, DefaultKeyAssumption DEF HasPending
    <3>3. n = k /\ k = v + 1
      BY <1>1, <1>2, <3>1, <3>2
    <3> QED
      BY <1>1, <3>3
  <2> QED
    BY <2>2, <2>3, <2>4
<1> QED
  BY <1>1, <1>2, <1>3

LEMMA LedgerType ==
    ASSUME LInv, NEW a \in Accounts, account[a] # Absent
    PROVE  AccountLedger(a) \in [1 .. account[a].state_version -> Outcomes]
BY LedgerRange, OutcomeType DEF AccountLedger

-----------------------------------------------------------------------------
(* What a step leaves of the ledger.                                       *)
LEMMA LedgerKept ==
    ASSUME LInv, [Next]_vars, NEW a \in Accounts, account[a] # Absent,
           account'[a] # Absent, account'[a].state_version = account[a].state_version
    PROVE  AccountLedger(a)' = AccountLedger(a)
<1>1. ASSUME NEW n \in 1 .. account[a].state_version
      PROVE  request'[<<a, n>>] = request[<<a, n>>]
  <2>1. <<a, n>> \in RequestKeys /\ Exists(<<a, n>>) /\ ~Pending(<<a, n>>)
    BY LedgerRange
  <2> QED
    BY <2>1, StepKeepsRequests DEF RequestsKept, LInv, AInv, EInv
<1>2. \A n \in 1 .. account[a].state_version : Outcome(<<a, n>>)' = Outcome(<<a, n>>)
  BY <1>1 DEF Outcome
<1> QED
  BY <1>2 DEF AccountLedger

NoneSubmitted == \A r \in RequestKeys : Exists(r)' => Exists(r)

LEMMA AttestedKept ==
    ASSUME LInv, [Next]_vars, UNCHANGED signed, NoneSubmitted
    PROVE  UNCHANGED AttestedResults
<1> SUFFICES ASSUME NEW t \in Accounts \X U64 \X ResultHashes
             PROVE  LET r == <<t[1], t[2]>> IN
                    (Exists(r)' /\ AttestationFor(r, t[3])' \in signed')
                        <=> (Exists(r) /\ AttestationFor(r, t[3]) \in signed)
  BY DEF AttestedResults
<1> DEFINE r == <<t[1], t[2]>>
<1>1. r \in RequestKeys
  BY DEF RequestKeys
<1>2. CASE Exists(r)
  <2>1. Exists(r)'
    BY <1>1, <1>2, StepKeepsRequests DEF RequestsKept, LInv, AInv, EInv
  <2>2. AttestationFor(r, t[3])' = AttestationFor(r, t[3])
    BY <1>1, <1>2, AttestationFrozen DEF LInv, AInv
  <2> QED
    BY <1>2, <2>1, <2>2
<1>3. CASE ~Exists(r)
  BY <1>1, <1>3 DEF NoneSubmitted
<1> QED
  BY <1>2, <1>3

\* A step that settles nothing and opens nothing.
LEMMA LedgerRests ==
    ASSUME UNCHANGED AttestedResults,
           \A a \in Accounts :
               /\ AccountLedger(a)' = AccountLedger(a)
               /\ LockHeld(a)' = LockHeld(a)
    PROVE  UNCHANGED Ledger!ledgerVars
BY DEF Ledger!ledgerVars

LEMMA QuietAccounts ==
    ASSUME LInv, [Next]_vars, UNCHANGED <<account, request, signed>>
    PROVE  UNCHANGED Ledger!ledgerVars
<1>1. ASSUME NEW a \in Accounts
      PROVE  AccountLedger(a)' = AccountLedger(a) /\ LockHeld(a)' = LockHeld(a)
  <2>1. LockHeld(a)' = LockHeld(a)
    BY DEF LockHeld, HasPending
  <2>2. CASE account[a] # Absent
    BY <2>1, <2>2, LedgerKept
  <2>3. CASE account[a] = Absent
    BY <2>1, <2>3 DEF AccountLedger
  <2> QED
    BY <2>2, <2>3
<1>2. NoneSubmitted
  BY DEF NoneSubmitted, Exists
<1> QED
  BY <1>1, <1>2, AttestedKept, LedgerRests

LEMMA CreateRests ==
    ASSUME LInv, [Next]_vars, NEW u \in Users, NEW m \in Mints,
           NEW balance \in InputHashes \cup {ZeroHash},
           NEW limit \in InputHashes \cup {ZeroHash},
           CreateAccount(u, m, balance, limit)
    PROVE  UNCHANGED Ledger!ledgerVars
<1>0. PICK b \in Accounts : b = <<m, u>>
  BY DEF Accounts
<1> DEFINE new == NewAccount(u, m, balance, limit)
<1>1. /\ account[b] = Absent
      /\ new \in ConfidentialAccounts
      /\ account' = [account EXCEPT ![b] = new]
      /\ UNCHANGED signed
  <2>1. TypeOK
    BY DEF LInv, AInv, EInv, IInv
  <2>2. account[b] = Absent
    BY <1>0 DEF CreateAccount
  <2> QED
    BY <1>0, <2>1, <2>2, CreateAccountEffect
<1>2. new.state_version = 0 /\ new.pending_request = DefaultKey /\ new # Absent
  BY <1>1, AbsentAssumption DEF NewAccount
<1> HIDE DEF new
<1>3. account'[b] = new /\ \A a \in Accounts \ {b} : account'[a] = account[a]
  BY <1>1 DEF LInv, AInv, EInv, IInv, TypeOK
<1>4. AccountLedger(b)' = AccountLedger(b) /\ LockHeld(b)' = LockHeld(b)
  <2>1. LockHeld(b)' = LockHeld(b)
    BY <1>1, <1>2, <1>3 DEF LockHeld, HasPending
  <2>2. AccountLedger(b) = << >>
    BY <1>1 DEF AccountLedger
  <2>3. AccountLedger(b)' = [n \in 1 .. 0 |-> Outcome(<<b, n>>)']
    BY <1>2, <1>3 DEF AccountLedger
  <2>4. AccountLedger(b)' \in [1 .. 0 -> Outcomes]
    BY <2>3
  <2>5. \A f \in [1 .. 0 -> Outcomes] : f = << >>
    BY EmptyFunction
  <2> QED
    BY <2>1, <2>2, <2>4, <2>5
<1>5. ASSUME NEW a \in Accounts \ {b}
      PROVE  AccountLedger(a)' = AccountLedger(a) /\ LockHeld(a)' = LockHeld(a)
  <2>1. LockHeld(a)' = LockHeld(a)
    BY <1>3 DEF LockHeld, HasPending
  <2>2. CASE account[a] # Absent
    BY <1>3, <2>1, <2>2, LedgerKept
  <2>3. CASE account[a] = Absent
    BY <1>3, <2>1, <2>3 DEF AccountLedger
  <2> QED
    BY <2>2, <2>3
<1>6. NoneSubmitted
  BY DEF NoneSubmitted, Exists, CreateAccount
<1> QED
  BY <1>1, <1>4, <1>5, <1>6, AttestedKept, LedgerRests

-----------------------------------------------------------------------------
(* The invariant is kept.                                                  *)
Submitted(a, n) ==
    /\ account[a] \in ConfidentialAccounts /\ account[a] # Absent
    /\ ~HasPending(a)
    /\ account' = [account EXCEPT ![a] =
           [account[a] EXCEPT !.request_nonce = n,
                              !.pending_request = <<a, n>>]]
    /\ n = account[a].request_nonce + 1
    /\ \E q : request' = [request EXCEPT ![<<a, n>>] = q]
    /\ UNCHANGED signed

LEMMA SubmitEffect ==
    ASSUME IInv, NEW u \in Users, NEW m \in Mints,
           NEW amount \in InputHashes \cup {ZeroHash},
           NEW v \in U64, NEW n \in U64, Submit(u, m, amount, v, n)
    PROVE  \E a \in Accounts : Submitted(a, n)
<1>1. PICK a \in Accounts : a = <<m, u>>
  BY DEF Accounts
<1>2. /\ account[a] # Absent /\ ~HasPending(a)
      /\ account' = [account EXCEPT ![a].request_nonce = n,
                                    ![a].pending_request = <<a, n>>]
      /\ n = account[a].request_nonce + 1
      /\ UNCHANGED signed
  BY <1>1 DEF Submit, AccountAdmitsSubmit
<1>3. account[a] \in ConfidentialAccounts
  BY <1>2, AccountRead DEF IInv
<1>4. account' = [account EXCEPT ![a] =
                      [account[a] EXCEPT !.request_nonce = n,
                                         !.pending_request = <<a, n>>]]
  BY <1>2 DEF IInv, TypeOK
<1>5. \E q : request' = [request EXCEPT ![<<a, n>>] = q]
  BY <1>1 DEF Submit
<1> QED
  BY <1>2, <1>3, <1>4, <1>5 DEF Submitted

\* What became of one account in a step.
LEMMA AccountStep ==
    ASSUME IInv, [Next]_vars, NEW a \in Accounts, account'[a] # Absent
    PROVE  \/ account'[a] = account[a]
           \/ account'[a].pending_request = DefaultKey
           \/ account'[a].pending_request = <<a, account'[a].request_nonce>>
<1>1. ASSUME NEW m \in Mints, NEW u \in Users,
             NEW balance \in InputHashes \cup {ZeroHash},
             NEW limit \in InputHashes \cup {ZeroHash},
             CreateAccount(u, m, balance, limit)
      PROVE  account'[a] = account[a] \/ account'[a].pending_request = DefaultKey
  <2> DEFINE new == NewAccount(u, m, balance, limit)
  <2>1. account' = [account EXCEPT ![<<m, u>>] = new]
    BY <1>1, CreateAccountEffect DEF IInv
  <2>2. new.pending_request = DefaultKey
    BY DEF NewAccount
  <2> HIDE DEF new
  <2> QED
    BY <2>1, <2>2 DEF IInv, TypeOK
<1>2. ASSUME NEW m \in Mints, NEW u \in Users,
             NEW amount \in InputHashes \cup {ZeroHash},
             NEW v \in U64, NEW n \in U64, Submit(u, m, amount, v, n)
      PROVE  \/ account'[a] = account[a]
             \/ account'[a].pending_request = <<a, account'[a].request_nonce>>
  <2>0. PICK b \in Accounts : Submitted(b, n)
    BY <1>2, SubmitEffect
  <2>1. /\ account[b] \in ConfidentialAccounts
        /\ account' = [account EXCEPT ![b] =
               [account[b] EXCEPT !.request_nonce = n,
                                  !.pending_request = <<b, n>>]]
    BY <2>0 DEF Submitted
  <2>2. \A acct \in ConfidentialAccounts : \A k, r :
            LET new == [acct EXCEPT !.request_nonce = k, !.pending_request = r] IN
            new.request_nonce = k /\ new.pending_request = r
    BY DEF ConfidentialAccounts
  <2>3. CASE a = b
    BY <2>1, <2>2, <2>3 DEF IInv, TypeOK
  <2>4. CASE a # b
    BY <2>1, <2>4 DEF IInv, TypeOK
  <2> QED
    BY <2>3, <2>4
<1>3. ASSUME NEW r \in RequestKeys, Settle(r)
      PROVE  account'[a] = account[a] \/ account'[a].pending_request = DefaultKey
  <2>1. /\ r[1] \in Accounts /\ account[r[1]] \in ConfidentialAccounts
        /\ account' = [account EXCEPT ![r[1]] = ReleaseAccountLock(r[1])]
    BY <1>3, SettleEffect DEF IInv
  <2>2. ReleaseAccountLock(r[1]).pending_request = DefaultKey
    BY <2>1 DEF ReleaseAccountLock, ConfidentialAccounts
  <2> QED
    BY <2>1, <2>2 DEF IInv, TypeOK
<1>4. CASE \/ \E m \in Mints : Administer(m)
           \/ \E op \in Operators, binding \in FilesAtHand, hash \in ResultHashes :
                  ProcessRequest(op, binding, hash)
           \/ Tick
           \/ UNCHANGED vars
  BY <1>4, AdministerEffect DEF IInv, ProcessRequest, Tick, vars
<1> QED
  BY <1>1, <1>2, <1>3, <1>4 DEF Next, Use

LEMMA NextLockNewest ==
    ASSUME LInv, [Next]_vars
    PROVE  LockNewest'
BY AccountStep DEF LockNewest, HasPending, LInv, AInv, EInv

\* Only ProcessRequest adds to signed.
LEMMA SignedStep ==
    ASSUME [Next]_vars
    PROVE  \/ UNCHANGED signed
           \/ \E op \in Operators, binding \in FilesAtHand, hash \in ResultHashes :
                  ProcessRequest(op, binding, hash)
<1>1. ASSUME NEW m \in Mints, Administer(m) \/ Use(m)
      PROVE  UNCHANGED signed
  BY <1>1, ZenonT(60) DEF Administer, InitializeConfig, SetPaused, RotateOperator,
              SetKeyVersion, Use, CreateAccount, Submit
<1>2. ASSUME NEW r \in RequestKeys, Settle(r)
      PROVE  UNCHANGED signed
  BY <1>2 DEF Settle, Cancel, Expire, Finalize, ReleaseLock
<1> QED
  BY <1>1, <1>2 DEF Next, Tick, vars

LEMMA InitLInv == Init => LInv
BY InitAInv DEF Init, LInv, LockNewest

LEMMA NextLInv == LInv /\ [Next]_vars => LInv'
BY NextAInv, NextLockNewest DEF LInv

-----------------------------------------------------------------------------
(* The steps of the ledger.                                                *)
LEMMA SubmitOpens ==
    ASSUME LInv, [Next]_vars, NEW u \in Users, NEW m \in Mints,
           NEW amount \in InputHashes \cup {ZeroHash},
           NEW v \in U64, NEW n \in U64, Submit(u, m, amount, v, n)
    PROVE  \E a \in Accounts : Ledger!Open(a)
<1>0. PICK a \in Accounts : Submitted(a, n)
  BY SubmitEffect DEF LInv, AInv, EInv
<1>1. /\ account[a] \in ConfidentialAccounts /\ account[a] # Absent
      /\ ~HasPending(a)
      /\ account' = [account EXCEPT ![a] =
             [account[a] EXCEPT !.request_nonce = n, !.pending_request = <<a, n>>]]
      /\ n = account[a].request_nonce + 1
      /\ \E q : request' = [request EXCEPT ![<<a, n>>] = q]
      /\ UNCHANGED signed
  BY <1>0 DEF Submitted
<1> DEFINE new == [account[a] EXCEPT !.request_nonce = n, !.pending_request = <<a, n>>]
<1>2. /\ new \in ConfidentialAccounts
      /\ new.state_version = account[a].state_version
      /\ new.pending_request = <<a, n>>
      /\ new.request_nonce = n
  BY <1>1 DEF ConfidentialAccounts, RequestKeys
<1>3. account' = [account EXCEPT ![a] = new]
  BY <1>1
<1> HIDE DEF new
<1>4. account'[a] = new /\ \A b \in Accounts \ {a} : account'[b] = account[b]
  BY <1>3 DEF LInv, AInv, EInv, IInv, TypeOK
<1>5. account'[a] # Absent /\ account'[a].pending_request # DefaultKey
  BY <1>2, <1>4, AbsentAssumption, DefaultKeyAssumption DEF RequestKeys
<1>6. LockHeld(a) = FALSE /\ LockHeld(a)' = TRUE
  BY <1>1, <1>5 DEF LockHeld, HasPending
<1>7. \A b \in Accounts \ {a} : LockHeld(b)' = LockHeld(b)
  BY <1>4 DEF LockHeld, HasPending
<1>8. ASSUME NEW b \in Accounts
      PROVE  AccountLedger(b)' = AccountLedger(b)
  <2>1. account'[b] = Absent <=> account[b] = Absent
    BY <1>1, <1>4, <1>5
  <2>2. CASE account[b] # Absent
    <3>1. account'[b].state_version = account[b].state_version
      BY <1>2, <1>4
    <3> QED
      BY <2>1, <2>2, <3>1, LedgerKept
  <2>3. CASE account[b] = Absent
    BY <2>1, <2>3 DEF AccountLedger
  <2> QED
    BY <2>2, <2>3
<1> DEFINE r == <<a, n>>
           early == {hash \in ResultHashes : AttestationFor(r, hash)' \in signed}
<1>9. /\ r \in RequestKeys /\ ~Exists(r) /\ Exists(r)'
      /\ \A s \in RequestKeys \ {r} : Exists(s)' => Exists(s)
  <2>1. r \in RequestKeys /\ n \in Nat /\ n \notin 1 .. account[a].request_nonce
    BY <1>1 DEF RequestKeys, ConfidentialAccounts
  <2>2. ~Exists(r)
    BY <1>1, <2>1 DEF LInv, AInv, EInv, IInv, NonceAccounting
  <2>3. account'[a].request_nonce = n
    BY <1>2, <1>4
  <2>4. NonceAccounting'
    BY NextIInv DEF LInv, AInv, EInv, IInv
  <2>5. n \in 1 .. account'[a].request_nonce
    BY <1>1, <2>1, <2>3 DEF ConfidentialAccounts
  <2>6. Exists(r)'
    BY <1>5, <2>4, <2>5 DEF NonceAccounting
  <2>7. \A s \in RequestKeys \ {r} : request'[s] = request[s]
    BY <1>1, <2>1 DEF LInv, AInv, EInv, IInv, TypeOK
  <2> QED
    BY <2>1, <2>2, <2>6, <2>7 DEF Exists
<1>10. AttestedResults' = AttestedResults \cup {<<a, n, hash>> : hash \in early}
  <2> DEFINE Counts(t) == /\ Exists(<<t[1], t[2]>>)
                          /\ AttestationFor(<<t[1], t[2]>>, t[3]) \in signed
  <2>1. ASSUME NEW t \in Accounts \X U64 \X ResultHashes, <<t[1], t[2]>> # r
        PROVE  Counts(t)' <=> Counts(t)
    <3> DEFINE s == <<t[1], t[2]>>
    <3>1. s \in RequestKeys
      BY DEF RequestKeys
    <3>2. CASE Exists(s)
      <4>1. Exists(s)'
        BY <3>1, <3>2, StepKeepsRequests DEF RequestsKept, LInv, AInv, EInv
      <4>2. AttestationFor(s, t[3])' = AttestationFor(s, t[3])
        BY <3>1, <3>2, AttestationFrozen DEF LInv, AInv
      <4> QED
        BY <1>1, <3>2, <4>1, <4>2
    <3>3. CASE ~Exists(s)
      BY <1>9, <2>1, <3>1, <3>3
    <3> QED
      BY <3>2, <3>3
  <2>2. ASSUME NEW hash \in ResultHashes
        PROVE  /\ Counts(<<a, n, hash>>)' <=> hash \in early
               /\ ~Counts(<<a, n, hash>>)
    BY <1>1, <1>9
  <2>3. \A t \in Accounts \X U64 \X ResultHashes :
            <<t[1], t[2]>> = r <=> \E hash \in ResultHashes : t = <<a, n, hash>>
    OBVIOUS
  <2>4. /\ AttestedResults = {t \in Accounts \X U64 \X ResultHashes : Counts(t)}
        /\ AttestedResults' = {t \in Accounts \X U64 \X ResultHashes : Counts(t)'}
    BY DEF AttestedResults
  <2>5. {<<a, n, hash>> : hash \in early} \subseteq Accounts \X U64 \X ResultHashes
    OBVIOUS
  <2> HIDE DEF Counts, early, r
  <2>6. ASSUME NEW t \in Accounts \X U64 \X ResultHashes
        PROVE  Counts(t)' <=> Counts(t) \/ \E hash \in early : t = <<a, n, hash>>
    <3>1. CASE <<t[1], t[2]>> = r
      <4>1. PICK hash \in ResultHashes : t = <<a, n, hash>>
        BY <2>3, <3>1
      <4> QED
        BY <2>2, <4>1
    <3>2. CASE <<t[1], t[2]>> # r
      <4>1. ~\E hash \in early : t = <<a, n, hash>>
        BY <2>3, <3>2 DEF early
      <4> QED
        BY <2>1, <3>2, <4>1
    <3> QED
      BY <3>1, <3>2
  <2> QED
    BY <2>4, <2>5, <2>6
<1>11. Len(AccountLedger(a)) + 1 = n
  <2>1. Len(AccountLedger(a)) = account[a].state_version
    BY <1>1, LedgerType, LedgerRange, FunctionIsSeq
  <2> QED
    BY <1>1, <2>1, LedgerRange
<1>12. Ledger!Open(a)
  <2>1. early \in SUBSET ResultHashes
    OBVIOUS
  <2> HIDE DEF early, r
  <2>2. \E some \in SUBSET ResultHashes :
            AttestedResults' = AttestedResults
                \cup {<<a, Len(AccountLedger(a)) + 1, hash>> : hash \in some}
    BY <1>10, <1>11, <2>1
  <2>3. ~[b \in Accounts |-> LockHeld(b)][a]
    BY <1>1, <1>6
  <2>4. [b \in Accounts |-> LockHeld(b)]'
            = [[b \in Accounts |-> LockHeld(b)] EXCEPT ![a] = TRUE]
    BY <1>1, <1>6, <1>7
  <2>5. UNCHANGED [b \in Accounts |-> AccountLedger(b)]
    BY <1>8
  <2>6. [b \in Accounts |-> AccountLedger(b)][a] = AccountLedger(a)
    BY <1>1
  <2>7. \E some \in SUBSET ResultHashes :
            AttestedResults' = AttestedResults
                \cup {<<a, Len([b \in Accounts |-> AccountLedger(b)][a]) + 1, hash>> :
                          hash \in some}
    BY <2>2, <2>6
  <2> QED
    BY <2>3, <2>4, <2>5, <2>7, Zenon DEF Ledger!Open
<1> QED
  BY <1>12

\* What a settlement does, whichever it is.
LEMMA SettleCloses ==
    ASSUME LInv, [Next]_vars, NEW r \in RequestKeys, Settle(r),
           NEW outcome, outcome = Outcome(r)'
    PROVE  /\ r[1] \in Accounts
           /\ Ledger!Close(r[1], outcome)
           /\ r[2] = Len(AccountLedger(r[1])) + 1
<1>1. PICK a \in Accounts, k \in U64 : r = <<a, k>> /\ a = r[1] /\ k = r[2]
  BY DEF RequestKeys
<1>2. /\ Located(r) /\ RequirePendingLock(r)
      /\ account[a] \in ConfidentialAccounts
      /\ account' = [account EXCEPT ![a] = ReleaseAccountLock(a)]
      /\ UNCHANGED signed
  BY <1>1, SettleEffect DEF LInv, AInv, EInv, IInv
<1>3. account[a] # Absent /\ HasPending(a) /\ account[a].pending_request = r
  BY <1>1, <1>2 DEF Located, RequirePendingLock
<1> DEFINE v == account[a].state_version
           new == ReleaseAccountLock(a)
<1>4. v \in Nat /\ k = v + 1
  BY <1>1, <1>3, LedgerRange
<1>5. /\ account'[a] = new
      /\ new.state_version = v + 1 /\ new.pending_request = DefaultKey
      /\ \A b \in Accounts \ {a} : account'[b] = account[b]
  BY <1>2 DEF ReleaseAccountLock, ConfidentialAccounts, LInv, AInv, EInv, IInv, TypeOK
<1>6. account'[a] # Absent
  BY <1>3, StepKeepsAccounts DEF AccountsKept, LInv, AInv, EInv
<1> HIDE DEF v, new
<1>7. LockHeld(a) = TRUE /\ LockHeld(a)' = FALSE
  BY <1>3, <1>5 DEF LockHeld, HasPending
<1>8. ASSUME NEW b \in Accounts \ {a}
      PROVE  LockHeld(b)' = LockHeld(b) /\ AccountLedger(b)' = AccountLedger(b)
  <2>1. LockHeld(b)' = LockHeld(b)
    BY <1>5 DEF LockHeld, HasPending
  <2>2. CASE account[b] # Absent
    BY <1>5, <2>1, <2>2, LedgerKept
  <2>3. CASE account[b] = Absent
    BY <1>5, <2>1, <2>3 DEF AccountLedger
  <2> QED
    BY <2>2, <2>3
<1>9. AccountLedger(a)' = Append(AccountLedger(a), Outcome(r)')
      /\ Len(AccountLedger(a)) = v
  <2>1. AccountLedger(a) \in [1 .. v -> Outcomes]
    BY <1>3, LedgerType DEF v
  <2>2. ASSUME NEW i \in 1 .. v
        PROVE  /\ Outcome(<<a, i>>)' = AccountLedger(a)[i]
               /\ AccountLedger(a)[i] \in Outcomes
    <3>1. <<a, i>> \in RequestKeys /\ Exists(<<a, i>>) /\ ~Pending(<<a, i>>)
      BY <1>3, LedgerRange DEF v
    <3>2. request'[<<a, i>>] = request[<<a, i>>]
      BY <3>1, StepKeepsRequests DEF RequestsKept, LInv, AInv, EInv
    <3>3. Outcome(<<a, i>>)' = Outcome(<<a, i>>)
      BY <3>2 DEF Outcome
    <3>4. AccountLedger(a)[i] = Outcome(<<a, i>>)
      BY <1>3 DEF AccountLedger, v
    <3> QED
      BY <2>1, <3>3, <3>4
  <2>3. Outcome(r)' \in Outcomes
    <3>1. Exists(r)
      BY <1>2 DEF Located, Exists
    <3>2. request'[r] # Absent
      BY <3>1, StepKeepsRequests DEF RequestsKept, Exists, LInv, AInv, EInv
    <3>3. request'[r] \in Requests
      BY <3>2, NextIInv DEF IInv, TypeOK, LInv, AInv, EInv
    <3> QED
      BY <3>3 DEF Outcome, Outcomes, Requests
  <2>4. /\ AccountLedger(a)' \in [1 .. v + 1 -> Outcomes]
        /\ \A i \in 1 .. v : AccountLedger(a)'[i] = AccountLedger(a)[i]
        /\ AccountLedger(a)'[v + 1] = Outcome(r)'
    <3>1. AccountLedger(a)' = [i \in 1 .. v + 1 |-> Outcome(<<a, i>>)']
      BY <1>5, <1>6 DEF AccountLedger
    <3>2. \A i \in 1 .. v + 1 : i \in 1 .. v \/ i = v + 1
      BY <1>4
    <3>3. k = v + 1 /\ v + 1 \in 1 .. v + 1 /\ 1 .. v \subseteq 1 .. v + 1
      BY <1>1, <1>4
    <3>4. Outcome(<<a, k>>)' = Outcome(r)'
      BY <1>1
    <3> QED
      BY <2>2, <2>3, <3>1, <3>2, <3>3, <3>4
  <2>5. \A j \in Nat : \A f \in [1 .. j -> Outcomes], g \in [1 .. j + 1 -> Outcomes] :
            (\A i \in 1 .. j : g[i] = f[i]) => g = Append(f, g[j + 1]) /\ Len(f) = j
    BY AppendFunction, FunctionIsSeq
  <2> QED
    BY <1>4, <2>1, <2>4, <2>5
<1>10. UNCHANGED AttestedResults
  <2>1. Exists(r) /\ \E q \in Requests : request' = [request EXCEPT ![r] = q]
    BY SettleEffect, SettledType DEF Located, Exists, LInv, AInv, EInv, IInv
  <2>2. NoneSubmitted
    BY <2>1 DEF NoneSubmitted, Exists, LInv, AInv, EInv, IInv, TypeOK
  <2> QED
    BY <1>2, <2>2, AttestedKept
<1>11. Ledger!Close(a, outcome)
  BY <1>7, <1>8, <1>9, <1>10 DEF Ledger!Close
<1> QED
  BY <1>1, <1>4, <1>9, <1>11

LEMMA ReleaseAbandons ==
    ASSUME LInv, [Next]_vars, NEW r \in RequestKeys, Settle(r),
           NEW s \in {"cancelled", "expired"}, ReleaseLock(r, s)
    PROVE  \E a \in Accounts : Ledger!Abandon(a)
<1>1. request[r] \in Requests
  BY SettleEffect DEF LInv, AInv, EInv, IInv
<1>2. request'[r].status = s
  BY <1>1 DEF ReleaseLock, LInv, AInv, EInv, IInv, TypeOK, Requests
<1>3. Outcome(r)' = [outcome |-> s]
  BY <1>2 DEF Outcome
<1>4. [outcome |-> s] \in Ledger!Abandoned
  BY DEF Ledger!Abandoned
<1>5. r[1] \in Accounts /\ Ledger!Close(r[1], [outcome |-> s])
  BY <1>3, SettleCloses
<1> QED
  BY <1>3, <1>4, <1>5 DEF Ledger!Abandon

\* finalize checks that the epoch is the current one, and that the operator of
\* the current epoch has signed: so has the operator the request is bound to.
LEMMA FinalizeGrants ==
    ASSUME LInv, [Next]_vars, NEW r \in RequestKeys, NEW m \in Mints,
           NEW hash \in ResultHashes \cup {ZeroHash}, NEW kind \in ResultKinds,
           Finalize(m, r, hash, kind)
    PROVE  \E a \in Accounts : Ledger!Grant(a, hash) /\ hash \in ResultHashes
<1>1. Settle(r)
  BY DEF Settle
<1>2. /\ request[r] \in Requests /\ Exists(r)
      /\ r[1] \in Accounts /\ r[2] \in U64 /\ r = <<r[1], r[2]>>
  BY RequestRead DEF Finalize, Located, Exists, LInv, AInv, EInv, IInv
<1>3. hash \in ResultHashes /\ kind = PolicyResult
  BY DEF Finalize, RequireCtHash
<1>4. Outcome(r)' = Ledger!Granted(hash)
  <2>1. /\ request'[r].status = "finalized"
        /\ request'[r].result_hash = hash
    BY <1>2 DEF Finalize, LInv, AInv, EInv, IInv, TypeOK, Requests
  <2> QED
    BY <2>1 DEF Outcome, Ledger!Granted
<1>5. AttestationFor(r, hash) \in signed
  <2>1. /\ config[m] # Absent
        /\ [ operator |-> config[m].operator,
             message  |-> ResultBinding(r, request[r], hash, PolicyResult) ] \in signed
        /\ request[r].mint = m
        /\ request[r].operator_epoch = config[m].operator_epoch
    BY <1>3 DEF Finalize, VerifyOperatorMessage, BindingStillCurrent
  <2>2. BoundOperator(r) = config[m].operator
    BY <2>1 DEF BoundOperator, LInv, AInv, OperatorOfEpoch
  <2> QED
    BY <2>1, <2>2 DEF AttestationFor
<1>6. /\ Ledger!Close(r[1], Ledger!Granted(hash))
      /\ r[2] = Len(AccountLedger(r[1])) + 1
  BY <1>1, <1>4, SettleCloses
<1>7. <<r[1], r[2], hash>> \in AttestedResults
  BY <1>2, <1>3, <1>5 DEF AttestedResults
<1> QED
  BY <1>2, <1>3, <1>4, <1>6, <1>7 DEF Ledger!Grant

\* A signature attests a result when the operator a request is bound to makes it
\* over that request; any other signature, of a file with no request of this
\* chain in it or by another operator, attests nothing (yet).
LEMMA SignatureAttests ==
    ASSUME LInv, [Next]_vars, NEW op \in Operators, NEW binding \in FilesAtHand,
           NEW hash \in ResultHashes, ProcessRequest(op, binding, hash)
    PROVE  \/ UNCHANGED Ledger!ledgerVars
           \/ \E a \in Accounts, n \in Nat :
                  n \in 1 .. Len(AccountLedger(a)) + 1 /\ Ledger!Attest(a, n, hash)
<1> DEFINE new == [operator |-> op, message |-> SignedResult(binding, hash)]
           Attests(t) == /\ Exists(<<t[1], t[2]>>)
                         /\ AttestationFor(<<t[1], t[2]>>, t[3]) = new
<1>1. /\ signed' = signed \cup {new}
      /\ UNCHANGED <<slot, config, account, request, operatorLog>>
  BY DEF ProcessRequest
<1>2. ASSUME NEW b \in Accounts
      PROVE  AccountLedger(b)' = AccountLedger(b) /\ LockHeld(b)' = LockHeld(b)
  BY <1>1 DEF AccountLedger, Outcome, LockHeld, HasPending
<1>3. AttestedResults' =
          AttestedResults \cup {t \in Accounts \X U64 \X ResultHashes : Attests(t)}
  <2>1. ASSUME NEW r, NEW h
        PROVE  /\ Exists(r)' <=> Exists(r)
               /\ AttestationFor(r, h)' = AttestationFor(r, h)
    BY <1>1 DEF Exists, AttestationFor, BoundOperator, ResultBinding, RequestBinding
  <2> HIDE DEF new
  <2> QED
    BY <1>1, <2>1 DEF AttestedResults
<1>4. CASE \E t \in Accounts \X U64 \X ResultHashes : Attests(t)
  <2>1. PICK a \in Accounts, n \in U64, h \in ResultHashes : Attests(<<a, n, h>>)
    BY <1>4
  <2>2. ASSUME NEW t \in Accounts \X U64 \X ResultHashes, Attests(t)
        PROVE  t = <<a, n, hash>>
    <3>1. /\ AttestationFor(<<t[1], t[2]>>, t[3]) = new
          /\ AttestationFor(<<a, n>>, h) = new
      BY <2>1, <2>2
    <3>2. <<t[1], t[2]>> = <<a, n>> /\ t[3] = hash
      BY <3>1 DEF AttestationFor, ResultBinding, RequestBinding, SignedResult
    <3> QED
      BY <3>2
  <2>3. h = hash
    BY <2>1 DEF AttestationFor, ResultBinding, SignedResult
  <2>4. AttestedResults' = AttestedResults \cup {<<a, n, hash>>}
    <3> HIDE DEF Attests
    <3> QED
      BY <1>3, <2>1, <2>2, <2>3
  <2>5. n \in 1 .. Len(AccountLedger(a)) + (IF LockHeld(a) THEN 1 ELSE 0)
        /\ Len(AccountLedger(a)) \in Nat
    <3>1. account[a] # Absent /\ n \in 1 .. account[a].request_nonce
      BY <2>1 DEF LInv, AInv, EInv, IInv, NonceAccounting
    <3>2. Len(AccountLedger(a)) = account[a].state_version
      BY <3>1, LedgerType, LedgerRange, FunctionIsSeq
    <3> QED
      BY <3>1, <3>2, LedgerRange DEF LockHeld
  <2>6. Ledger!Attest(a, n, hash)
    BY <1>2, <2>4, <2>5 DEF Ledger!Attest
  <2>7. n \in Nat /\ n \in 1 .. Len(AccountLedger(a)) + 1
    BY <2>5
  <2> QED
    BY <2>6, <2>7
<1>5. CASE ~\E t \in Accounts \X U64 \X ResultHashes : Attests(t)
  <2>1. UNCHANGED AttestedResults
    BY <1>3, <1>5
  <2> QED
    BY <1>2, <2>1, LedgerRests
<1> QED
  BY <1>4, <1>5

-----------------------------------------------------------------------------
LEMMA LedgerInit == Init => Ledger!Init
<1> SUFFICES ASSUME Init PROVE Ledger!Init
  OBVIOUS
<1>1. \A a \in Accounts : AccountLedger(a) = << >> /\ LockHeld(a) = FALSE
  BY DEF Init, AccountLedger, LockHeld
<1>2. AttestedResults = {}
  BY DEF Init, AttestedResults
<1> QED
  BY <1>1, <1>2 DEF Ledger!Init

LEMMA LedgerStep == LInv /\ [Next]_vars => [Ledger!Next]_(Ledger!ledgerVars)
<1> SUFFICES ASSUME LInv, [Next]_vars
             PROVE  Ledger!Next \/ UNCHANGED Ledger!ledgerVars
  OBVIOUS
<1>1. ASSUME NEW m \in Mints, Administer(m)
      PROVE  UNCHANGED Ledger!ledgerVars
  <2>1. UNCHANGED <<account, request, signed>>
    BY <1>1, AdministerEffect DEF LInv, AInv, EInv, IInv, Administer,
       InitializeConfig, SetPaused, RotateOperator, SetKeyVersion
  <2> QED
    BY <2>1, QuietAccounts
<1>2. ASSUME NEW m \in Mints, Use(m)
      PROVE  Ledger!Next \/ UNCHANGED Ledger!ledgerVars
  BY <1>2, CreateRests, SubmitOpens DEF Use, Ledger!Next
<1>3. ASSUME NEW r \in RequestKeys, Settle(r)
      PROVE  Ledger!Next
  <2>1. CASE \E s \in {"cancelled", "expired"} : ReleaseLock(r, s)
    BY <1>3, <2>1, ReleaseAbandons DEF Ledger!Next
  <2>2. CASE \E m \in Mints, hash \in ResultHashes \cup {ZeroHash},
                kind \in ResultKinds : Finalize(m, r, hash, kind)
    BY <2>2, FinalizeGrants DEF Ledger!Next
  <2> QED
    BY <1>3, <2>1, <2>2 DEF Settle, Cancel, Expire
<1>4. ASSUME NEW op \in Operators, NEW binding \in FilesAtHand,
             NEW hash \in ResultHashes, ProcessRequest(op, binding, hash)
      PROVE  Ledger!Next \/ UNCHANGED Ledger!ledgerVars
  BY <1>4, SignatureAttests DEF Ledger!Next
<1>5. CASE Tick \/ UNCHANGED vars
  BY <1>5, QuietAccounts DEF Tick, vars
<1> QED
  BY <1>1, <1>2, <1>3, <1>4, <1>5 DEF Next

\* submit, cancel, expire and finalize, with all their addresses, nonces, locks
\* and epochs, keep the promise of RequestLedger: an account's requests are
\* settled one by one, each once and for good, and with a result only if the
\* operator the request was bound to has signed that result for it.
THEOREM CoordinatorImplementsLedger == Spec => ImplementsLedger
<1>1. Spec => []LInv
  BY InitLInv, NextLInv, PTL DEF Spec
<1> QED
  BY <1>1, LedgerInit, LedgerStep, PTL DEF Spec, ImplementsLedger, Ledger!Spec

=============================================================================
