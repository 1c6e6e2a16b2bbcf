------------------------- MODULE CoordinatorStepProofs -------------------------
(***************************************************************************)
(* What no step of the coordinator may do: proofs of its action            *)
(* properties, from the inductive invariant of CoordinatorProofs.          *)
(***************************************************************************)
EXTENDS CoordinatorProofs

USE U64Assumption DEF U64

(***************************************************************************)
(* How one step may change one existing request.  Only a settlement does,  *)
(* only a pending one, and then only its status and its result.            *)
(***************************************************************************)
Untouched(r) == request'[r] = request[r]

SettledInStep(r) ==
    \E status \in Statuses \ {"pending"},
       hash \in ResultHashes \cup {ZeroHash},
       digest \in [sha256 : ResultBindings] \cup {ZeroHash} :
        request'[r] = Settled(request[r], status, hash, digest)

LEMMA RequestStep ==
    ASSUME IInv, [Next]_vars, NEW r \in RequestKeys, Exists(r)
    PROVE  \/ Untouched(r)
           \/ Settle(r) /\ Pending(r) /\ SettledInStep(r)
<1>1. CASE \E m \in Mints : Administer(m)
  BY <1>1, AdministerEffect DEF IInv, Untouched
<1>2. CASE \E m \in Mints : Use(m)
  <2>1. ASSUME NEW m \in Mints, NEW u \in Users,
               NEW balance \in InputHashes \cup {ZeroHash},
               NEW limit \in InputHashes \cup {ZeroHash},
               CreateAccount(u, m, balance, limit)
        PROVE  Untouched(r)
    BY <2>1 DEF CreateAccount, Untouched
  <2>2. ASSUME NEW m \in Mints, NEW u \in Users,
               NEW amount \in InputHashes \cup {ZeroHash},
               NEW v \in U64, NEW n \in U64, Submit(u, m, amount, v, n)
        PROVE  Untouched(r)
    <3> DEFINE s == <<<<m, u>>, n>>
               q == SealedRequest(u, m, <<m, u>>, n, amount)
    <3>1. request' = [request EXCEPT ![s] = q] /\ request[s] = Absent
      BY <2>2 DEF Submit, SealedRequest
    <3> HIDE DEF s, q
    <3> QED
      BY <3>1 DEF IInv, TypeOK, Exists, Untouched
  <2> QED
    BY <1>2, <2>1, <2>2 DEF Use
<1>3. ASSUME NEW s \in RequestKeys, Settle(s)
      PROVE  Untouched(r) \/ (Settle(r) /\ Pending(r) /\ SettledInStep(r))
  <2>1. PICK status \in Statuses \ {"pending"},
             hash \in ResultHashes \cup {ZeroHash},
             digest \in [sha256 : ResultBindings] \cup {ZeroHash} :
                 request' = [request EXCEPT ![s] =
                                 Settled(request[s], status, hash, digest)]
    BY <1>3, SettleEffect DEF IInv
  <2>2. Pending(s)
    BY <1>3, SettleEffect
       DEF IInv, Located, RequirePendingLock, Pending, HasStatus, Exists
  <2>3. CASE r = s
    BY <1>3, <2>1, <2>2, <2>3 DEF IInv, TypeOK, SettledInStep
  <2>4. CASE r # s
    BY <2>1, <2>4 DEF IInv, TypeOK, Untouched
  <2> QED
    BY <2>3, <2>4
<1>4. CASE \/ \E op \in Operators, binding \in FilesAtHand, hash \in ResultHashes :
                  ProcessRequest(op, binding, hash)
           \/ Tick
           \/ UNCHANGED vars
  BY <1>4 DEF ProcessRequest, Tick, vars, Untouched
<1> QED
  BY <1>1, <1>2, <1>3, <1>4 DEF Next

\* A request that comes to exist is pending, of the current epoch and sealed.
Sealed(r, q) == q.request_digest = Digest(RequestBinding(r, q))

LEMMA NewRequestStep ==
    ASSUME IInv, [Next]_vars, NEW r \in RequestKeys, ~Exists(r), Exists(r)'
    PROVE  /\ request'[r].status = "pending"
           /\ Sealed(r, request'[r])
           /\ \E m \in Mints :
                  /\ config[m] # Absent
                  /\ UNCHANGED config
                  /\ request'[r].mint = m
                  /\ request'[r].operator_epoch = config[m].operator_epoch
<1>1. PICK m \in Mints, u \in Users, amount \in InputHashes \cup {ZeroHash},
           v \in U64, n \in U64 : Submit(u, m, amount, v, n)
  <2>1. request' # request
    BY DEF Exists
  <2>2. ASSUME NEW m \in Mints, Administer(m) PROVE FALSE
    BY <2>1, <2>2, AdministerEffect DEF IInv
  <2>3. ASSUME NEW s \in RequestKeys, Settle(s) PROVE FALSE
    <3>1. Exists(s) /\ \E q \in Requests : request' = [request EXCEPT ![s] = q]
      BY <2>3, SettleEffect, SettledType DEF IInv, Located, Exists
    <3> QED
      BY <3>1 DEF IInv, TypeOK, Exists
  <2> QED
    BY <2>1, <2>2, <2>3
       DEF Next, Use, CreateAccount, ProcessRequest, Tick, vars
<1> DEFINE s == <<<<m, u>>, n>>
           q == SealedRequest(u, m, <<m, u>>, n, amount)
<1>2. /\ request' = [request EXCEPT ![s] = q]
      /\ UNCHANGED config
      /\ config[m] # Absent
  BY <1>1 DEF Submit, SealedRequest
<1>3. /\ q.status = "pending"
      /\ q.mint = m
      /\ q.operator_epoch = config[m].operator_epoch
  BY DEF SealedRequest, NewRequest
<1>4. Sealed(s, q)
  BY DEF Sealed, SealedRequest, NewRequest, RequestBinding
<1> HIDE DEF s, q
<1>5. request'[r] = q /\ r = s
  BY <1>2 DEF IInv, TypeOK, Exists
<1> QED
  BY <1>2, <1>3, <1>4, <1>5

LEMMA SettledFields ==
    ASSUME NEW q \in Requests, NEW status \in Statuses,
           NEW hash \in ResultHashes \cup {ZeroHash},
           NEW digest \in [sha256 : ResultBindings] \cup {ZeroHash}
    PROVE  LET s == Settled(q, status, hash, digest) IN
           /\ s # Absent
           /\ s.status = status
           /\ s.mint = q.mint
           /\ s.operator_epoch = q.operator_epoch
           /\ \A r \in RequestKeys : RequestBinding(r, s) = RequestBinding(r, q)
<1>1. Settled(q, status, hash, digest) # Absent
  BY SettledType, AbsentAssumption
<1> QED
  BY <1>1 DEF Settled, Requests, RequestBinding

(***************************************************************************)
(* What a step keeps of the records that exist: the terms of a request and *)
(* everything of a settled one, what a Config was created with, and the    *)
(* ciphertexts of an account.  A pending request changes by being settled. *)
(***************************************************************************)
RequestsKept ==
    \A r \in RequestKeys :
        Exists(r) =>
            /\ Exists(r)'
            /\ RequestBinding(r, request[r])' = RequestBinding(r, request[r])
            /\ request[r]'.request_digest = request[r].request_digest
            /\ ~Pending(r) => request'[r] = request[r]
            /\ request'[r] # request[r] => ~Pending(r)'

ConfigsKept ==
    \A m \in Mints :
        config[m] # Absent =>
            /\ config'[m] # Absent
            /\ config'[m].authority = config[m].authority
            /\ config'[m].params_hash = config[m].params_hash
            /\ config'[m].max_request_lifetime_slots =
                   config[m].max_request_lifetime_slots

AccountsKept ==
    \A a \in Accounts :
        account[a] # Absent =>
            /\ account'[a] # Absent
            /\ account'[a].balance_ref = account[a].balance_ref

LEMMA StepKeepsRequests == IInv /\ [Next]_vars => RequestsKept
<1> SUFFICES ASSUME IInv, [Next]_vars, NEW r \in RequestKeys, Exists(r)
             PROVE  /\ Exists(r)'
                    /\ RequestBinding(r, request[r])' = RequestBinding(r, request[r])
                    /\ request[r]'.request_digest = request[r].request_digest
                    /\ ~Pending(r) => request'[r] = request[r]
                    /\ request'[r] # request[r] => ~Pending(r)'
  BY DEF RequestsKept
<1>1. CASE Untouched(r)
  BY <1>1 DEF Untouched, Exists, RequestBinding
<1>2. CASE Pending(r) /\ SettledInStep(r)
  <2>1. request[r] \in Requests
    BY RequestRead DEF IInv, Exists
  <2>2. PICK status \in Statuses \ {"pending"},
             hash \in ResultHashes \cup {ZeroHash},
             digest \in [sha256 : ResultBindings] \cup {ZeroHash} :
                 request'[r] = Settled(request[r], status, hash, digest)
    BY <1>2 DEF SettledInStep
  <2>3. /\ request'[r] # Absent
        /\ request'[r].status # "pending"
        /\ RequestBinding(r, request'[r]) = RequestBinding(r, request[r])
    BY <2>1, <2>2, SettledFields
  <2>4. request'[r].request_digest = request[r].request_digest
    BY <2>1, <2>2 DEF Settled, Requests
  <2> QED
    BY <1>2, <2>3, <2>4 DEF Exists, RequestBinding, Pending, HasStatus
<1> QED
  BY <1>1, <1>2, RequestStep

\* The digest of every request is that of its own terms.
DigestsSealed == \A r \in RequestKeys : Exists(r) => Sealed(r, request[r])

LEMMA StepSeals == IInv /\ DigestsSealed /\ [Next]_vars => DigestsSealed'
<1> SUFFICES ASSUME IInv, DigestsSealed, [Next]_vars, NEW r \in RequestKeys, Exists(r)'
             PROVE  Sealed(r, request'[r])
  BY DEF DigestsSealed, Sealed
<1>1. CASE Exists(r)
  BY <1>1, StepKeepsRequests DEF RequestsKept, DigestsSealed, Sealed
<1>2. CASE ~Exists(r)
  BY <1>2, NewRequestStep
<1> QED
  BY <1>1, <1>2

LEMMA ConfigStep ==
    ASSUME [Next]_vars
    PROVE  (\E m \in Mints : Administer(m)) \/ UNCHANGED config
<1>1. ASSUME NEW r \in RequestKeys, Settle(r)
      PROVE  UNCHANGED config
  BY <1>1 DEF Settle, Cancel, Expire, Finalize
<1>2. ASSUME NEW m \in Mints, Use(m)
      PROVE  UNCHANGED config
  BY <1>2, ZenonT(60) DEF Use, CreateAccount, Submit
<1> QED
  BY <1>1, <1>2 DEF Next, ProcessRequest, Tick, vars

LEMMA StepKeepsConfigs == IInv /\ [Next]_vars => ConfigsKept
<1> SUFFICES ASSUME IInv, [Next]_vars, NEW m \in Mints, config[m] # Absent
             PROVE  /\ config'[m] # Absent
                    /\ config'[m].authority = config[m].authority
                    /\ config'[m].params_hash = config[m].params_hash
                    /\ config'[m].max_request_lifetime_slots =
                           config[m].max_request_lifetime_slots
  BY DEF ConfigsKept
<1>1. config[m] \in Configs /\ config \in [Mints -> Configs \cup {Absent}]
  BY ConfigRead DEF IInv, TypeOK
<1>2. ASSUME NEW n \in Mints, Administer(n)
      PROVE  /\ config'[m] # Absent
             /\ config'[m].authority = config[m].authority
             /\ config'[m].params_hash = config[m].params_hash
             /\ config'[m].max_request_lifetime_slots =
                    config[m].max_request_lifetime_slots
  <2>1. config'[m] # Absent
    BY <1>1, <1>2, AdministerEffect, AbsentAssumption DEF IInv
  <2>2. ASSUME NEW u \in Users, NEW op, NEW kv, NEW params, NEW life,
               InitializeConfig(u, n, op, kv, params, life)
        PROVE  config'[m] = config[m]
    BY <1>1, <2>2 DEF InitializeConfig
  <2>3. ASSUME NEW u \in Users, NEW v,
               SetPaused(u, n, v) \/ SetKeyVersion(u, n, v) \/ RotateOperator(u, n, v)
        PROVE  /\ config'[m].authority = config[m].authority
               /\ config'[m].params_hash = config[m].params_hash
               /\ config'[m].max_request_lifetime_slots =
                      config[m].max_request_lifetime_slots
    BY <1>1, <2>3 DEF SetPaused, SetKeyVersion, RotateOperator, Configs
  <2> QED
    BY <1>2, <2>1, <2>2, <2>3 DEF Administer
<1> QED
  BY <1>2, ConfigStep

\* Signatures are only ever added.
LEMMA SignedGrows ==
    ASSUME [Next]_vars
    PROVE  signed \subseteq signed'
<1>1. ASSUME NEW m \in Mints, Administer(m) \/ Use(m)
      PROVE  UNCHANGED signed
  BY <1>1, ZenonT(60) DEF Administer, InitializeConfig, SetPaused, RotateOperator,
              SetKeyVersion, Use, CreateAccount, Submit
<1>2. ASSUME NEW r \in RequestKeys, Settle(r)
      PROVE  UNCHANGED signed
  BY <1>2 DEF Settle, Cancel, Expire, Finalize
<1> QED
  BY <1>1, <1>2 DEF Next, ProcessRequest, Tick, vars

LEMMA StepKeepsAccounts == IInv /\ [Next]_vars => AccountsKept
<1> SUFFICES ASSUME IInv, [Next]_vars, NEW a \in Accounts, account[a] # Absent
             PROVE  /\ account'[a] # Absent
                    /\ account'[a].balance_ref = account[a].balance_ref
  BY DEF AccountsKept
<1>1. /\ account \in [Accounts -> ConfidentialAccounts \cup {Absent}]
      /\ account[a] \in ConfidentialAccounts
  BY AccountRead DEF IInv, TypeOK
<1>2. ASSUME NEW m \in Mints, Use(m)
      PROVE  account'[a] # Absent /\ account'[a].balance_ref = account[a].balance_ref
  <2>1. ASSUME NEW u \in Users, NEW balance, NEW limit, CreateAccount(u, m, balance, limit)
        PROVE  account'[a] = account[a]
    BY <1>1, <2>1 DEF CreateAccount
  <2>2. ASSUME NEW u \in Users, NEW amount, NEW v, NEW n \in U64, Submit(u, m, amount, v, n)
        PROVE  account'[a] # Absent /\ account'[a].balance_ref = account[a].balance_ref
    <3> DEFINE b == <<m, u>>
               acct == [account[b] EXCEPT !.request_nonce = n, !.pending_request = <<b, n>>]
    <3>1. b \in Accounts /\ account[b] \in ConfidentialAccounts
      BY <2>2, AccountRead DEF Submit, Accounts, IInv
    <3>2. account' = [account EXCEPT ![b] = acct]
      BY <1>1, <2>2, <3>1 DEF Submit
    <3>3. acct.balance_ref = account[b].balance_ref /\ acct \in ConfidentialAccounts
      BY <3>1 DEF ConfidentialAccounts, RequestKeys
    <3>4. acct # Absent
      BY <3>3, AbsentAssumption
    <3> HIDE DEF b, acct
    <3> QED
      BY <1>1, <3>1, <3>2, <3>3, <3>4
  <2> QED
    BY <1>2, <2>1, <2>2 DEF Use
<1>3. ASSUME NEW r \in RequestKeys, Settle(r)
      PROVE  account'[a] # Absent /\ account'[a].balance_ref = account[a].balance_ref
  <2>1. /\ r[1] \in Accounts
        /\ account[r[1]] \in ConfidentialAccounts
        /\ CanReleaseAccountLock(r[1])
        /\ account' = [account EXCEPT ![r[1]] = ReleaseAccountLock(r[1])]
    BY <1>3, SettleEffect DEF IInv
  <2>2. ReleaseAccountLock(r[1]) # Absent
    BY <2>1, ReleaseType, AbsentAssumption
  <2>3. ReleaseAccountLock(r[1]).balance_ref = account[r[1]].balance_ref
    BY <2>1 DEF ReleaseAccountLock, ConfidentialAccounts
  <2> QED
    BY <1>1, <2>1, <2>2, <2>3
<1>4. CASE account' = account
  BY <1>4
<1> QED
  BY <1>2, <1>3, <1>4, AdministerEffect
     DEF IInv, Next, ProcessRequest, Tick, vars

(***************************************************************************)
(* A settled request never changes again and a pending one keeps what the  *)
(* operator signs: finalize, cancel and expire only accept a pending       *)
(* request, and submit never writes to a PDA that exists.                  *)
(***************************************************************************)
THEOREM SettlementFinal == Spec => SettledIsFinal
<1> DEFINE Final(r) ==
        Exists(r) =>
            /\ Exists(r)'
            /\ RequestBinding(r, request[r])' = RequestBinding(r, request[r])
            /\ ~Pending(r) => request'[r] = request[r]
<1>1. ASSUME IInv, [Next]_vars
      PROVE  [\A r \in RequestKeys : Final(r)]_vars
  BY <1>1, StepKeepsRequests DEF RequestsKept
<1> QED
  BY <1>1, InitIInv, NextIInv, PTL DEF Spec, SettledIsFinal

-----------------------------------------------------------------------------
(***************************************************************************)
(* Epochs.  rotate_operator only ever adds to operator_epoch, so a request *)
(* is of the current epoch or of an earlier one.                           *)
(***************************************************************************)
EpochOrder ==
    \A r \in RequestKeys :
        Exists(r) =>
            /\ config[request[r].mint] # Absent
            /\ request[r].operator_epoch <= config[request[r].mint].operator_epoch

EInv == IInv /\ EpochOrder

LEMMA EpochGrows ==
    ASSUME IInv, [Next]_vars, NEW m \in Mints, config[m] # Absent
    PROVE  /\ config'[m] # Absent
           /\ config[m].operator_epoch \in Int
           /\ config'[m].operator_epoch \in Int
           /\ config[m].operator_epoch <= config'[m].operator_epoch
<1>1. config[m].operator_epoch \in Int
  BY ConfigRead DEF IInv, Configs
<1>2. CASE \E n \in Mints : Administer(n)
  <2>1. PICK n \in Mints : Administer(n)
    BY <1>2
  <2>2. CASE n # m
    BY <1>1, <2>1, <2>2, AdministerEffect DEF IInv, TypeOK
  <2>3. CASE n = m
    <3>1. config'[m] # Absent
      BY <2>1, <2>3, AdministerEffect, AbsentAssumption DEF IInv, TypeOK
    <3>2. ASSUME NEW u \in Users, NEW op \in Operators \cup {DefaultKey},
                 RotateOperator(u, m, op)
          PROVE  config'[m].operator_epoch = config[m].operator_epoch + 1
      BY <3>2, ConfigRead
         DEF RotateOperator, AdminConfig, NextEpoch, IInv, TypeOK, Configs
    <3>3. ASSUME NEW u \in Users,
                 \/ \E paused \in BOOLEAN : SetPaused(u, m, paused)
                 \/ \E kv \in KeyVersions : SetKeyVersion(u, m, kv)
          PROVE  config'[m].operator_epoch = config[m].operator_epoch
      BY <3>3, ConfigRead
         DEF SetPaused, SetKeyVersion, AdminConfig, IInv, TypeOK, Configs
    <3>4. \/ config'[m].operator_epoch = config[m].operator_epoch + 1
          \/ config'[m].operator_epoch = config[m].operator_epoch
      BY <2>1, <2>3, <3>2, <3>3 DEF Administer, InitializeConfig
    <3> QED
      BY <1>1, <3>1, <3>4
  <2> QED
    BY <2>2, <2>3
<1>3. CASE UNCHANGED config
  BY <1>1, <1>3
<1> QED
  BY <1>2, <1>3, ConfigStep

LEMMA InitEInv == Init => EInv
<1>1. Init => EpochOrder
  BY DEF Init, EpochOrder, Exists
<1> QED
  BY <1>1, InitIInv DEF EInv

LEMMA NextEInv == EInv /\ [Next]_vars => EInv'
<1> SUFFICES ASSUME EInv, [Next]_vars PROVE EInv'
  OBVIOUS
<1>1. IInv'
  BY NextIInv DEF EInv
<1>2. ASSUME NEW r \in RequestKeys, Exists(r)
      PROVE  /\ config'[request'[r].mint] # Absent
             /\ request'[r].operator_epoch
                    <= config'[request'[r].mint].operator_epoch
  <2>1. /\ request[r] \in Requests
        /\ config[request[r].mint] # Absent
        /\ request[r].operator_epoch
               <= config[request[r].mint].operator_epoch
    BY <1>2, RequestRead DEF EInv, IInv, EpochOrder, Exists
  <2>2. /\ request[r].mint \in Mints
        /\ request[r].operator_epoch \in Int
    BY <2>1 DEF Requests
  <2>3. /\ request'[r].mint = request[r].mint
        /\ request'[r].operator_epoch = request[r].operator_epoch
    BY <1>2, <2>1, RequestStep, SettledFields
       DEF EInv, Untouched, SettledInStep
  <2> QED
    BY <2>1, <2>2, <2>3, EpochGrows DEF EInv
<1>3. ASSUME NEW r \in RequestKeys, ~Exists(r), Exists(r)'
      PROVE  /\ config'[request'[r].mint] # Absent
             /\ request'[r].operator_epoch
                    <= config'[request'[r].mint].operator_epoch
  <2>1. PICK m \in Mints :
            /\ config[m] # Absent
            /\ UNCHANGED config
            /\ request'[r].mint = m
            /\ request'[r].operator_epoch = config[m].operator_epoch
    BY <1>3, NewRequestStep DEF EInv
  <2>2. config[m].operator_epoch \in Int
    BY <2>1, ConfigRead DEF EInv, IInv, Configs
  <2> QED
    BY <2>1, <2>2
<1>4. EpochOrder'
  BY <1>2, <1>3 DEF EpochOrder, Exists
<1> QED
  BY <1>1, <1>4 DEF EInv

(***************************************************************************)
(* After rotate_operator no request of an earlier epoch can be finalized   *)
(* any more, whoever signs it and also when an earlier operator returns:   *)
(* its epoch is below the Config's and stays there.                        *)
(***************************************************************************)
THEOREM RotationIsRevocation == Spec => RotationRevokes
<1>1. ASSUME EInv, [Next]_vars, NEW r \in RequestKeys, StaleEpoch(r)
      PROVE  \/ StaleEpoch(r)'
             \/ HasStatus(r, "cancelled")'
             \/ HasStatus(r, "expired")'
  <2>1. /\ Exists(r)
        /\ request[r] \in Requests
        /\ request[r].mint \in Mints
        /\ request[r].operator_epoch \in Int
        /\ config[request[r].mint] # Absent
        /\ request[r].operator_epoch < config[request[r].mint].operator_epoch
    <3>1. Exists(r) /\ request[r] \in Requests
      BY <1>1, RequestRead
         DEF EInv, IInv, StaleEpoch, Pending, HasStatus, Exists
    <3>2. config[request[r].mint] # Absent
      BY <1>1, <3>1 DEF EInv, EpochOrder
    <3>3. request[r].mint \in Mints /\ request[r].operator_epoch \in Int
      BY <3>1 DEF Requests
    <3>4. config[request[r].mint].operator_epoch \in Int
      BY <1>1, <3>2, <3>3, EpochGrows DEF EInv
    <3> QED
      BY <1>1, <3>1, <3>2, <3>3, <3>4 DEF EInv, EpochOrder, StaleEpoch
  <2>2. /\ config'[request[r].mint].operator_epoch \in Int
        /\ request[r].operator_epoch < config'[request[r].mint].operator_epoch
    BY <1>1, <2>1, EpochGrows DEF EInv
  <2>3. CASE Untouched(r)
    BY <1>1, <2>1, <2>2, <2>3
       DEF Untouched, StaleEpoch, Pending, HasStatus, Exists
  <2>4. CASE Settle(r) /\ Pending(r) /\ SettledInStep(r)
    <3>1. ASSUME NEW m \in Mints, NEW hash \in ResultHashes \cup {ZeroHash},
                 NEW kind \in ResultKinds
          PROVE  ~Finalize(m, r, hash, kind)
      BY <2>1 DEF Finalize, BindingStillCurrent
    <3>2. PICK s \in {"cancelled", "expired"} : ReleaseLock(r, s)
      BY <2>4, <3>1 DEF Settle, Cancel, Expire
    <3>3. request'[r].status = s
      BY <1>1, <2>1, <3>2 DEF ReleaseLock, EInv, IInv, TypeOK, Requests
    <3>4. request'[r] # Absent
      BY <2>1, <2>4, SettledFields DEF SettledInStep
    <3> QED
      BY <3>2, <3>3, <3>4 DEF HasStatus, Exists
  <2> QED
    BY <1>1, <2>1, <2>3, <2>4, RequestStep DEF EInv
<1>2. ASSUME EInv, [Next]_vars
      PROVE  [\A r \in RequestKeys :
                 StaleEpoch(r) => \/ StaleEpoch(r)'
                                  \/ HasStatus(r, "cancelled")'
                                  \/ HasStatus(r, "expired")']_vars
  BY <1>1, <1>2
<1> QED
  BY <1>2, InitEInv, NextEInv, PTL DEF Spec, RotationRevokes

=============================================================================
