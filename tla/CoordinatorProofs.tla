--------------------------- MODULE CoordinatorProofs ---------------------------
(***************************************************************************)
(* Invariance proofs for Coordinator, for every set of mints, users,       *)
(* operators and hashes, every width of u64 and every number of            *)
(* signatures.                                                             *)
(***************************************************************************)
EXTENDS Coordinator, TLAPS

USE U64Assumption DEF U64

LEMMA InitTypeOK == Init => TypeOK
BY DEF Init, TypeOK

(***************************************************************************)
(* What a step's guards and TypeOK say of the records it reads.            *)
(***************************************************************************)
LEMMA ConfigRead ==
    ASSUME TypeOK, NEW m \in Mints, config[m] # Absent
    PROVE  config[m] \in Configs
BY DEF TypeOK

LEMMA AccountRead ==
    ASSUME TypeOK, NEW a \in Accounts, account[a] # Absent
    PROVE  account[a] \in ConfidentialAccounts
BY DEF TypeOK

LEMMA RequestRead ==
    ASSUME TypeOK, NEW r \in RequestKeys, request[r] # Absent
    PROVE  /\ request[r] \in Requests
           /\ r[1] \in Accounts
           /\ r[2] \in U64
           /\ r = <<r[1], r[2]>>
BY DEF TypeOK, RequestKeys

\* Administration writes one Config and nothing an owner holds.
LEMMA AdministerEffect ==
    ASSUME TypeOK, NEW m \in Mints, Administer(m)
    PROVE  /\ UNCHANGED <<account, request>>
           /\ \E c \in Configs : config' = [config EXCEPT ![m] = c]
<1>1. ASSUME NEW u \in Users, NEW op \in Operators \cup {DefaultKey},
             NEW kv \in KeyVersions, NEW life \in Lifetimes,
             NEW params \in InputHashes \cup {ZeroHash},
             InitializeConfig(u, m, op, kv, params, life)
      PROVE  \E c \in Configs : config' = [config EXCEPT ![m] = c]
  <2> DEFINE c == [ authority |-> u, operator |-> op, operator_epoch |-> 1,
                    key_version |-> kv, params_hash |-> params,
                    max_request_lifetime_slots |-> life, paused |-> FALSE ]
  <2>1. c \in Configs
    BY <1>1, LifetimeAssumption DEF InitializeConfig, RequireCtHash, Configs
  <2>2. config' = [config EXCEPT ![m] = c]
    BY <1>1 DEF InitializeConfig
  <2> QED
    BY <2>1, <2>2
<1>2. ASSUME NEW u \in Users, NEW paused \in BOOLEAN, SetPaused(u, m, paused)
      PROVE  \E c \in Configs : config' = [config EXCEPT ![m] = c]
  <2>1. [config[m] EXCEPT !.paused = paused] \in Configs
    BY <1>2, ConfigRead DEF SetPaused, AdminConfig, Configs
  <2> QED
    BY <1>2, <2>1 DEF SetPaused, TypeOK
<1>3. ASSUME NEW u \in Users, NEW op \in Operators \cup {DefaultKey},
             RotateOperator(u, m, op)
      PROVE  \E c \in Configs : config' = [config EXCEPT ![m] = c]
  <2>1. /\ config[m] \in Configs
        /\ op \in Operators
    BY <1>3, ConfigRead DEF RotateOperator, AdminConfig
  <2>2. NextEpoch(m) \in U64
    BY <1>3, <2>1 DEF RotateOperator, NextEpoch, FitsU64, Configs
  <2>3. [config[m] EXCEPT !.operator = op, !.operator_epoch = NextEpoch(m)]
            \in Configs
    BY <2>1, <2>2 DEF Configs
  <2>4. config' = [config EXCEPT ![m] =
            [config[m] EXCEPT !.operator = op, !.operator_epoch = NextEpoch(m)]]
    BY <1>3 DEF RotateOperator, TypeOK
  <2> QED
    BY <2>3, <2>4
<1>4. ASSUME NEW u \in Users, NEW kv \in KeyVersions, SetKeyVersion(u, m, kv)
      PROVE  \E c \in Configs : config' = [config EXCEPT ![m] = c]
  <2>1. [config[m] EXCEPT !.key_version = kv] \in Configs
    BY <1>4, ConfigRead DEF SetKeyVersion, AdminConfig, Configs
  <2> QED
    BY <1>4, <2>1 DEF SetKeyVersion, TypeOK
<1>5. UNCHANGED <<account, request>>
  BY DEF Administer, InitializeConfig, SetPaused, RotateOperator, SetKeyVersion
<1> QED
  BY <1>1, <1>2, <1>3, <1>4, <1>5 DEF Administer

LEMMA AdministerType ==
    ASSUME TypeOK, NEW m \in Mints, Administer(m)
    PROVE  TypeOK'
<1>1. config' \in [Mints -> Configs \cup {Absent}]
  BY AdministerEffect DEF TypeOK
<1>2. operatorLog' \in [Mints -> [U64 -> Operators \cup {DefaultKey}]]
  <2>1. \A log \in [Mints -> [U64 -> Operators \cup {DefaultKey}]], e \in U64,
           op \in Operators \cup {DefaultKey} :
            [log EXCEPT ![m][e] = op]
                \in [Mints -> [U64 -> Operators \cup {DefaultKey}]]
    OBVIOUS
  <2>2. ASSUME NEW u \in Users, NEW op \in Operators \cup {DefaultKey},
               RotateOperator(u, m, op)
        PROVE  operatorLog' \in [Mints -> [U64 -> Operators \cup {DefaultKey}]]
    <3>1. NextEpoch(m) \in U64
      BY <2>2, ConfigRead
         DEF RotateOperator, AdminConfig, NextEpoch, FitsU64, Configs
    <3> QED
      BY <2>1, <2>2, <3>1 DEF RotateOperator, TypeOK
  <2> QED
    BY <2>1, <2>2
       DEF TypeOK, Administer, InitializeConfig, SetPaused, SetKeyVersion
<1>3. UNCHANGED <<slot, account, request, signed>>
  BY DEF Administer, InitializeConfig, SetPaused, RotateOperator, SetKeyVersion
<1> QED
  BY <1>1, <1>2, <1>3 DEF TypeOK

\* The account that create_account writes.
NewAccount(u, m, balance, limit) ==
    [ mint |-> m, owner |-> u, balance_ref |-> balance, limit_ref |-> limit,
      state_version |-> 0, request_nonce |-> 0, pending_request |-> DefaultKey,
      key_version |-> config[m].key_version ]

LEMMA CreateAccountEffect ==
    ASSUME TypeOK, NEW u \in Users, NEW m \in Mints,
           NEW balance \in InputHashes \cup {ZeroHash},
           NEW limit \in InputHashes \cup {ZeroHash},
           CreateAccount(u, m, balance, limit)
    PROVE  /\ NewAccount(u, m, balance, limit) \in ConfidentialAccounts
           /\ account' = [account EXCEPT ![<<m, u>>] =
                              NewAccount(u, m, balance, limit)]
           /\ UNCHANGED <<slot, config, request, signed, operatorLog>>
<1>1. /\ balance \in InputHashes
      /\ limit \in InputHashes
      /\ config[m] \in Configs
  BY ConfigRead DEF CreateAccount, RequireCtHash
<1>2. NewAccount(u, m, balance, limit) \in ConfidentialAccounts
  BY <1>1 DEF ConfidentialAccounts, Configs, NewAccount
<1> QED
  BY <1>2 DEF CreateAccount, NewAccount

LEMMA CreateAccountType ==
    ASSUME TypeOK, NEW u \in Users, NEW m \in Mints,
           NEW balance \in InputHashes \cup {ZeroHash},
           NEW limit \in InputHashes \cup {ZeroHash},
           CreateAccount(u, m, balance, limit)
    PROVE  TypeOK'
BY CreateAccountEffect DEF TypeOK

LEMMA BindingType ==
    ASSUME NEW r \in RequestKeys, NEW q \in Requests
    PROVE  RequestBinding(r, q) \in Bindings
BY DEF RequestBinding, Requests, Bindings

LEMMA ResultBindingType ==
    ASSUME NEW r \in RequestKeys, NEW q \in Requests,
           NEW hash \in ResultHashes, NEW kind \in ResultKinds
    PROVE  ResultBinding(r, q, hash, kind) \in ResultBindings
BY BindingType DEF ResultBinding, ResultBindings, Requests

\* What submit writes: the request, sealed with its digest.
SealedRequest(owner, m, a, nonce, amount) ==
    [NewRequest(owner, m, a, nonce, amount) EXCEPT !.request_digest =
        Digest(RequestBinding(<<a, nonce>>,
                              NewRequest(owner, m, a, nonce, amount)))]

LEMMA SealedRequestType ==
    ASSUME NEW u \in Users, NEW m \in Mints, NEW a \in Accounts,
           NEW n \in U64, NEW amount \in InputHashes,
           slot \in U64, config[m] \in Configs,
           account[a] \in ConfidentialAccounts,
           FitsU64(slot + config[m].max_request_lifetime_slots)
    PROVE  SealedRequest(u, m, a, n, amount) \in Requests
<1> DEFINE q == NewRequest(u, m, a, n, amount)
<1>1. slot + config[m].max_request_lifetime_slots \in U64
  BY DEF FitsU64, Configs
<1>2. RequestBinding(<<a, n>>, q) \in Bindings
  BY <1>1 DEF RequestBinding, NewRequest, Bindings, RequestKeys, Configs,
              ConfidentialAccounts
<1>3. Digest(RequestBinding(<<a, n>>, q)) \in [sha256 : Bindings]
  BY <1>2 DEF Digest
<1> HIDE DEF q
<1>4. \A d \in [sha256 : Bindings] : [q EXCEPT !.request_digest = d] \in Requests
  BY <1>1 DEF q, NewRequest, Requests, Configs, ConfidentialAccounts, Statuses
<1> QED
  BY <1>3, <1>4 DEF SealedRequest, q

LEMMA SubmitType ==
    ASSUME TypeOK, NEW u \in Users, NEW m \in Mints,
           NEW amount \in InputHashes \cup {ZeroHash},
           NEW v \in U64, NEW n \in U64, Submit(u, m, amount, v, n)
    PROVE  TypeOK'
<1> DEFINE a == <<m, u>>
           r == <<a, n>>
<1>1. /\ a \in Accounts
      /\ r \in RequestKeys
      /\ amount \in InputHashes
      /\ config[m] \in Configs
      /\ account[a] \in ConfidentialAccounts
  BY ConfigRead, AccountRead
     DEF Submit, Accounts, RequestKeys, RequireCtHash
<1>2. SealedRequest(u, m, a, n, amount) \in Requests
  BY <1>1, SealedRequestType DEF Submit, TypeOK
<1>3. request' = [request EXCEPT ![r] = SealedRequest(u, m, a, n, amount)]
  BY DEF Submit, SealedRequest
<1>4. account' = [account EXCEPT ![a] =
          [account[a] EXCEPT !.request_nonce = n, !.pending_request = r]]
  BY <1>1 DEF Submit, TypeOK
<1> HIDE DEF a, r
<1>5. [account[a] EXCEPT !.request_nonce = n, !.pending_request = r]
          \in ConfidentialAccounts
  BY <1>1 DEF ConfidentialAccounts
<1>6. request' \in [RequestKeys -> Requests \cup {Absent}]
  BY <1>1, <1>2, <1>3 DEF TypeOK
<1>7. account' \in [Accounts -> ConfidentialAccounts \cup {Absent}]
  BY <1>1, <1>4, <1>5 DEF TypeOK
<1> QED
  BY <1>6, <1>7 DEF TypeOK, Submit

(***************************************************************************)
(* cancel, expire and finalize leave the same: one settled request, and    *)
(* its account with the lock released.                                     *)
(***************************************************************************)
Settled(q, status, hash, digest) ==
    [q EXCEPT !.status = status, !.result_hash = hash, !.result_digest = digest]

LEMMA SettleEffect ==
    ASSUME TypeOK, NEW r \in RequestKeys, Settle(r)
    PROVE  /\ Located(r) /\ RequirePendingLock(r)
           /\ request[r] \in Requests
           /\ r[1] \in Accounts
           /\ account[r[1]] \in ConfidentialAccounts
           /\ CanReleaseAccountLock(r[1])
           /\ account' = [account EXCEPT ![r[1]] = ReleaseAccountLock(r[1])]
           /\ \E status \in Statuses \ {"pending"},
                 hash \in ResultHashes \cup {ZeroHash},
                 digest \in [sha256 : ResultBindings] \cup {ZeroHash} :
                  request' = [request EXCEPT ![r] =
                                  Settled(request[r], status, hash, digest)]
           /\ UNCHANGED <<slot, config, signed, operatorLog>>
<1>1. /\ Located(r) /\ RequirePendingLock(r)
      /\ CanReleaseAccountLock(r[1])
      /\ account' = [account EXCEPT ![r[1]] = ReleaseAccountLock(r[1])]
      /\ UNCHANGED <<slot, config, signed, operatorLog>>
  BY DEF Settle, Cancel, MayCancel, Expire, MayExpire, Finalize, ReleaseLock
<1>2. /\ request[r] \in Requests
      /\ r[1] \in Accounts
      /\ account[r[1]] \in ConfidentialAccounts
  BY <1>1, RequestRead, AccountRead DEF Located
<1>3. ASSUME NEW s \in {"cancelled", "expired"}, ReleaseLock(r, s)
      PROVE  request' = [request EXCEPT ![r] =
                 Settled(request[r], s, request[r].result_hash,
                         request[r].result_digest)]
  <2>1. \A q \in Requests :
            Settled(q, s, q.result_hash, q.result_digest)
                = [q EXCEPT !.status = s]
    BY DEF Settled, Requests
  <2> QED
    BY <1>2, <1>3, <2>1 DEF ReleaseLock, TypeOK
<1>4. ASSUME NEW m \in Mints, NEW hash \in ResultHashes \cup {ZeroHash},
             NEW kind \in ResultKinds, Finalize(m, r, hash, kind)
      PROVE  \E digest \in [sha256 : ResultBindings] :
                 request' = [request EXCEPT ![r] =
                     Settled(request[r], "finalized", hash, digest)]
  <2> DEFINE d == Digest(ResultBinding(r, request[r], hash, kind))
  <2>1. d \in [sha256 : ResultBindings]
    BY <1>2, <1>4, ResultBindingType DEF Finalize, RequireCtHash, Digest
  <2>2. request' = [request EXCEPT ![r] =
                        Settled(request[r], "finalized", hash, d)]
    BY <1>4 DEF Finalize, Settled, TypeOK
  <2> HIDE DEF d
  <2> QED
    BY <2>1, <2>2
<1>5. request[r].result_hash \in ResultHashes \cup {ZeroHash}
      /\ request[r].result_digest \in [sha256 : ResultBindings] \cup {ZeroHash}
  BY <1>2 DEF Requests
<1>6. {"cancelled", "expired", "finalized"} \subseteq Statuses \ {"pending"}
  BY DEF Statuses
<1>7. \E status \in Statuses \ {"pending"},
         hash \in ResultHashes \cup {ZeroHash},
         digest \in [sha256 : ResultBindings] \cup {ZeroHash} :
          request' = [request EXCEPT ![r] =
                          Settled(request[r], status, hash, digest)]
  <2>1. CASE \E s \in {"cancelled", "expired"} : ReleaseLock(r, s)
    BY <1>3, <1>5, <1>6, <2>1
  <2>2. CASE \E m \in Mints, hash \in ResultHashes \cup {ZeroHash},
                kind \in ResultKinds : Finalize(m, r, hash, kind)
    BY <1>4, <1>6, <2>2
  <2> QED
    BY <2>1, <2>2 DEF Settle, Cancel, Expire
<1> QED
  BY <1>1, <1>2, <1>7

LEMMA ReleaseType ==
    ASSUME NEW a \in Accounts, account[a] \in ConfidentialAccounts,
           CanReleaseAccountLock(a)
    PROVE  ReleaseAccountLock(a) \in ConfidentialAccounts
<1>1. account[a].state_version + 1 \in U64
  BY DEF CanReleaseAccountLock, FitsU64, ConfidentialAccounts
<1>2. \A acct \in ConfidentialAccounts, v \in U64 :
          [acct EXCEPT !.pending_request = DefaultKey, !.state_version = v]
              \in ConfidentialAccounts
  BY DEF ConfidentialAccounts
<1> QED
  BY <1>1, <1>2 DEF ReleaseAccountLock

LEMMA SettledType ==
    ASSUME NEW q \in Requests, NEW status \in Statuses,
           NEW hash \in ResultHashes \cup {ZeroHash},
           NEW digest \in [sha256 : ResultBindings] \cup {ZeroHash}
    PROVE  Settled(q, status, hash, digest) \in Requests
BY DEF Settled, Requests

LEMMA SettleType ==
    ASSUME TypeOK, NEW r \in RequestKeys, Settle(r)
    PROVE  TypeOK'
<1>1. account' \in [Accounts -> ConfidentialAccounts \cup {Absent}]
  BY SettleEffect, ReleaseType DEF TypeOK
<1>2. PICK q \in Requests : request' = [request EXCEPT ![r] = q]
  BY SettleEffect, SettledType
<1>3. request' \in [RequestKeys -> Requests \cup {Absent}]
  BY <1>2 DEF TypeOK
<1> QED
  BY <1>1, <1>3, SettleEffect DEF TypeOK

\* Whatever file a worker is handed, there is a well-formed binding in it.
LEMMA FilesType == TypeOK => FilesAtHand \subseteq Bindings
<1> SUFFICES ASSUME TypeOK, NEW r \in RequestKeys, Exists(r)
             PROVE  RequestBinding(r, request[r]) \in Bindings
  BY RequestFilesAssumption DEF FilesAtHand
<1> QED
  BY RequestRead, BindingType DEF Exists

LEMMA ProcessRequestType ==
    ASSUME TypeOK, NEW op \in Operators, NEW binding \in FilesAtHand,
           NEW hash \in ResultHashes, ProcessRequest(op, binding, hash)
    PROVE  TypeOK'
<1>1. binding \in Bindings
  BY FilesType
<1>2. SignedResult(binding, hash) \in ResultBindings
  BY <1>1, KindAssumption DEF SignedResult, ResultBindings, Digest
<1> QED
  BY <1>2 DEF TypeOK, ProcessRequest

(***************************************************************************)
(* TypeOK: initially, over every step, and therefore always.               *)
(***************************************************************************)
LEMMA NextTypeOK == TypeOK /\ [Next]_vars => TypeOK'
<1> SUFFICES ASSUME TypeOK, [Next]_vars PROVE TypeOK'
  OBVIOUS
<1>1. CASE \E m \in Mints : Administer(m)
  BY <1>1, AdministerType
<1>2. CASE \E m \in Mints : Use(m)
  BY <1>2, CreateAccountType, SubmitType DEF Use
<1>3. CASE \E r \in RequestKeys : Settle(r)
  BY <1>3, SettleType
<1>4. CASE \E op \in Operators, binding \in FilesAtHand, hash \in ResultHashes :
               ProcessRequest(op, binding, hash)
  BY <1>4, ProcessRequestType
<1>5. CASE Tick
  BY <1>5 DEF Tick, TypeOK
<1>6. CASE UNCHANGED vars
  BY <1>6 DEF vars, TypeOK
<1> QED
  BY <1>1, <1>2, <1>3, <1>4, <1>5, <1>6 DEF Next

(***************************************************************************)
(* No handler ever writes a value outside its type; for the counters this  *)
(* is that every addition in the program is checked where it has to be.    *)
(***************************************************************************)
THEOREM TypeCorrect == Spec => []TypeOK
<1>1. Init => TypeOK
  BY InitTypeOK
<1>2. TypeOK /\ [Next]_vars => TypeOK'
  BY NextTypeOK
<1> QED
  BY <1>1, <1>2, PTL DEF Spec

-----------------------------------------------------------------------------
(***************************************************************************)
(* The inductive invariant behind the safety properties.  LockCoherence    *)
(* and NonceAccounting need each other -- submit raises the nonce because  *)
(* the account is not locked, a settlement raises the version because it   *)
(* is -- and both need every record to be where its fields say.            *)
(***************************************************************************)
IInv ==
    /\ TypeOK
    /\ RecordsAtHome
    /\ LockCoherence
    /\ NonceAccounting
    /\ RequestUsesAccountKeyVersion

LEMMA InitIInv == Init => IInv
<1> SUFFICES ASSUME Init PROVE IInv
  OBVIOUS
<1>1. \A r \in RequestKeys : request[r] = Absent /\ r[1] \in Accounts
  BY DEF Init, RequestKeys
<1>2. \A a \in Accounts : account[a] = Absent
  BY DEF Init
<1>3. \A a \in Accounts, n \in U64 : <<a, n>> \in RequestKeys
  BY DEF RequestKeys
<1> QED
  BY <1>1, <1>2, <1>3, InitTypeOK
     DEF IInv, RecordsAtHome, LockCoherence, NonceAccounting,
         RequestUsesAccountKeyVersion, Pending, HasStatus, Exists

\* Steps that touch neither accounts nor requests, and lose no Config.
LEMMA QuietStep ==
    ASSUME IInv, TypeOK', UNCHANGED <<account, request>>,
           \A m \in Mints : config[m] # Absent => config'[m] # Absent
    PROVE  IInv'
<1>1. \A a \in Accounts : account[a] # Absent => account[a].mint \in Mints
  BY AccountRead DEF IInv, ConfidentialAccounts
<1>2. RecordsAtHome'
  BY <1>1 DEF IInv, RecordsAtHome, Exists
<1>3. LockCoherence' /\ NonceAccounting' /\ RequestUsesAccountKeyVersion'
  BY DEF IInv, LockCoherence, NonceAccounting, RequestUsesAccountKeyVersion,
         Pending, HasStatus, Exists, HasPending
<1> QED
  BY <1>2, <1>3 DEF IInv

LEMMA AdministerStep ==
    ASSUME IInv, TypeOK', NEW m \in Mints, Administer(m)
    PROVE  IInv'
<1>1. /\ UNCHANGED <<account, request>>
      /\ \E c \in Configs : config' = [config EXCEPT ![m] = c]
  BY AdministerEffect DEF IInv
<1>2. \A n \in Mints : config[n] # Absent => config'[n] # Absent
  BY <1>1, AbsentAssumption DEF IInv, TypeOK
<1> QED
  BY <1>1, <1>2, QuietStep

LEMMA CreateAccountStep ==
    ASSUME IInv, TypeOK', NEW u \in Users, NEW m \in Mints,
           NEW balance \in InputHashes \cup {ZeroHash},
           NEW limit \in InputHashes \cup {ZeroHash},
           CreateAccount(u, m, balance, limit)
    PROVE  IInv'
<1> DEFINE a == <<m, u>>
<1>1. /\ a \in Accounts
      /\ config[m] # Absent
      /\ account[a] = Absent
      /\ UNCHANGED <<config, request>>
  BY DEF CreateAccount, Accounts
<1>2. \A b \in Accounts : b # a => account'[b] = account[b]
  BY DEF CreateAccount, IInv, TypeOK
<1>3. /\ account'[a] # Absent
      /\ account'[a].mint = m
      /\ account'[a].owner = u
      /\ account'[a].state_version = 0
      /\ account'[a].request_nonce = 0
      /\ account'[a].pending_request = DefaultKey
  <2> DEFINE acct == NewAccount(u, m, balance, limit)
  <2>1. /\ acct \in ConfidentialAccounts
        /\ account' = [account EXCEPT ![a] = acct]
    BY CreateAccountEffect DEF IInv
  <2>2. account'[a] = acct
    <3> HIDE DEF acct
    <3> QED
      BY <1>1, <2>1 DEF IInv, TypeOK
  <2>3. acct # Absent
    BY <2>1, AbsentAssumption
  <2> QED
    BY <2>2, <2>3 DEF NewAccount
<1>4. \A r \in RequestKeys : Exists(r) => r[1] # a
  BY <1>1 DEF IInv, RecordsAtHome
<1> HIDE DEF a
<1>5. RecordsAtHome'
  BY <1>1, <1>2, <1>3, <1>4 DEF IInv, RecordsAtHome, Exists, a, RequestKeys
<1>6. LockCoherence'
  BY <1>1, <1>2, <1>3, <1>4, DefaultKeyAssumption
     DEF IInv, LockCoherence, Pending, HasStatus, Exists, RequestKeys
<1>7. NonceAccounting'
  <2>1. \A n \in U64 : <<a, n>> \in RequestKeys /\ ~Exists(<<a, n>>)
    BY <1>1, <1>4 DEF RequestKeys
  <2> QED
    BY <1>1, <1>2, <1>3, <2>1 DEF IInv, NonceAccounting, HasPending, Exists
<1>8. RequestUsesAccountKeyVersion'
  BY <1>1, <1>2, <1>4
     DEF IInv, RequestUsesAccountKeyVersion, Exists, RequestKeys
<1> QED
  BY <1>5, <1>6, <1>7, <1>8 DEF IInv

LEMMA SubmitStep ==
    ASSUME IInv, TypeOK', NEW u \in Users, NEW m \in Mints,
           NEW amount \in InputHashes \cup {ZeroHash},
           NEW v \in U64, NEW n \in U64, Submit(u, m, amount, v, n)
    PROVE  IInv'
<1> DEFINE a == <<m, u>>
           r == <<a, n>>
           q == SealedRequest(u, m, a, n, amount)
<1>1. /\ a \in Accounts
      /\ r \in RequestKeys
      /\ config[m] # Absent
      /\ account[a] \in ConfidentialAccounts
      /\ account[a] # Absent
      /\ ~HasPending(a)
      /\ ~Exists(r)
      /\ account[a].request_nonce = account[a].state_version
      /\ n = account[a].request_nonce + 1
      /\ account[a].key_version = config[m].key_version
      /\ account[a].mint = m
      /\ account[a].owner = u
      /\ UNCHANGED config
  <2>1. /\ a \in Accounts
        /\ r \in RequestKeys
        /\ account[a] # Absent
    BY DEF Submit, Accounts, RequestKeys
  <2>2. account[a] \in ConfidentialAccounts
    BY <2>1, AccountRead DEF IInv
  <2>3. account[a].request_nonce = account[a].state_version
    BY <2>1, <2>2 DEF Submit, AccountAdmitsSubmit, IInv, NonceAccounting,
                      ConfidentialAccounts
  <2> QED
    BY <2>1, <2>2, <2>3 DEF Submit, AccountAdmitsSubmit, Exists
<1>2. /\ q \in Requests
      /\ q # Absent
      /\ q.status = "pending"
      /\ q.confidential_account = a
      /\ q.request_nonce = n
      /\ q.mint = m
      /\ q.requester = u
      /\ q.state_version = account[a].state_version
      /\ q.key_version = config[m].key_version
  <2>1. /\ amount \in InputHashes
        /\ slot \in U64
        /\ config[m] \in Configs
        /\ FitsU64(slot + config[m].max_request_lifetime_slots)
    BY <1>1, ConfigRead DEF Submit, RequireCtHash, IInv, TypeOK
  <2>2. q \in Requests
    BY <1>1, <2>1, SealedRequestType
  <2>3. q # Absent
    BY <2>2, AbsentAssumption
  <2> QED
    BY <2>2, <2>3 DEF SealedRequest, NewRequest
<1>3. request' = [request EXCEPT ![r] = q]
  BY DEF Submit, SealedRequest
<1>4. account' = [account EXCEPT ![a].request_nonce = n,
                                 ![a].pending_request = r]
  BY DEF Submit
<1> HIDE DEF q
<1>5. /\ request'[r] = q
      /\ \A s \in RequestKeys : s # r => request'[s] = request[s]
  BY <1>1, <1>3 DEF IInv, TypeOK
<1>6. /\ \A b \in Accounts : b # a => account'[b] = account[b]
      /\ account'[a] = [account[a] EXCEPT !.request_nonce = n,
                                          !.pending_request = r]
  BY <1>1, <1>4 DEF IInv, TypeOK
<1>7. /\ account'[a] # Absent
      /\ account'[a].mint = m
      /\ account'[a].owner = u
      /\ account'[a].state_version = account[a].state_version
      /\ account'[a].request_nonce = n
      /\ account'[a].pending_request = r
      /\ account'[a].key_version = account[a].key_version
  <2>1. account'[a] \in ConfidentialAccounts
    BY <1>1, <1>6 DEF ConfidentialAccounts
  <2>2. account'[a] # Absent
    BY <2>1, AbsentAssumption
  <2> QED
    BY <1>1, <1>6, <2>2 DEF ConfidentialAccounts
<1>8. r # DefaultKey /\ r[1] = a /\ r[2] = n
  BY <1>1, DefaultKeyAssumption
<1>9. \A s \in RequestKeys : s[1] \in Accounts /\ s[2] \in U64 /\ s = <<s[1], s[2]>>
  BY DEF RequestKeys
<1>10. RecordsAtHome'
  <2>1. \A b \in Accounts :
            account'[b] # Absent =>
                b = <<account'[b].mint, account'[b].owner>>
                    /\ config'[account'[b].mint] # Absent
    BY <1>1, <1>6, <1>7, ZenonT(60) DEF IInv, RecordsAtHome
  <2>2. \A s \in RequestKeys :
            request'[s] # Absent =>
                /\ s = <<request'[s].confidential_account,
                         request'[s].request_nonce>>
                /\ account'[s[1]] # Absent
                /\ s[1] = <<request'[s].mint, request'[s].requester>>
    BY <1>2, <1>5, <1>6, <1>7, <1>8, <1>9 DEF IInv, RecordsAtHome, Exists
  <2> QED
    BY <2>1, <2>2 DEF RecordsAtHome, Exists
<1>11. LockCoherence'
  <2>1. \A s \in RequestKeys :
            s # r => ~(Pending(s) /\ s[1] = a)
    BY <1>1, <1>9, DefaultKeyAssumption DEF IInv, LockCoherence, HasPending
  <2>2. ASSUME NEW s \in RequestKeys, s # r
        PROVE  Pending(s)' <=> /\ account'[s[1]] # Absent
                               /\ account'[s[1]].pending_request = s
    <3>1. Pending(s)' <=> Pending(s)
      BY <1>5, <2>2 DEF Pending, HasStatus, Exists
    <3>2. CASE s[1] = a
      BY <1>7, <2>1, <2>2, <3>1, <3>2
    <3>3. CASE s[1] # a
      BY <1>6, <1>9, <3>1, <3>3 DEF IInv, LockCoherence
    <3> QED
      BY <3>2, <3>3
  <2>3. Pending(r)' /\ account'[a] # Absent /\ account'[a].pending_request = r
    BY <1>2, <1>5, <1>7 DEF Pending, HasStatus, Exists
  <2> QED
    BY <1>8, <2>2, <2>3 DEF LockCoherence
<1>12. NonceAccounting'
  <2>1. HasPending(a)'
    BY <1>7, <1>8 DEF HasPending
  <2>2. /\ n \in Nat /\ account[a].state_version \in Nat
        /\ account[a].request_nonce \in Nat
    BY <1>1 DEF ConfidentialAccounts
  <2>3. ASSUME NEW b \in Accounts, b # a
        PROVE  /\ account'[b] = account[b]
               /\ \A k \in U64 : request'[<<b, k>>] = request[<<b, k>>]
    BY <1>5, <1>6, <2>3 DEF RequestKeys
  <2>4. ASSUME NEW k \in U64, k # n
        PROVE  request'[<<a, k>>] = request[<<a, k>>]
    BY <1>1, <1>5, <2>4 DEF RequestKeys
  <2>5. Exists(<<a, n>>)' /\ request'[<<a, n>>].state_version = n - 1
    BY <1>1, <1>2, <1>5, <2>2 DEF Exists
  <2>6. \A k \in U64 : Exists(<<a, k>>)' <=> k \in 1 .. n
    <3>1. \A k \in U64 :
              request[<<a, k>>] # Absent <=> k \in 1 .. account[a].request_nonce
      BY <1>1 DEF IInv, NonceAccounting, Exists
    <3>2. request'[<<a, n>>] # Absent
      BY <2>5 DEF Exists
    <3>3. \A k \in U64 :
              k \in 1 .. n <=> k = n \/ k \in 1 .. account[a].request_nonce
      BY <1>1, <2>2
    <3> QED
      BY <2>4, <3>1, <3>2, <3>3 DEF Exists
  <2>7. \A k \in U64 :
            Exists(<<a, k>>)' => request'[<<a, k>>].state_version = k - 1
    BY <1>1, <2>4, <2>5 DEF IInv, NonceAccounting, Exists
  <2>8. account'[a].request_nonce = account'[a].state_version + 1
    BY <1>1, <1>7, <2>2
  <2> QED
    BY <1>7, <2>1, <2>3, <2>6, <2>7, <2>8
       DEF IInv, NonceAccounting, HasPending, Exists
<1>13. RequestUsesAccountKeyVersion'
  <2>1. \A b \in Accounts : account[b] # Absent =>
            account'[b].key_version = account[b].key_version
    BY <1>6, <1>7
  <2>2. \A s \in RequestKeys : Exists(s) => account[s[1]] # Absent
    BY DEF IInv, RecordsAtHome
  <2>3. request'[r].key_version = account'[r[1]].key_version
    BY <1>1, <1>2, <1>5, <1>7, <1>8
  <2>4. ASSUME NEW s \in RequestKeys, s # r, Exists(s)'
        PROVE  request'[s].key_version = account'[s[1]].key_version
    <3>1. request'[s] = request[s] /\ Exists(s)
      BY <1>5, <2>4 DEF Exists
    <3> QED
      BY <1>9, <2>1, <2>2, <3>1 DEF IInv, RequestUsesAccountKeyVersion
  <2> QED
    BY <2>3, <2>4 DEF RequestUsesAccountKeyVersion
<1> QED
  BY <1>10, <1>11, <1>12, <1>13 DEF IInv

LEMMA SettleStep ==
    ASSUME IInv, TypeOK', NEW r \in RequestKeys, Settle(r)
    PROVE  IInv'
<1> DEFINE a == r[1]
<1>1. /\ a \in Accounts
      /\ account[a] \in ConfidentialAccounts
      /\ account[a] # Absent
      /\ request[r] \in Requests
      /\ Pending(r)
      /\ HasPending(a)
      /\ account[a].pending_request = r
      /\ UNCHANGED config
  BY SettleEffect DEF IInv, Located, RequirePendingLock, Pending, HasStatus, Exists
<1>2. PICK status \in Statuses \ {"pending"},
           hash \in ResultHashes \cup {ZeroHash},
           digest \in [sha256 : ResultBindings] \cup {ZeroHash} :
               request' = [request EXCEPT ![r] =
                               Settled(request[r], status, hash, digest)]
  BY SettleEffect DEF IInv
<1> DEFINE q == Settled(request[r], status, hash, digest)
<1>3. /\ q # Absent
      /\ q.status # "pending"
      /\ q.confidential_account = request[r].confidential_account
      /\ q.request_nonce = request[r].request_nonce
      /\ q.mint = request[r].mint
      /\ q.requester = request[r].requester
      /\ q.state_version = request[r].state_version
      /\ q.key_version = request[r].key_version
  <2>1. q # Absent
    BY <1>1, SettledType, AbsentAssumption
  <2> QED
    BY <1>1, <2>1 DEF Settled, Requests
<1> HIDE DEF q
<1>4. /\ request'[r] = q
      /\ \A s \in RequestKeys : s # r => request'[s] = request[s]
  BY <1>2 DEF IInv, TypeOK, q
<1>5. \A s \in RequestKeys :
          /\ Exists(s)' <=> Exists(s)
          /\ request'[s].confidential_account = request[s].confidential_account
          /\ request'[s].request_nonce = request[s].request_nonce
          /\ request'[s].mint = request[s].mint
          /\ request'[s].requester = request[s].requester
          /\ request'[s].state_version = request[s].state_version
          /\ request'[s].key_version = request[s].key_version
  BY <1>1, <1>3, <1>4 DEF Exists, Pending, HasStatus
<1>6. /\ account'[a] = ReleaseAccountLock(a)
      /\ \A b \in Accounts : b # a => account'[b] = account[b]
  BY <1>1, SettleEffect DEF IInv, TypeOK
<1>7. /\ account'[a] # Absent
      /\ account'[a].mint = account[a].mint
      /\ account'[a].owner = account[a].owner
      /\ account'[a].state_version = account[a].state_version + 1
      /\ account'[a].request_nonce = account[a].request_nonce
      /\ account'[a].pending_request = DefaultKey
      /\ account'[a].key_version = account[a].key_version
  <2>1. account'[a] # Absent
    BY <1>1, <1>6, ReleaseType, SettleEffect, AbsentAssumption DEF IInv
  <2> QED
    BY <1>1, <1>6, <2>1 DEF ReleaseAccountLock, ConfidentialAccounts
<1>8. \A s \in RequestKeys : s[1] \in Accounts /\ s[2] \in U64 /\ s # DefaultKey
  BY DefaultKeyAssumption DEF RequestKeys
<1> HIDE DEF a
<1>9. \A b \in Accounts :
          /\ account'[b] # Absent <=> account[b] # Absent
          /\ account'[b].mint = account[b].mint
          /\ account'[b].owner = account[b].owner
          /\ account'[b].request_nonce = account[b].request_nonce
          /\ account'[b].key_version = account[b].key_version
  BY <1>1, <1>6, <1>7
<1>10. RecordsAtHome'
  BY <1>1, <1>5, <1>8, <1>9 DEF IInv, RecordsAtHome, Exists
<1>11. LockCoherence'
  <2>1. ~Pending(r)' /\ account'[r[1]].pending_request # r
    BY <1>3, <1>4, <1>7, <1>8 DEF Pending, HasStatus, a
  <2>2. ASSUME NEW s \in RequestKeys, s # r
        PROVE  Pending(s)' <=> /\ account'[s[1]] # Absent
                               /\ account'[s[1]].pending_request = s
    <3>1. Pending(s)' <=> Pending(s)
      BY <1>4, <2>2 DEF Pending, HasStatus, Exists
    <3>2. CASE s[1] = a
      BY <1>1, <1>7, <1>8, <2>2, <3>1, <3>2 DEF IInv, LockCoherence
    <3>3. CASE s[1] # a
      BY <1>6, <1>8, <3>1, <3>3 DEF IInv, LockCoherence
    <3> QED
      BY <3>2, <3>3
  <2> QED
    BY <2>1, <2>2 DEF LockCoherence
<1>12. NonceAccounting'
  <2>1. \A b \in Accounts, k \in U64 : <<b, k>> \in RequestKeys
    BY DEF RequestKeys
  <2>2. account'[a].request_nonce =
            account'[a].state_version + (IF HasPending(a)' THEN 1 ELSE 0)
    BY <1>1, <1>7 DEF IInv, NonceAccounting, HasPending, ConfidentialAccounts
  <2>3. \A b \in Accounts : account'[b] # Absent =>
            account'[b].request_nonce =
                account'[b].state_version + (IF HasPending(b)' THEN 1 ELSE 0)
    BY <1>6, <2>2 DEF IInv, NonceAccounting, HasPending
  <2> QED
    BY <1>5, <1>9, <2>1, <2>3 DEF IInv, NonceAccounting
<1>13. RequestUsesAccountKeyVersion'
  BY <1>5, <1>8, <1>9 DEF IInv, RequestUsesAccountKeyVersion
<1> QED
  BY <1>10, <1>11, <1>12, <1>13 DEF IInv

LEMMA NextIInv == IInv /\ [Next]_vars => IInv'
<1> SUFFICES ASSUME IInv, [Next]_vars PROVE IInv'
  OBVIOUS
<1>1. TypeOK'
  BY NextTypeOK DEF IInv
<1>2. CASE \E m \in Mints : Administer(m)
  BY <1>1, <1>2, AdministerStep
<1>3. CASE \E m \in Mints : Use(m)
  BY <1>1, <1>3, CreateAccountStep, SubmitStep DEF Use
<1>4. CASE \E r \in RequestKeys : Settle(r)
  BY <1>1, <1>4, SettleStep
<1>5. CASE \/ \E op \in Operators, binding \in FilesAtHand, hash \in ResultHashes :
                  ProcessRequest(op, binding, hash)
           \/ Tick
           \/ UNCHANGED vars
  BY <1>1, <1>5, QuietStep DEF ProcessRequest, Tick, vars
<1> QED
  BY <1>2, <1>3, <1>4, <1>5 DEF Next

(***************************************************************************)
(* submit, cancel, expire and finalize keep the two halves of the lock,    *)
(* Request.status and ConfidentialAccount.pending_request, in step.        *)
(***************************************************************************)
THEOREM LockCoherent == Spec => []LockCoherence
<1>1. IInv => LockCoherence
  BY DEF IInv
<1> QED
  BY <1>1, InitIInv, NextIInv, PTL DEF Spec

(***************************************************************************)
(* Nonce, state version and request PDAs stay in step, so the PDA the next *)
(* submit needs is always free and no nonce is used twice.                 *)
(***************************************************************************)
THEOREM NoncesAccounted == Spec => []NonceAccounting
<1>1. IInv => NonceAccounting
  BY DEF IInv
<1> QED
  BY <1>1, InitIInv, NextIInv, PTL DEF Spec

(***************************************************************************)
(* Every record lies at the address derived from its own fields, and the   *)
(* record it names exists, whatever accounts instructions were given.      *)
(***************************************************************************)
THEOREM RecordsHome == Spec => []RecordsAtHome
<1>1. IInv => RecordsAtHome
  BY DEF IInv
<1> QED
  BY <1>1, InitIInv, NextIInv, PTL DEF Spec

(***************************************************************************)
(* No request binds an account's ciphertexts to a key version they were    *)
(* not encrypted under, however often set_key_version is called.           *)
(***************************************************************************)
THEOREM KeyVersionBound == Spec => []RequestUsesAccountKeyVersion
<1>1. IInv => RequestUsesAccountKeyVersion
  BY DEF IInv
<1> QED
  BY <1>1, InitIInv, NextIInv, PTL DEF Spec

(***************************************************************************)
(* In every state cancel or expire accepts the pending request: the state  *)
(* version is below the nonce, so release_account_lock cannot overflow,    *)
(* and before the expiry slot the owner may cancel, after it anyone may    *)
(* expire.                                                                 *)
(***************************************************************************)
THEOREM LocksReleasable == Spec => []LockReleasable
<1>1. ASSUME IInv PROVE LockReleasable
  <2> SUFFICES ASSUME NEW r \in RequestKeys, Pending(r)
               PROVE  /\ CanReleaseAccountLock(r[1])
                      /\ MayExpire(r) \/ MayCancel(request[r].requester, r)
    BY DEF LockReleasable
  <2>1. /\ request[r] \in Requests
        /\ r[1] \in Accounts
        /\ r = <<r[1], r[2]>>
        /\ r # DefaultKey
    BY <1>1, RequestRead, DefaultKeyAssumption
       DEF IInv, Pending, HasStatus, Exists
  <2>2. /\ account[r[1]] # Absent
        /\ account[r[1]].pending_request = r
        /\ account[r[1]] \in ConfidentialAccounts
    BY <1>1, <2>1, AccountRead DEF IInv, LockCoherence
  <2>3. HasPending(r[1])
    BY <2>1, <2>2 DEF HasPending
  <2>4. CanReleaseAccountLock(r[1])
    BY <1>1, <2>1, <2>2, <2>3
       DEF IInv, NonceAccounting, CanReleaseAccountLock, FitsU64,
           ConfidentialAccounts
  <2>5. /\ Located(r)
        /\ RequirePendingLock(r)
        /\ r[1] = <<account[r[1]].mint, account[r[1]].owner>>
        /\ r[1] = <<request[r].mint, request[r].requester>>
    BY <1>1, <2>1, <2>2, <2>3
       DEF IInv, RecordsAtHome, Located, RequirePendingLock, Pending,
           HasStatus, Exists
  <2>6. slot \in Int /\ request[r].expiry_slot \in Int
    BY <1>1, <2>1 DEF IInv, TypeOK, Requests
  <2> QED
    BY <2>4, <2>5, <2>6 DEF MayExpire, MayCancel
<1> QED
  BY <1>1, InitIInv, NextIInv, PTL DEF Spec

=============================================================================
