------------------------------ MODULE Coordinator ------------------------------
(***************************************************************************)
(* The confidential-coordinator program: one action per instruction.       *)
(*                                                                         *)
(* An instruction runs as one Solana transaction.  The runtime locks every *)
(* account the transaction writes and an error undoes all of it, so an     *)
(* instruction is one atomic step and a require! that fails is a disabled  *)
(* step.  Everything an instruction can be given -- the signer, which      *)
(* accounts it names, its arguments -- is an argument of its action.       *)
(*                                                                         *)
(* A program-derived address is the tuple of its seeds: a Config is found  *)
(* by its mint, a ConfidentialAccount by <<mint, owner>>, a Request by     *)
(* <<account, nonce>>.  Fields whose value is the Config's address are     *)
(* merged with `mint', of which that address is an injective function;     *)
(* bumps, domain_id, operation and the protocol version, which never       *)
(* change once a Config exists, are left out with it.                      *)
(***************************************************************************)
EXTENDS Integers, FiniteSets

CONSTANTS
    Mints,          \* mint identities
    Users,          \* keys that sign transactions: authorities and owners
    Operators,      \* keys an FHE operator may sign with
    InputHashes,    \* SHA-256 of balance, limit, amount blobs and of the params
    ResultHashes,   \* SHA-256 of result blobs
    ZeroHash,       \* [0u8; 32]
    KeyVersions,    \* evaluation-key generations
    Lifetimes,      \* values proposed for max_request_lifetime_slots
    ResultKinds,    \* (circuit_id, result_type) pairs a finalize may claim
    PolicyResult,   \* (CIRCUIT_POLICY_V1, RESULT_TYPE_FHE_BOOL)
    DefaultKey,     \* Pubkey::default()
    Absent,         \* an address at which no account has been created
    RequestFiles,   \* requests a worker may be handed that are not (yet) on chain
    U64Max,         \* largest u64: every counter and the slot are in 0..U64Max
    MaxSignatures   \* bound on the number of operator signatures ever made

U64 == 0 .. U64Max

\* Fault: `+' in place of checked_add.
FitsU64_Unchecked(x) == TRUE

\* checked_add() returns Some.
FitsU64(x) == x <= U64Max

Accounts == Mints \X Users
RequestKeys == Accounts \X U64

ASSUME U64Assumption == U64Max \in Nat \ {0}
ASSUME LifetimeAssumption == Lifetimes \subseteq U64
ASSUME KindAssumption == PolicyResult \in ResultKinds
ASSUME HashAssumption == ZeroHash \notin InputHashes \cup ResultHashes
ASSUME DefaultKeyAssumption == DefaultKey \notin RequestKeys \cup Operators

VARIABLES
    slot,         \* Clock::get()?.slot
    config,       \* config[m]: the Config of mint m, or Absent
    account,      \* account[a]: the ConfidentialAccount at a, or Absent
    request,      \* request[r]: the Request at r, or Absent
    signed,       \* every [operator, message] an operator has signed
    operatorLog   \* history: operatorLog[m][e] was Config.operator in epoch e

vars == <<slot, config, account, request, signed, operatorLog>>

-----------------------------------------------------------------------------
(* SHA-256 is taken to be injective, so a digest is a tagged copy of what   *)
(* was hashed.                                                              *)
Digest(x) == [sha256 |-> x]

\* Fault: the binding names neither the request nor its account.
RequestBinding_NoAddresses(r, q) ==
    [ balance_hash   |-> q.balance_hash,
      amount_hash    |-> q.amount_hash,
      limit_hash     |-> q.limit_hash,
      params_hash    |-> q.params_hash,
      state_version  |-> q.state_version,
      request_nonce  |-> q.request_nonce,
      key_version    |-> q.key_version,
      operator_epoch |-> q.operator_epoch,
      expiry_slot    |-> q.expiry_slot ]

\* request_binding(): what the request digest and the signature commit to.
RequestBinding(r, q) ==
    [ request_pda          |-> r,
      mint                 |-> q.mint,
      confidential_account |-> q.confidential_account,
      balance_hash         |-> q.balance_hash,
      amount_hash          |-> q.amount_hash,
      limit_hash           |-> q.limit_hash,
      params_hash          |-> q.params_hash,
      state_version        |-> q.state_version,
      request_nonce        |-> q.request_nonce,
      key_version          |-> q.key_version,
      operator_epoch       |-> q.operator_epoch,
      expiry_slot          |-> q.expiry_slot ]

\* ResultBinding: what the operator signs, through encode_result().
ResultBinding(r, q, hash, kind) ==
    [ request        |-> RequestBinding(r, q),
      request_digest |-> q.request_digest,
      result_hash    |-> hash,
      result_kind    |-> kind ]

Bindings ==
    [ request_pda : RequestKeys, mint : Mints, confidential_account : Accounts,
      balance_hash : InputHashes, amount_hash : InputHashes,
      limit_hash : InputHashes, params_hash : InputHashes,
      state_version : U64, request_nonce : U64, key_version : KeyVersions,
      operator_epoch : U64, expiry_slot : U64 ]

ASSUME RequestFilesAssumption == RequestFiles \subseteq Bindings

ResultBindings ==
    [ request : Bindings, request_digest : [sha256 : Bindings],
      result_hash : ResultHashes, result_kind : ResultKinds ]

Statuses == {"pending", "finalized", "cancelled", "expired"}

Configs ==
    [ authority : Users, operator : Operators, operator_epoch : U64,
      key_version : KeyVersions, params_hash : InputHashes,
      max_request_lifetime_slots : U64, paused : BOOLEAN ]

ConfidentialAccounts ==
    [ mint : Mints, owner : Users, balance_ref : InputHashes,
      limit_ref : InputHashes, state_version : U64, request_nonce : U64,
      pending_request : RequestKeys \cup {DefaultKey},
      key_version : KeyVersions ]

Requests ==
    [ requester : Users, mint : Mints, confidential_account : Accounts,
      balance_hash : InputHashes, amount_hash : InputHashes,
      limit_hash : InputHashes, params_hash : InputHashes,
      state_version : U64, request_nonce : U64, key_version : KeyVersions,
      operator_epoch : U64, created_slot : U64, expiry_slot : U64,
      status : Statuses, request_digest : [sha256 : Bindings],
      result_hash : ResultHashes \cup {ZeroHash},
      result_digest : [sha256 : ResultBindings] \cup {ZeroHash} ]

ASSUME AbsentAssumption ==
    Absent \notin Configs \cup ConfidentialAccounts \cup Requests

-----------------------------------------------------------------------------
Init ==
    /\ slot = 0
    /\ config = [m \in Mints |-> Absent]
    /\ account = [a \in Accounts |-> Absent]
    /\ request = [r \in RequestKeys |-> Absent]
    /\ signed = {}
    /\ operatorLog = [m \in Mints |-> [e \in U64 |-> DefaultKey]]

\* require_ct_hash()
RequireCtHash(h) == h # ZeroHash

HasPending(a) == account[a].pending_request # DefaultKey

(***************************************************************************)
(* Administration                                                          *)
(***************************************************************************)
InitializeConfig(authority, m, operator, kv, params, life) ==
    /\ config[m] = Absent
    /\ life > 0
    /\ RequireCtHash(params)
    /\ operator # DefaultKey
    /\ config' = [config EXCEPT ![m] =
           [ authority                  |-> authority,
             operator                   |-> operator,
             operator_epoch             |-> 1,
             key_version                |-> kv,
             params_hash                |-> params,
             max_request_lifetime_slots |-> life,
             paused                     |-> FALSE ]]
    /\ operatorLog' = [operatorLog EXCEPT ![m][1] = operator]
    /\ UNCHANGED <<slot, account, request, signed>>

\* AdminConfig: the signer is the authority the Config was created by.
AdminConfig(signer, m) ==
    /\ config[m] # Absent
    /\ config[m].authority = signer

SetPaused(signer, m, paused) ==
    /\ AdminConfig(signer, m)
    /\ config' = [config EXCEPT ![m].paused = paused]
    /\ UNCHANGED <<slot, account, request, signed, operatorLog>>

\* Fault: a wrapping add, which in time returns to an epoch already used.
NextEpoch_Wrapping(m) == (config[m].operator_epoch + 1) % (U64Max + 1)

NextEpoch(m) == config[m].operator_epoch + 1

RotateOperator(signer, m, operator) ==
    /\ AdminConfig(signer, m)
    /\ operator # DefaultKey
    /\ FitsU64(NextEpoch(m))
    /\ config' = [config EXCEPT ![m].operator = operator,
                                ![m].operator_epoch = NextEpoch(m)]
    /\ operatorLog' = [operatorLog EXCEPT ![m][NextEpoch(m)] = operator]
    /\ UNCHANGED <<slot, account, request, signed>>

SetKeyVersion(signer, m, kv) ==
    /\ AdminConfig(signer, m)
    /\ config' = [config EXCEPT ![m].key_version = kv]
    /\ UNCHANGED <<slot, account, request, signed, operatorLog>>

(***************************************************************************)
(* Confidential accounts                                                   *)
(***************************************************************************)
CreateAccount(owner, m, balance, limit) ==
    LET a == <<m, owner>> IN
    /\ config[m] # Absent
    /\ account[a] = Absent
    /\ RequireCtHash(balance)
    /\ RequireCtHash(limit)
    /\ ~config[m].paused
    /\ account' = [account EXCEPT ![a] =
           [ mint            |-> m,
             owner           |-> owner,
             balance_ref     |-> balance,
             limit_ref       |-> limit,
             state_version   |-> 0,
             request_nonce   |-> 0,
             pending_request |-> DefaultKey,
             key_version     |-> config[m].key_version ]]
    /\ UNCHANGED <<slot, config, request, signed, operatorLog>>

(***************************************************************************)
(* The request lifecycle                                                   *)
(***************************************************************************)
\* Fault: the Request records the account's old nonce.
NewRequest_OldNonce(owner, m, a, nonce, amount) ==
    [ requester            |-> owner,
      mint                 |-> m,
      confidential_account |-> a,
      balance_hash         |-> account[a].balance_ref,
      amount_hash          |-> amount,
      limit_hash           |-> account[a].limit_ref,
      params_hash          |-> config[m].params_hash,
      state_version        |-> account[a].state_version,
      request_nonce        |-> account[a].request_nonce,
      key_version          |-> config[m].key_version,
      operator_epoch       |-> config[m].operator_epoch,
      created_slot         |-> slot,
      expiry_slot          |-> slot + config[m].max_request_lifetime_slots,
      status               |-> "pending",
      request_digest       |-> ZeroHash,
      result_hash          |-> ZeroHash,
      result_digest        |-> ZeroHash ]

\* The Request that submit writes, its digest still to be filled in.
NewRequest(owner, m, a, nonce, amount) ==
    [ requester            |-> owner,
      mint                 |-> m,
      confidential_account |-> a,
      balance_hash         |-> account[a].balance_ref,
      amount_hash          |-> amount,
      limit_hash           |-> account[a].limit_ref,
      params_hash          |-> config[m].params_hash,
      state_version        |-> account[a].state_version,
      request_nonce        |-> nonce,
      key_version          |-> config[m].key_version,
      operator_epoch       |-> config[m].operator_epoch,
      created_slot         |-> slot,
      expiry_slot          |-> slot + config[m].max_request_lifetime_slots,
      status               |-> "pending",
      request_digest       |-> ZeroHash,
      result_hash          |-> ZeroHash,
      result_digest        |-> ZeroHash ]

\* Fault: submit does not look at the lock.
AccountAdmitsSubmit_NoLockCheck(owner, m, a) ==
    /\ account[a].mint = m
    /\ account[a].owner = owner
    /\ account[a].key_version = config[m].key_version

\* Fault: submit does not compare key versions.
AccountAdmitsSubmit_NoKeyVersionCheck(owner, m, a) ==
    /\ ~HasPending(a)
    /\ account[a].mint = m
    /\ account[a].owner = owner

\* The guards of submit that compare the account with its Config.
AccountAdmitsSubmit(owner, m, a) ==
    /\ ~HasPending(a)
    /\ account[a].mint = m
    /\ account[a].owner = owner
    /\ account[a].key_version = config[m].key_version
    /\ RequireCtHash(account[a].balance_ref)
    /\ RequireCtHash(account[a].limit_ref)

Submit(owner, m, amount, expectedVersion, expectedNonce) ==
    LET a == <<m, owner>>
        r == <<a, expectedNonce>>
        q == NewRequest(owner, m, a, expectedNonce, amount)
    IN
    /\ config[m] # Absent
    /\ account[a] # Absent
    /\ request[r] = Absent
    /\ ~config[m].paused
    /\ AccountAdmitsSubmit(owner, m, a)
    /\ RequireCtHash(amount)
    /\ account[a].state_version = expectedVersion
    /\ FitsU64(account[a].request_nonce + 1)
    /\ account[a].request_nonce + 1 = expectedNonce
    /\ FitsU64(slot + config[m].max_request_lifetime_slots)
    /\ request' = [request EXCEPT ![r] =
           [q EXCEPT !.request_digest = Digest(RequestBinding(r, q))]]
    /\ account' = [account EXCEPT ![a].request_nonce = expectedNonce,
                                  ![a].pending_request = r]
    /\ UNCHANGED <<slot, config, signed, operatorLog>>

\* A Request that exists at its own address, and its account with it.
Located(r) ==
    /\ request[r] # Absent
    /\ account[r[1]] # Absent
    /\ request[r].confidential_account = r[1]
    /\ request[r].request_nonce = r[2]

\* Fault: the addresses are checked and the lock is not.
RequirePendingLock_AddressesOnly(r) ==
    request[r].confidential_account = r[1]

\* require_pending_lock()
RequirePendingLock(r) ==
    /\ request[r].status = "pending"
    /\ HasPending(r[1])
    /\ account[r[1]].pending_request = r
    /\ request[r].confidential_account = r[1]

\* release_account_lock(): its checked_add, then the account it leaves.
CanReleaseAccountLock(a) == FitsU64(account[a].state_version + 1)

\* Fault: releasing the lock gives the nonce back.
ReleaseAccountLock_RevertsNonce(a) ==
    [account[a] EXCEPT !.pending_request = DefaultKey,
                       !.state_version = @ + 1,
                       !.request_nonce = @ - 1]

ReleaseAccountLock(a) ==
    [account[a] EXCEPT !.pending_request = DefaultKey,
                       !.state_version = @ + 1]

\* release_lock()
ReleaseLock(r, status) ==
    /\ CanReleaseAccountLock(r[1])
    /\ request' = [request EXCEPT ![r].status = status]
    /\ account' = [account EXCEPT ![r[1]] = ReleaseAccountLock(r[1])]

MayCancel(owner, r) ==
    /\ Located(r)
    /\ r[1] = <<account[r[1]].mint, owner>>
    /\ RequirePendingLock(r)
    /\ account[r[1]].owner = owner
    /\ slot < request[r].expiry_slot

Cancel(owner, r) ==
    /\ MayCancel(owner, r)
    /\ ReleaseLock(r, "cancelled")
    /\ UNCHANGED <<slot, config, signed, operatorLog>>

\* Fault: expire waits one slot longer than cancel and finalize are allowed.
MayExpire_OneSlotLate(r) ==
    /\ Located(r)
    /\ RequirePendingLock(r)
    /\ slot > request[r].expiry_slot

\* Fault: expire is stopped by the pause switch.
MayExpire_PauseGated(r) ==
    /\ Located(r)
    /\ ~config[request[r].mint].paused
    /\ RequirePendingLock(r)
    /\ slot >= request[r].expiry_slot

MayExpire(r) ==
    /\ Located(r)
    /\ r[1] = <<account[r[1]].mint, account[r[1]].owner>>
    /\ RequirePendingLock(r)
    /\ slot >= request[r].expiry_slot

\* Any key may pay for an expire, and it names no Config.
Expire(r) ==
    /\ MayExpire(r)
    /\ ReleaseLock(r, "expired")
    /\ UNCHANGED <<slot, config, signed, operatorLog>>

\* Fault: finalize trusts Config.operator alone and ignores the epoch.
BindingStillCurrent_NoEpochCheck(m, r) ==
    /\ request[r].mint = m
    /\ request[r].key_version = config[m].key_version
    /\ account[r[1]].state_version = request[r].state_version
    /\ account[r[1]].request_nonce = request[r].request_nonce

\* The guards of finalize that compare the Request with Config and account.
BindingStillCurrent(m, r) ==
    LET q == request[r]  acct == account[r[1]] IN
    /\ q.mint = m
    /\ acct.mint = m
    /\ q.operator_epoch = config[m].operator_epoch
    /\ q.key_version = config[m].key_version
    /\ acct.state_version = q.state_version
    /\ acct.request_nonce = q.request_nonce

\* Fault: any message signed by the operator will do.
VerifyOperatorMessage_AnyMessage(operator, message) ==
    \E s \in signed : s.operator = operator

\* verify_operator_message(): the adjacent Ed25519 instruction carries a
\* signature of this very message by Config.operator.
VerifyOperatorMessage(operator, message) ==
    [operator |-> operator, message |-> message] \in signed

Finalize(m, r, hash, kind) ==
    LET q == request[r]
        message == ResultBinding(r, q, hash, kind)
    IN
    /\ config[m] # Absent
    /\ Located(r)
    /\ r[1] = <<m, account[r[1]].owner>>
    /\ ~config[m].paused
    /\ RequirePendingLock(r)
    /\ BindingStillCurrent(m, r)
    /\ kind = PolicyResult
    /\ RequireCtHash(hash)
    /\ slot < q.expiry_slot
    /\ Digest(message.request) = q.request_digest
    /\ VerifyOperatorMessage(config[m].operator, message)
    /\ CanReleaseAccountLock(r[1])
    /\ request' = [request EXCEPT ![r].status = "finalized",
                                  ![r].result_hash = hash,
                                  ![r].result_digest = Digest(message)]
    /\ account' = [account EXCEPT ![r[1]] = ReleaseAccountLock(r[1])]
    /\ UNCHANGED <<slot, config, signed, operatorLog>>

(***************************************************************************)
(* The world outside the program                                           *)
(***************************************************************************)
\* The ResultBinding that process_request() makes of a RequestBinding.
SignedResult(binding, hash) ==
    [ request        |-> binding,
      request_digest |-> Digest(binding),
      result_hash    |-> hash,
      result_kind    |-> PolicyResult ]

\* A worker evaluates the request in a file it was handed, and signs with the
\* key it has on disk.  It never looks at the chain: the request may be live,
\* stale or settled, one that is submitted later, or one of another chain.
\* What the checks on keys and blobs achieve is the business of KeyMaterial.
ProcessRequest(operator, binding, hash) ==
    /\ Cardinality(signed) < MaxSignatures
    /\ signed' = signed \cup
           {[operator |-> operator, message |-> SignedResult(binding, hash)]}
    /\ UNCHANGED <<slot, config, account, request, operatorLog>>

Exists(r) == request[r] # Absent

\* request.json as submit and fetch-request write it, or any other file.
FilesAtHand ==
    RequestFiles \cup {RequestBinding(r, request[r]) : r \in {s \in RequestKeys : Exists(s)}}

Tick ==
    /\ slot < U64Max
    /\ slot' = slot + 1
    /\ UNCHANGED <<config, account, request, signed, operatorLog>>

-----------------------------------------------------------------------------
Administer(m) ==
    \E u \in Users :
        \/ \E op \in Operators \cup {DefaultKey}, kv \in KeyVersions,
              params \in InputHashes \cup {ZeroHash}, life \in Lifetimes :
               InitializeConfig(u, m, op, kv, params, life)
        \/ \E paused \in BOOLEAN : SetPaused(u, m, paused)
        \/ \E op \in Operators \cup {DefaultKey} : RotateOperator(u, m, op)
        \/ \E kv \in KeyVersions : SetKeyVersion(u, m, kv)

Use(m) ==
    \E u \in Users :
        \/ \E balance, limit \in InputHashes \cup {ZeroHash} :
               CreateAccount(u, m, balance, limit)
        \/ \E amount \in InputHashes \cup {ZeroHash}, v, n \in U64 :
               Submit(u, m, amount, v, n)

Settle(r) ==
    \/ \E u \in Users : Cancel(u, r)
    \/ Expire(r)
    \/ \E m \in Mints, hash \in ResultHashes \cup {ZeroHash},
          kind \in ResultKinds : Finalize(m, r, hash, kind)

Next ==
    \/ \E m \in Mints : Administer(m) \/ Use(m)
    \/ \E r \in RequestKeys : Settle(r)
    \/ \E op \in Operators, binding \in FilesAtHand, hash \in ResultHashes :
           ProcessRequest(op, binding, hash)
    \/ Tick

Spec == Init /\ [][Next]_vars

(***************************************************************************)
(* Slots keep being produced.  Nobody inside the repository is bound to    *)
(* send an expire, but anyone may: the second conjunct is the assumption   *)
(* that somebody does, and liveness properties rest on it by name.         *)
(***************************************************************************)
SlotsAdvance == WF_vars(Tick)
SomeoneExpires == \A r \in RequestKeys : WF_vars(Expire(r))

FairSpec == Spec /\ SlotsAdvance /\ SomeoneExpires

-----------------------------------------------------------------------------
HasStatus(r, status) == Exists(r) /\ request[r].status = status
Pending(r) == HasStatus(r, "pending")
Finalized(r) == HasStatus(r, "finalized")

(***************************************************************************)
(* Every stored value stays in its type: in particular no u64 that a       *)
(* handler adds to (nonce, state version, epoch, expiry) leaves its width. *)
(***************************************************************************)
TypeOK ==
    /\ slot \in U64
    /\ config \in [Mints -> Configs \cup {Absent}]
    /\ account \in [Accounts -> ConfidentialAccounts \cup {Absent}]
    /\ request \in [RequestKeys -> Requests \cup {Absent}]
    /\ signed \subseteq [operator : Operators, message : ResultBindings]
    /\ operatorLog \in [Mints -> [U64 -> Operators \cup {DefaultKey}]]

(***************************************************************************)
(* Every record lies at the address its own fields derive.  cancel, expire *)
(* and finalize re-derive the PDAs from those fields, so a record that did *)
(* not could never be settled.                                             *)
(***************************************************************************)
RecordsAtHome ==
    /\ \A a \in Accounts :
           account[a] # Absent =>
               /\ a = <<account[a].mint, account[a].owner>>
               /\ config[account[a].mint] # Absent
    /\ \A r \in RequestKeys :
           Exists(r) =>
               /\ r = <<request[r].confidential_account,
                        request[r].request_nonce>>
               /\ account[r[1]] # Absent
               /\ r[1] = <<request[r].mint, request[r].requester>>

(***************************************************************************)
(* The lock is kept twice -- in ConfidentialAccount.pending_request and in *)
(* Request.status -- and submit, cancel, expire and finalize keep the two  *)
(* in step: a Request is pending exactly when its account points at it.    *)
(***************************************************************************)
LockCoherence ==
    \A r \in RequestKeys :
        Pending(r) <=> /\ account[r[1]] # Absent
                       /\ account[r[1]].pending_request = r

(***************************************************************************)
(* Nonce, state version and lock count the same thing.  submit and         *)
(* release_account_lock bump different counters, so the version lags the   *)
(* nonce by the one request in flight; the request PDAs that exist are     *)
(* exactly those of nonces 1..request_nonce, so the address the next       *)
(* submit must init is free; and the n-th request binds version n-1.       *)
(***************************************************************************)
NonceAccounting ==
    \A a \in Accounts :
        /\ account[a] # Absent =>
               account[a].request_nonce =
                   account[a].state_version + (IF HasPending(a) THEN 1 ELSE 0)
        /\ \A n \in U64 :
               Exists(<<a, n>>) <=> /\ account[a] # Absent
                                    /\ n \in 1 .. account[a].request_nonce
        /\ \A n \in U64 :
               Exists(<<a, n>>) => request[<<a, n>>].state_version = n - 1

(***************************************************************************)
(* No lock is ever stuck: whatever the authority does (pause, rotation,    *)
(* key bump) and in every slot, the owner may cancel a pending request or  *)
(* anyone may expire it, and the checked_add in release_account_lock does  *)
(* not fail.                                                               *)
(***************************************************************************)
LockReleasable ==
    \A r \in RequestKeys :
        Pending(r) =>
            /\ CanReleaseAccountLock(r[1])
            /\ MayExpire(r) \/ MayCancel(request[r].requester, r)

(***************************************************************************)
(* set_key_version writes the Config only, and the account keeps the       *)
(* version its ciphertexts were encrypted under: no request ever binds     *)
(* the account's ciphertexts to another evaluation-key generation.         *)
(***************************************************************************)
RequestUsesAccountKeyVersion ==
    \A r \in RequestKeys :
        Exists(r) => request[r].key_version = account[r[1]].key_version

(***************************************************************************)
(* A finalized result was signed, for this very request, by the operator   *)
(* the Config named when the request was submitted -- across any number of *)
(* rotations, also ones that return to an earlier key.                     *)
(***************************************************************************)
BoundOperator(r) == operatorLog[request[r].mint][request[r].operator_epoch]

AttestationFor(r, hash) ==
    [ operator |-> BoundOperator(r),
      message  |-> ResultBinding(r, request[r], hash, PolicyResult) ]

FinalizedByBoundOperator ==
    \A r \in RequestKeys :
        Finalized(r) =>
            LET attestation == AttestationFor(r, request[r].result_hash) IN
            /\ attestation \in signed
            /\ request[r].result_digest = Digest(attestation.message)

(***************************************************************************)
(* One operator signature settles at most one request: no two finalized    *)
(* requests, of one account or of two, carry the same result digest.       *)
(***************************************************************************)
NoAttestationReplay ==
    \A r, s \in RequestKeys :
        Finalized(r) /\ Finalized(s) /\ r # s =>
            request[r].result_digest # request[s].result_digest

(***************************************************************************)
(* Rotation revokes: once rotate_operator has moved the epoch past a       *)
(* pending request, no sequence of instructions makes it finalizable       *)
(* again; it can only be cancelled or expire.                              *)
(***************************************************************************)
StaleEpoch(r) ==
    Pending(r) /\ request[r].operator_epoch # config[request[r].mint].operator_epoch

RotationRevokes ==
    [][\A r \in RequestKeys :
           StaleEpoch(r) => \/ StaleEpoch(r)'
                            \/ HasStatus(r, "cancelled")'
                            \/ HasStatus(r, "expired")']_vars

(***************************************************************************)
(* A settled request is history: nothing in it changes again, and a        *)
(* pending one keeps everything the operator's signature commits to.       *)
(***************************************************************************)
SettledIsFinal ==
    [][\A r \in RequestKeys :
           Exists(r) =>
               /\ Exists(r)'
               /\ RequestBinding(r, request[r])' = RequestBinding(r, request[r])
               /\ ~Pending(r) => request'[r] = request[r]]_vars

(***************************************************************************)
(* If somebody sends an expire once it is due, every submitted request is  *)
(* settled in the end, although cancel is up to the owner and finalize     *)
(* may be out of reach for ever.                                           *)
(***************************************************************************)
EveryRequestSettles ==
    \A r \in RequestKeys : Pending(r) ~> (Exists(r) /\ ~Pending(r))

=============================================================================
