---------------------- MODULE CoordinatorAttestationProofs ----------------------
(***************************************************************************)
(* Finalized results and operator signatures.  The argument is that the    *)
(* operator of an epoch is fixed once the epoch has begun: rotate_operator *)
(* and initialize_config write the history only at an epoch no request is  *)
(* of yet.                                                                 *)
(***************************************************************************)
EXTENDS CoordinatorStepProofs

USE U64Assumption DEF U64

\* The operator a Config names is the one its current epoch began with.
OperatorOfEpoch ==
    \A m \in Mints :
        config[m] # Absent =>
            operatorLog[m][config[m].operator_epoch] = config[m].operator

AInv == EInv /\ OperatorOfEpoch /\ FinalizedByBoundOperator

LEMMA InitAInv == Init => AInv
<1> SUFFICES ASSUME Init PROVE AInv
  OBVIOUS
<1>1. OperatorOfEpoch /\ FinalizedByBoundOperator
  BY DEF Init, OperatorOfEpoch, FinalizedByBoundOperator, Finalized, HasStatus,
         Exists
<1> QED
  BY <1>1, InitEInv DEF AInv

\* Only these two instructions write the history, each at one epoch.
LEMMA LogStep ==
    ASSUME EInv, [Next]_vars
    PROVE  \/ UNCHANGED operatorLog
           \/ \E m \in Mints, u \in Users, op \in Operators \cup {DefaultKey} :
                  \/ /\ config[m] = Absent
                     /\ operatorLog' = [operatorLog EXCEPT ![m][1] = op]
                  \/ RotateOperator(u, m, op)
<1>1. ASSUME NEW m \in Mints, Use(m)
      PROVE  UNCHANGED operatorLog
  BY <1>1, ZenonT(60) DEF Use, CreateAccount, Submit
<1>2. ASSUME NEW r \in RequestKeys, Settle(r)
      PROVE  UNCHANGED operatorLog
  BY <1>2 DEF Settle, Cancel, Expire, Finalize
<1>3. CASE \/ \E op \in Operators, binding \in FilesAtHand, hash \in ResultHashes :
                  ProcessRequest(op, binding, hash)
           \/ Tick
           \/ UNCHANGED vars
  BY <1>3 DEF ProcessRequest, Tick, vars
<1>4. CASE \E m \in Mints : Administer(m)
  BY <1>4 DEF Administer, InitializeConfig, SetPaused, SetKeyVersion
<1> QED
  BY <1>1, <1>2, <1>3, <1>4 DEF Next

\* An epoch that has begun keeps its operator.
LEMMA LogFrozen ==
    ASSUME EInv, [Next]_vars, NEW m \in Mints, config[m] # Absent,
           NEW e \in U64, e <= config[m].operator_epoch
    PROVE  operatorLog'[m][e] = operatorLog[m][e]
<1>1. config[m] \in Configs /\ config[m].operator_epoch \in Int
  BY ConfigRead DEF EInv, IInv, Configs
<1>2. ASSUME NEW n \in Mints, NEW op \in Operators \cup {DefaultKey},
             config[n] = Absent,
             operatorLog' = [operatorLog EXCEPT ![n][1] = op]
      PROVE  operatorLog'[m][e] = operatorLog[m][e]
  BY <1>2 DEF EInv, IInv, TypeOK
<1>3. ASSUME NEW n \in Mints, NEW u \in Users,
             NEW op \in Operators \cup {DefaultKey}, RotateOperator(u, n, op)
      PROVE  operatorLog'[m][e] = operatorLog[m][e]
  <2>1. CASE n # m
    BY <1>3, <2>1 DEF RotateOperator, EInv, IInv, TypeOK
  <2>2. CASE n = m
    BY <1>1, <1>3, <2>2 DEF RotateOperator, NextEpoch, EInv, IInv, TypeOK
  <2> QED
    BY <2>1, <2>2
<1> QED
  BY <1>2, <1>3, LogStep

LEMMA NextOperatorOfEpoch ==
    ASSUME AInv, [Next]_vars
    PROVE  OperatorOfEpoch'
<1> SUFFICES ASSUME NEW m \in Mints, config'[m] # Absent
             PROVE  operatorLog'[m][config'[m].operator_epoch]
                        = config'[m].operator
  BY DEF OperatorOfEpoch
<1>1. CASE config'[m] = config[m]
  <2>1. config[m].operator_epoch \in U64
    BY <1>1, ConfigRead DEF AInv, EInv, IInv, Configs
  <2> QED
    BY <1>1, <2>1, LogFrozen DEF AInv, OperatorOfEpoch
<1>2. CASE config'[m] # config[m]
  <2>1. PICK n \in Mints : Administer(n)
    BY <1>2, ConfigStep
  <2>2. n = m
    BY <1>2, <2>1, AdministerEffect DEF AInv, EInv, IInv, TypeOK
  <2>3. ASSUME NEW u \in Users, NEW op \in Operators \cup {DefaultKey},
               NEW kv \in KeyVersions, NEW life \in Lifetimes,
               NEW params \in InputHashes \cup {ZeroHash},
               InitializeConfig(u, m, op, kv, params, life)
        PROVE  operatorLog'[m][config'[m].operator_epoch]
                   = config'[m].operator
    BY <2>3 DEF InitializeConfig, AInv, EInv, IInv, TypeOK
  <2>4. ASSUME NEW u \in Users, NEW op \in Operators \cup {DefaultKey},
               RotateOperator(u, m, op)
        PROVE  operatorLog'[m][config'[m].operator_epoch]
                   = config'[m].operator
    <3>1. config[m] \in Configs
      BY <2>4, ConfigRead DEF RotateOperator, AdminConfig, AInv, EInv, IInv
    <3>2. NextEpoch(m) \in U64
      BY <2>4, <3>1 DEF RotateOperator, NextEpoch, FitsU64, Configs
    <3>3. config'[m] = [config[m] EXCEPT !.operator = op,
                                         !.operator_epoch = NextEpoch(m)]
      BY <2>4 DEF RotateOperator, AInv, EInv, IInv, TypeOK
    <3>4. config'[m].operator = op /\ config'[m].operator_epoch = NextEpoch(m)
      BY <3>1, <3>3 DEF Configs
    <3>5. operatorLog'[m][NextEpoch(m)] = op
      BY <2>4, <3>2 DEF RotateOperator, AInv, EInv, IInv, TypeOK
    <3> QED
      BY <3>4, <3>5
  <2>5. ASSUME NEW u \in Users,
               \/ \E paused \in BOOLEAN : SetPaused(u, m, paused)
               \/ \E kv \in KeyVersions : SetKeyVersion(u, m, kv)
        PROVE  operatorLog'[m][config'[m].operator_epoch]
                   = config'[m].operator
    <3>1. config[m] \in Configs /\ config[m] # Absent
      BY <2>5, ConfigRead
         DEF SetPaused, SetKeyVersion, AdminConfig, AInv, EInv, IInv
    <3>2. /\ config'[m].operator = config[m].operator
          /\ config'[m].operator_epoch = config[m].operator_epoch
          /\ UNCHANGED operatorLog
      BY <2>5, <3>1
         DEF SetPaused, SetKeyVersion, AInv, EInv, IInv, TypeOK, Configs
    <3> QED
      BY <3>1, <3>2 DEF AInv, OperatorOfEpoch
  <2> QED
    BY <2>1, <2>2, <2>3, <2>4, <2>5 DEF Administer
<1> QED
  BY <1>1, <1>2

\* The attestation a request would be finalized with does not change.
LEMMA AttestationFrozen ==
    ASSUME EInv, [Next]_vars, NEW r \in RequestKeys, Exists(r), NEW hash
    PROVE  AttestationFor(r, hash)' = AttestationFor(r, hash)
<1>1. /\ request[r] \in Requests
      /\ config[request[r].mint] # Absent
      /\ request[r].operator_epoch <= config[request[r].mint].operator_epoch
  BY RequestRead DEF EInv, IInv, EpochOrder, Exists
<1>2. request[r].mint \in Mints /\ request[r].operator_epoch \in U64
  BY <1>1 DEF Requests
<1>3. /\ request'[r].mint = request[r].mint
      /\ request'[r].operator_epoch = request[r].operator_epoch
      /\ request'[r].request_digest = request[r].request_digest
      /\ RequestBinding(r, request'[r]) = RequestBinding(r, request[r])
  <2>1. CASE Untouched(r)
    BY <2>1 DEF Untouched
  <2>2. CASE SettledInStep(r)
    <3>1. \A status, hsh, digest :
              Settled(request[r], status, hsh, digest).request_digest
                  = request[r].request_digest
      BY <1>1 DEF Settled, Requests
    <3> QED
      BY <1>1, <2>2, <3>1, SettledFields DEF SettledInStep
  <2> QED
    BY <2>1, <2>2, RequestStep DEF EInv
<1>4. BoundOperator(r)' = BoundOperator(r)
  BY <1>1, <1>2, <1>3, LogFrozen DEF BoundOperator
<1> QED
  BY <1>3, <1>4 DEF AttestationFor, ResultBinding

LEMMA NextFinalizedByBoundOperator ==
    ASSUME AInv, [Next]_vars
    PROVE  FinalizedByBoundOperator'
<1> SUFFICES ASSUME NEW r \in RequestKeys, Finalized(r)'
             PROVE  LET attestation == AttestationFor(r, request[r].result_hash)'
                    IN  /\ attestation \in signed'
                        /\ request'[r].result_digest
                               = Digest(attestation.message)
  BY DEF FinalizedByBoundOperator
<1>1. CASE Exists(r) /\ Untouched(r)
  <2>1. Finalized(r)
    BY <1>1 DEF Finalized, HasStatus, Untouched, Exists
  <2>2. AttestationFor(r, request[r].result_hash)'
            = AttestationFor(r, request[r].result_hash)
    BY <1>1, AttestationFrozen
       DEF AInv, Untouched, AttestationFor, ResultBinding
  <2> QED
    BY <1>1, <2>1, <2>2, SignedGrows
       DEF AInv, FinalizedByBoundOperator, Untouched
<1>2. CASE Exists(r) /\ Settle(r)
  <2>1. request[r] \in Requests
    BY <1>2, RequestRead DEF AInv, EInv, IInv, Exists
  <2>2. PICK m \in Mints, hash \in ResultHashes \cup {ZeroHash},
             kind \in ResultKinds : Finalize(m, r, hash, kind)
    <3>1. ASSUME NEW s \in {"cancelled", "expired"}, ReleaseLock(r, s)
          PROVE  FALSE
      <4>1. request'[r].status = s
        BY <2>1, <3>1 DEF ReleaseLock, AInv, EInv, IInv, TypeOK, Requests
      <4> QED
        BY <4>1 DEF Finalized, HasStatus
    <3> QED
      BY <1>2, <3>1 DEF Settle, Cancel, Expire
  <2> DEFINE message == ResultBinding(r, request[r], hash, PolicyResult)
  <2>3. /\ config[m] # Absent
        /\ request[r].mint = m
        /\ request[r].operator_epoch = config[m].operator_epoch
        /\ [operator |-> config[m].operator, message |-> message] \in signed
        /\ UNCHANGED signed
    BY <2>2 DEF Finalize, BindingStillCurrent, VerifyOperatorMessage
  <2>4. /\ request'[r].result_hash = hash
        /\ request'[r].result_digest = Digest(message)
    BY <2>1, <2>2 DEF Finalize, AInv, EInv, IInv, TypeOK, Requests
  <2>5. BoundOperator(r) = config[m].operator
    BY <2>3 DEF AInv, OperatorOfEpoch, BoundOperator
  <2>6. AttestationFor(r, hash) = [ operator |-> config[m].operator,
                                    message  |-> message ]
    BY <2>5 DEF AttestationFor
  <2>7. AttestationFor(r, request[r].result_hash)' = AttestationFor(r, hash)
    <3>1. AttestationFor(r, hash)' = AttestationFor(r, hash)
      BY <1>2, AttestationFrozen DEF AInv
    <3> QED
      BY <2>4, <3>1 DEF AttestationFor, ResultBinding
  <2> HIDE DEF message
  <2> QED
    BY <2>3, <2>4, <2>6, <2>7
<1>3. CASE ~Exists(r)
  <2>1. request'[r].status = "pending"
    BY <1>3, NewRequestStep DEF AInv, EInv, Finalized, HasStatus, Exists
  <2> QED
    BY <2>1 DEF Finalized, HasStatus
<1> QED
  BY <1>1, <1>2, <1>3, RequestStep DEF AInv, EInv

LEMMA NextAInv == AInv /\ [Next]_vars => AInv'
<1> SUFFICES ASSUME AInv, [Next]_vars PROVE AInv'
  OBVIOUS
<1> QED
  BY NextEInv, NextOperatorOfEpoch, NextFinalizedByBoundOperator DEF AInv

(***************************************************************************)
(* Every finalized result carries a signature, over this very request and  *)
(* result, by the operator of the epoch the request was submitted in.      *)
(***************************************************************************)
THEOREM ResultsAttested == Spec => []FinalizedByBoundOperator
<1>1. AInv => FinalizedByBoundOperator
  BY DEF AInv
<1> QED
  BY <1>1, InitAInv, NextAInv, PTL DEF Spec

(***************************************************************************)
(* No signature finalizes two requests: what is signed names the request   *)
(* PDA, so equal result digests are digests of the same request.           *)
(***************************************************************************)
THEOREM AttestationsSpentOnce == Spec => []NoAttestationReplay
<1>1. ASSUME AInv PROVE NoAttestationReplay
  <2> SUFFICES ASSUME NEW r \in RequestKeys, NEW s \in RequestKeys,
                      Finalized(r), Finalized(s),
                      request[r].result_digest = request[s].result_digest
               PROVE  r = s
    BY DEF NoAttestationReplay
  <2>1. ASSUME NEW t \in RequestKeys, Finalized(t)
        PROVE  request[t].result_digest.sha256.request.request_pda = t
    <3>1. request[t].result_digest =
              Digest(AttestationFor(t, request[t].result_hash).message)
      BY <1>1, <2>1 DEF AInv, FinalizedByBoundOperator
    <3> QED
      BY <3>1 DEF Digest, AttestationFor, ResultBinding, RequestBinding
  <2> QED
    BY <2>1
<1> QED
  BY <1>1, InitAInv, NextAInv, PTL DEF Spec

=============================================================================
