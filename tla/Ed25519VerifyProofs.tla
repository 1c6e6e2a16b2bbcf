-------------------------- MODULE Ed25519VerifyProofs --------------------------
(***************************************************************************)
(* What the coordinator's look-back accepts has been verified, and what    *)
(* the client builds is accepted, for every set of transactions, keys,     *)
(* messages and sizes.                                                     *)
(***************************************************************************)
EXTENDS Ed25519Verify, SequenceTheorems, TLAPS

---------------------------------------------------------------------------
(* Proof: AttestationGenuine, for every set of transactions *)

\* The native program has run on every Ed25519 instruction already passed,
\* and what it verified is on record.
PrecompileHasRun ==
    \A pos \in DOMAIN tx :
        (pos < current /\ tx[pos].program = "ed25519") =>
            /\ PrecompileAccepts(tx[pos], pos)
            /\ VerifiedBy(tx[pos], pos) \subseteq verified

VInv ==
    /\ tx \in Transactions
    /\ current \in Nat \ {0}
    /\ PrecompileHasRun
    /\ AttestationGenuine

\* A transaction is a finite sequence.
LEMMA Positions ==
    ASSUME tx \in Transactions
    PROVE  DOMAIN tx = 1 .. Len(tx) /\ Len(tx) \in Nat
<1>1. tx \in Seq({tx[i] : i \in DOMAIN tx})
  BY TransactionsAssumption
<1> QED
  BY <1>1, LenProperties

LEMMA PositionsAreNat == VInv => DOMAIN tx \subseteq Nat
BY Positions DEF VInv

\* Passing an instruction that is not Ed25519 keeps the record complete.
LEMMA OthersKeepRecord ==
    ASSUME VInv, tx' = tx, verified' = verified, current' = current + 1,
           tx[current].program # "ed25519"
    PROVE  PrecompileHasRun'
<1> SUFFICES ASSUME NEW pos \in DOMAIN tx,
                    pos < current + 1, tx[pos].program = "ed25519"
             PROVE  /\ PrecompileAccepts(tx[pos], pos)
                    /\ VerifiedBy(tx[pos], pos) \subseteq verified
  BY DEF PrecompileHasRun, PrecompileAccepts, EntryVerifies, VerifiedBy,
         RefersToInstruction, DataAt
<1>1. pos # current
  OBVIOUS
<1>2. pos < current
  BY <1>1, PositionsAreNat DEF VInv
<1> QED
  BY <1>2 DEF VInv, PrecompileHasRun

\* The look-back is sound: what it accepts, the native program has verified,
\* because both read the same slices of the same instruction.
LEMMA LookBackSound ==
    ASSUME VInv, current \in DOMAIN tx, NEW operator, NEW message,
           VerifyOperatorMessage(current, operator, message)
    PROVE  /\ <<operator, message>> \in verified
           /\ \E triple \in Signatures : triple[2] = operator /\ triple[3] = message
<1> DEFINE ed == tx[current - 1]
           e == ed.entries[1]
<1>1. current - 1 \in DOMAIN tx /\ current - 1 < current /\ current - 1 \in Nat
  <2>1. current > 1
    BY DEF VerifyOperatorMessage
  <2>2. DOMAIN tx = 1 .. Len(tx) /\ Len(tx) \in Nat
    BY Positions DEF VInv
  <2> QED
    BY <2>1, <2>2
<1>2. PrecompileAccepts(ed, current - 1) /\ VerifiedBy(ed, current - 1) \subseteq verified
  BY <1>1 DEF VInv, PrecompileHasRun, VerifyOperatorMessage
<1>3. ed.count = 1
  BY DEF VerifyOperatorMessage, CountsOneSignature
<1>4. EntryVerifies(e, current - 1)
  BY <1>2, <1>3 DEF PrecompileAccepts
<1>5. /\ DataAt(e.sig_ix, current - 1) = ed.data
      /\ DataAt(e.pk_ix, current - 1) = ed.data
      /\ DataAt(e.msg_ix, current - 1) = ed.data
  BY <1>1 DEF VerifyOperatorMessage, IndexIsSelf, DataAt, VInv
<1>6. /\ Slice(DataAt(e.pk_ix, current - 1), e.pk_off, PubkeySize) = operator
      /\ Slice(DataAt(e.msg_ix, current - 1), e.msg_off, e.msg_sz) = message
  BY <1>5 DEF VerifyOperatorMessage
<1>7. <<operator, message>> \in VerifiedBy(ed, current - 1)
  BY <1>3, <1>6 DEF VerifiedBy
<1>8. <<Slice(DataAt(e.sig_ix, current - 1), e.sig_off, SignatureSize),
        operator, message>> \in Signatures
  BY <1>4, <1>6 DEF EntryVerifies
<1> QED
  BY <1>2, <1>7, <1>8

LEMMA VInvInit == Init => VInv
<1> SUFFICES ASSUME Init PROVE VInv
  OBVIOUS
<1>1. tx \in Transactions /\ current = 1 /\ accepted = {}
  BY DEF Init
<1>2. ASSUME NEW pos \in DOMAIN tx PROVE ~(pos < current)
  BY <1>1, Positions
<1> QED
  BY <1>1, <1>2 DEF VInv, PrecompileHasRun, AttestationGenuine

LEMMA VInvStep == VInv /\ [Next]_vars => VInv'
<1> SUFFICES ASSUME VInv, [Next]_vars PROVE VInv'
  OBVIOUS
<1>1. CASE Ed25519Program
  <2>1. tx' = tx /\ accepted' = accepted /\ current' = current + 1
    BY <1>1 DEF Ed25519Program
  <2>2. verified \subseteq verified'
    BY <1>1 DEF Ed25519Program
  <2>3. PrecompileHasRun'
    <3> SUFFICES ASSUME NEW pos \in DOMAIN tx,
                        pos < current + 1, tx[pos].program = "ed25519"
                 PROVE  /\ PrecompileAccepts(tx[pos], pos)
                        /\ VerifiedBy(tx[pos], pos) \subseteq verified'
      BY <2>1 DEF PrecompileHasRun, PrecompileAccepts, EntryVerifies, VerifiedBy,
                  RefersToInstruction, DataAt
    <3>1. CASE pos = current
      BY <1>1, <3>1 DEF Ed25519Program
    <3>2. CASE pos # current
      <4>1. pos < current
        BY <3>2, PositionsAreNat DEF VInv
      <4> QED
        BY <4>1, <2>2 DEF VInv, PrecompileHasRun
    <3> QED
      BY <3>1, <3>2
  <2>4. AttestationGenuine'
    BY <2>1, <2>2 DEF VInv, AttestationGenuine
  <2> QED
    BY <2>1, <2>3, <2>4 DEF VInv
<1>2. CASE Finalize
  <2> DEFINE pair == <<tx[current].operator, tx[current].message>>
  <2>1. /\ tx' = tx /\ verified' = verified /\ current' = current + 1
        /\ accepted' = accepted \cup {pair}
    BY <1>2 DEF Finalize
  <2>2. /\ current \in DOMAIN tx /\ tx[current].program = "coordinator"
        /\ VerifyOperatorMessage(current, tx[current].operator, tx[current].message)
    BY <1>2 DEF Finalize, Executing
  <2>3. /\ pair \in verified
        /\ \E triple \in Signatures : triple[2] = pair[1] /\ triple[3] = pair[2]
    BY <2>2, LookBackSound
  <2>4. AttestationGenuine'
    BY <2>1, <2>3 DEF VInv, AttestationGenuine
  <2>5. PrecompileHasRun'
    BY <2>1, <2>2, OthersKeepRecord
  <2> QED
    BY <2>1, <2>4, <2>5 DEF VInv
<1>3. CASE OtherProgram
  <2>1. /\ tx' = tx /\ verified' = verified /\ current' = current + 1
        /\ accepted' = accepted /\ tx[current].program = "other"
    BY <1>3 DEF OtherProgram, Executing
  <2>2. PrecompileHasRun'
    BY <2>1, OthersKeepRecord
  <2> QED
    BY <2>1, <2>2 DEF VInv, AttestationGenuine
<1>4. CASE Abort \/ Commit \/ UNCHANGED vars
  <2>1. /\ tx' = tx /\ verified' = verified /\ current' = current
        /\ accepted' \in {accepted, {}}
    BY <1>4 DEF Abort, Commit, vars
  <2>2. PrecompileHasRun'
    BY <2>1 DEF VInv, PrecompileHasRun, PrecompileAccepts, EntryVerifies, VerifiedBy,
                RefersToInstruction, DataAt
  <2> QED
    BY <2>1, <2>2 DEF VInv, AttestationGenuine
<1> QED
  BY <1>1, <1>2, <1>3, <1>4 DEF Next

\* An accepted finalize has a genuine signature by its operator over its
\* message, verified in its own transaction, for all transactions, keys,
\* messages and sizes (ed25519.rs, verify_operator_message).
THEOREM AcceptedIsVerified == Spec => []AttestationGenuine
<1>1. VInv => AttestationGenuine
  BY DEF VInv
<1> QED
  BY VInvInit, VInvStep, <1>1, PTL DEF Spec

-----------------------------------------------------------------------------
(* Slices of concatenations.                                               *)
LEMMA SliceMiddle ==
    ASSUME NEW S, NEW a \in Seq(S), NEW b \in Seq(S), NEW c \in Seq(S)
    PROVE  Slice((a \o b) \o c, Len(a), Len(b)) = b
<1> DEFINE s == (a \o b) \o c
           t == SubSeq(s, Len(a) + 1, Len(a) + Len(b))
<1>1. /\ Len(a) \in Nat /\ Len(b) \in Nat /\ Len(c) \in Nat
      /\ a \o b \in Seq(S) /\ Len(a \o b) = Len(a) + Len(b)
  BY ConcatProperties, LenProperties
<1>2. ASSUME NEW i \in 1 .. Len(b)
      PROVE  s[Len(a) + i] = b[i]
  <2>1. s[Len(a) + i] = (a \o b)[Len(a) + i]
    BY <1>1, ConcatProperties
  <2>2. (a \o b)[Len(a) + i] = b[i]
    BY <1>1, ConcatProperties
  <2> QED
    BY <2>1, <2>2
<1>3. \A j \in Len(a) + 1 .. Len(a) + Len(b) : s[j] \in S
  <2> SUFFICES ASSUME NEW j \in Len(a) + 1 .. Len(a) + Len(b) PROVE s[j] \in S
    OBVIOUS
  <2>1. j - Len(a) \in 1 .. Len(b) /\ Len(a) + (j - Len(a)) = j
    BY <1>1
  <2> QED
    BY <1>1, <1>2, <2>1, LenProperties
<1> HIDE DEF s
<1>4. /\ t \in Seq(S)
      /\ Len(t) = Len(b)
      /\ \A i \in 1 .. Len(b) : t[i] = s[Len(a) + i]
  <2>1. Len(a) + 1 \in Int /\ Len(a) + Len(b) \in Int
    BY <1>1
  <2>2. /\ t \in Seq(S)
        /\ Len(t) = IF Len(a) + 1 <= Len(a) + Len(b)
                    THEN Len(a) + Len(b) - (Len(a) + 1) + 1 ELSE 0
        /\ \A i \in 1 .. Len(a) + Len(b) - (Len(a) + 1) + 1 :
               t[i] = s[Len(a) + 1 + i - 1]
    BY <1>3, <2>1, SubSeqProperties
  <2> HIDE DEF t
  <2>3. Len(a) + Len(b) - (Len(a) + 1) + 1 = Len(b)
    BY <1>1
  <2>4. \A i \in 1 .. Len(b) : Len(a) + 1 + i - 1 = Len(a) + i
    BY <1>1
  <2> QED
    BY <1>1, <2>2, <2>3, <2>4
<1> HIDE DEF t
<1>5. t = b
  BY <1>1, <1>2, <1>4, SeqEqual
<1> QED
  BY <1>5 DEF Slice, s, t

LEMMA SliceOfFront ==
    ASSUME NEW S, NEW a \in Seq(S), NEW b \in Seq(S), NEW c \in Seq(S), NEW d \in Seq(S)
    PROVE  Slice(((a \o b) \o c) \o d, Len(a), Len(b)) = b
<1>1. ((a \o b) \o c) \o d = (a \o b) \o (c \o d)
  <2>1. a \o b \in Seq(S)
    BY ConcatProperties
  <2> QED
    BY <2>1, ConcatAssociative
<1>2. c \o d \in Seq(S)
  BY ConcatProperties
<1>3. Slice((a \o b) \o (c \o d), Len(a), Len(b)) = b
  BY <1>2, SliceMiddle
<1> QED
  BY <1>1, <1>3

LEMMA SliceOfEnd ==
    ASSUME NEW S, NEW a \in Seq(S), NEW b \in Seq(S)
    PROVE  Slice(a \o b, Len(a), Len(b)) = b
<1>1. (a \o b) \o << >> = a \o b /\ << >> \in Seq(S)
  BY ConcatProperties, ConcatEmptySeq
<1>2. Slice((a \o b) \o << >>, Len(a), Len(b)) = b
  BY <1>1, SliceMiddle
<1> QED
  BY <1>1, <1>2, Zenon

-----------------------------------------------------------------------------
(* What the client builds is accepted.                                     *)

\* The three slices of a built instruction are what they were built from.
LEMMA BuiltSlices ==
    ASSUME NEW triple \in Signatures
    PROVE  LET ix == VerifyIx(triple[1], triple[2], triple[3])
               e  == SelfEntry(triple[3])
           IN  /\ Slice(ix.data, e.pk_off, PubkeySize) = triple[2]
               /\ Slice(ix.data, e.sig_off, SignatureSize) = triple[1]
               /\ Slice(ix.data, e.msg_off, e.msg_sz) = triple[3]
               /\ WithinData(ix.data, e.pk_off, PubkeySize)
               /\ WithinData(ix.data, e.sig_off, SignatureSize)
               /\ WithinData(ix.data, e.msg_off, e.msg_sz)
<1> DEFINE key == triple[2]
           sig == triple[1]
           msg == triple[3]
           data == ((Header \o key) \o sig) \o msg
<1>1. /\ Header \in Seq(Bytes) /\ key \in Seq(Bytes)
      /\ sig \in Seq(Bytes) /\ msg \in Seq(Bytes)
      /\ Len(key) = PubkeySize /\ Len(sig) = SignatureSize
  BY SizesAssumption, SignaturesAssumption
<1>2. /\ VerifyIx(sig, key, msg).data = data
      /\ SelfEntry(msg).pk_off = Len(Header)
      /\ SelfEntry(msg).sig_off = Len(Header) + PubkeySize
      /\ SelfEntry(msg).msg_off = Len(Header) + PubkeySize + SignatureSize
      /\ SelfEntry(msg).msg_sz = Len(msg)
  BY DEF VerifyIx, SelfEntry
<1> HIDE DEF key, sig, msg
<1>3. /\ Header \o key \in Seq(Bytes)
      /\ Len(Header \o key) = Len(Header) + PubkeySize
  BY <1>1, ConcatProperties
<1>4. /\ (Header \o key) \o sig \in Seq(Bytes)
      /\ Len((Header \o key) \o sig) = Len(Header) + PubkeySize + SignatureSize
  BY <1>1, <1>3, ConcatProperties
<1>5. Len(data) = Len(Header) + PubkeySize + SignatureSize + Len(msg)
  BY <1>1, <1>4, ConcatProperties
<1>6. Slice(data, Len(Header), PubkeySize) = key
  BY <1>1, SliceOfFront
<1>7. Slice(data, Len(Header) + PubkeySize, SignatureSize) = sig
  <2> DEFINE front == Header \o key
  <2>1. front \in Seq(Bytes) /\ Len(front) = Len(Header) + PubkeySize
    BY <1>3
  <2>2. data = (front \o sig) \o msg
    OBVIOUS
  <2> HIDE DEF front, data
  <2>3. Slice((front \o sig) \o msg, Len(front), Len(sig)) = sig
    BY <1>1, <2>1, SliceMiddle
  <2> QED
    BY <1>1, <2>1, <2>2, <2>3
<1>8. Slice(data, Len(Header) + PubkeySize + SignatureSize, Len(msg)) = msg
  BY <1>1, <1>4, SliceOfEnd
<1>9. Len(Header) \in Nat /\ Len(msg) \in Nat
  BY <1>1, LenProperties
<1>10. /\ Len(Header) + PubkeySize <= Len(data)
       /\ Len(Header) + PubkeySize + SignatureSize <= Len(data)
       /\ Len(Header) + PubkeySize + SignatureSize + Len(msg) <= Len(data)
  BY <1>5, <1>9, SizesAssumption
<1> HIDE DEF data
<1> QED
  BY <1>2, <1>6, <1>7, <1>8, <1>10 DEF WithinData, key, sig, msg

\* The native program verifies a built instruction wherever it stands, and the
\* look-back from the instruction after it finds what it looks for.
LEMMA BuiltIsAccepted ==
    ASSUME NEW pos \in Nat, pos \in DOMAIN tx, NEW triple \in Signatures,
           tx[pos] = VerifyIx(triple[1], triple[2], triple[3])
    PROVE  /\ PrecompileAccepts(tx[pos], pos)
           /\ pos + 1 > 1 => VerifyOperatorMessage(pos + 1, triple[2], triple[3])
<1> DEFINE ix == tx[pos]
           e == SelfEntry(triple[3])
<1>1. /\ ix.program = "ed25519" /\ ix.count = 1 /\ ix.entries = <<e>>
      /\ e.sig_ix = U16Max /\ e.pk_ix = U16Max /\ e.msg_ix = U16Max
      /\ e.msg_sz = Len(triple[3])
  BY DEF VerifyIx, SelfEntry
<1>2. /\ Slice(ix.data, e.pk_off, PubkeySize) = triple[2]
      /\ Slice(ix.data, e.sig_off, SignatureSize) = triple[1]
      /\ Slice(ix.data, e.msg_off, e.msg_sz) = triple[3]
      /\ WithinData(ix.data, e.pk_off, PubkeySize)
      /\ WithinData(ix.data, e.sig_off, SignatureSize)
      /\ WithinData(ix.data, e.msg_off, e.msg_sz)
  BY BuiltSlices
<1>3. triple = <<triple[1], triple[2], triple[3]>>
  BY SignaturesAssumption
<1> HIDE DEF e
<1>4. /\ ix.entries[1] = e /\ Len(ix.entries) = 1
  BY <1>1
<1>5. EntryVerifies(e, pos)
  <2>1. /\ DataAt(e.sig_ix, pos) = ix.data /\ DataAt(e.pk_ix, pos) = ix.data
        /\ DataAt(e.msg_ix, pos) = ix.data
    BY <1>1 DEF DataAt
  <2>2. \A index \in {e.sig_ix, e.pk_ix, e.msg_ix} : RefersToInstruction(index)
    BY <1>1 DEF RefersToInstruction
  <2> HIDE DEF ix
  <2> QED
    BY <1>2, <1>3, <2>1, <2>2 DEF EntryVerifies
<1>6. PrecompileAccepts(ix, pos)
  BY <1>1, <1>4, <1>5 DEF PrecompileAccepts
<1>7. ASSUME pos + 1 > 1
      PROVE  VerifyOperatorMessage(pos + 1, triple[2], triple[3])
  <2>1. pos + 1 - 1 = pos
    OBVIOUS
  <2>2. \A index \in {e.sig_ix, e.pk_ix, e.msg_ix} : IndexIsSelf(index, pos + 1 - 2)
    BY <1>1 DEF IndexIsSelf
  <2>3. CountsOneSignature(ix)
    BY <1>1 DEF CountsOneSignature
  <2> QED
    BY <1>1, <1>2, <1>4, <1>7, <2>1, <2>2, <2>3 DEF VerifyOperatorMessage
<1> QED
  BY <1>6, <1>7

\* An instruction that has failed has failed for a reason, and the transaction
\* stays as it was.
FailedForAReason ==
    /\ tx \in Transactions
    /\ current \in Nat \ {0}
    /\ status = "failed" =>
           /\ current \in DOMAIN tx
           /\ \/ /\ tx[current].program = "ed25519"
                 /\ ~PrecompileAccepts(tx[current], current)
              \/ /\ tx[current].program = "coordinator"
                 /\ ~VerifyOperatorMessage(current, tx[current].operator,
                                           tx[current].message)
              \/ tx[current].program = "other"

LEMMA FailedForAReasonInit == Init => FailedForAReason
BY DEF Init, FailedForAReason

LEMMA FailedForAReasonStep == FailedForAReason /\ [Next]_vars => FailedForAReason'
<1> SUFFICES ASSUME FailedForAReason, [Next]_vars PROVE FailedForAReason'
  OBVIOUS
<1>1. CASE Ed25519Program \/ Finalize \/ OtherProgram \/ Commit
  <2>1. tx' = tx /\ current' \in {current, current + 1} /\ status' # "failed"
    BY <1>1 DEF Ed25519Program, Finalize, OtherProgram, Commit, Executing
  <2> QED
    BY <2>1 DEF FailedForAReason
<1>2. CASE Abort
  <2>1. tx' = tx /\ current' = current /\ InstructionFails
    BY <1>2 DEF Abort
  <2>2. CASE Executing("ed25519") /\ ~PrecompileAccepts(tx[current], current)
    <3>1. PrecompileAccepts(tx[current], current)' = PrecompileAccepts(tx[current], current)
      BY <2>1 DEF PrecompileAccepts, EntryVerifies, RefersToInstruction, DataAt
    <3>2. /\ current \in DOMAIN tx /\ tx[current].program = "ed25519"
          /\ tx' = tx /\ current' = current
      BY <2>1, <2>2 DEF Executing
    <3> QED
      BY <2>2, <3>1, <3>2 DEF FailedForAReason
  <2>3. CASE /\ Executing("coordinator")
             /\ ~VerifyOperatorMessage(current, tx[current].operator, tx[current].message)
    <3>1. VerifyOperatorMessage(current, tx[current].operator, tx[current].message)'
          = VerifyOperatorMessage(current, tx[current].operator, tx[current].message)
      BY <2>1 DEF VerifyOperatorMessage
    <3>2. /\ current \in DOMAIN tx /\ tx[current].program = "coordinator"
          /\ tx' = tx /\ current' = current
      BY <2>1, <2>3 DEF Executing
    <3> QED
      BY <2>3, <3>1, <3>2 DEF FailedForAReason
  <2>4. CASE Executing("other")
    BY <2>1, <2>4 DEF FailedForAReason, Executing
  <2> QED
    BY <2>1, <2>2, <2>3, <2>4 DEF InstructionFails
<1>3. CASE UNCHANGED vars
  <2>1. tx' = tx /\ current' = current /\ status' = status
    BY <1>3 DEF vars
  <2>2. VerifyOperatorMessage(current, tx[current].operator, tx[current].message)'
        = VerifyOperatorMessage(current, tx[current].operator, tx[current].message)
    BY <2>1 DEF VerifyOperatorMessage
  <2>3. PrecompileAccepts(tx[current], current)' = PrecompileAccepts(tx[current], current)
    BY <2>1 DEF PrecompileAccepts, EntryVerifies, RefersToInstruction, DataAt
  <2> QED
    BY <2>1, <2>2, <2>3 DEF FailedForAReason
<1> QED
  BY <1>1, <1>2, <1>3 DEF Next

\* In a payload the client built and checked, neither instruction of the pair
\* has anything to fail on.
LEMMA PairHasNoReason ==
    ASSUME FailedForAReason, status = "failed", AdjacencyChecked(tx), ClientBuilt(tx)
    PROVE  tx[current].program = "other"
<1>1. DOMAIN tx = 1 .. Len(tx) /\ Len(tx) \in Nat
  BY Positions DEF FailedForAReason
<1>2. current \in DOMAIN tx
  BY DEF FailedForAReason
<1>3. CASE tx[current].program = "ed25519"
  <2>1. PICK triple \in Signatures : tx[current] = VerifyIx(triple[1], triple[2], triple[3])
    BY <1>2, <1>3 DEF ClientBuilt
  <2>2. PrecompileAccepts(tx[current], current)
    BY <1>1, <1>2, <2>1, BuiltIsAccepted
  <2> QED
    BY <1>3, <2>2 DEF FailedForAReason
<1>4. CASE tx[current].program = "coordinator"
  <2>1. CoordinatorPositions(tx) = {current} /\ current > 1
        /\ tx[current - 1].program = "ed25519"
    BY <1>2, <1>4 DEF AdjacencyChecked, CoordinatorPositions
  <2>2. current - 1 \in DOMAIN tx /\ current - 1 \in Nat /\ current - 1 + 1 = current
    BY <1>1, <1>2, <2>1
  <2>3. PICK triple \in Signatures :
            /\ triple[2] = tx[current].operator
            /\ triple[3] = tx[current].message
            /\ tx[current - 1] = VerifyIx(triple[1], triple[2], triple[3])
    BY <2>1, <2>2 DEF ClientBuilt
  <2>4. VerifyOperatorMessage(current - 1 + 1, triple[2], triple[3])
    BY <2>1, <2>2, <2>3, BuiltIsAccepted
  <2>5. VerifyOperatorMessage(current, tx[current].operator, tx[current].message)
    BY <2>2, <2>3, <2>4
  <2> QED
    BY <1>4, <2>5 DEF FailedForAReason
<1> QED
  BY <1>3, <1>4 DEF FailedForAReason

\* The client and the program agree byte by byte: a payload built by
\* finalize_ixs_with_signature that passes the adjacency check is never refused
\* for its signature, for all keys, messages, sizes and surrounding instructions
\* (types.rs, ed25519.rs).
THEOREM CheckedPayloadIsAccepted == Spec => []CheckedPayloadAccepted
<1>1. FailedForAReason => CheckedPayloadAccepted
  BY PairHasNoReason DEF CheckedPayloadAccepted
<1> QED
  BY FailedForAReasonInit, FailedForAReasonStep, <1>1, PTL DEF Spec

=============================================================================
