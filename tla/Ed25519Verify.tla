----------------------------- MODULE Ed25519Verify -----------------------------
(***************************************************************************)
(* Where Coordinator!VerifyOperatorMessage comes from.                     *)
(*                                                                         *)
(* The coordinator program never verifies a signature itself.  finalize    *)
(* looks, through the instructions sysvar, at the instruction in front of  *)
(* it in the same transaction, and concludes from the bytes it finds there *)
(* that the runtime's native Ed25519 program has verified a signature of   *)
(* this message by this operator.  This module models the transaction, the *)
(* native program, the look-back (ed25519.rs), and the pair of             *)
(* instructions the client builds and checks before it is sent.            *)
(*                                                                         *)
(* Data is a sequence of bytes, and a byte is whatever the configuration   *)
(* says: only equality of slices matters.  Offsets count from 0 and        *)
(* instruction indexes count from 0, as in the wire format; tx is a        *)
(* TLA+ sequence, so the instruction with index i is tx[i + 1].            *)
(***************************************************************************)
EXTENDS Integers, Sequences

CONSTANTS
    Bytes,
    Transactions,   \* the transactions that may be executed
    Signatures,     \* the triples <<signature, key, message>> that verify
    PubkeySize,     \* PUBKEY_SIZE
    SignatureSize,  \* SIGNATURE_SIZE
    Header,         \* the bytes of a header for one signature
    U16Max          \* u16::MAX, "this instruction"

ASSUME SizesAssumption ==
    /\ PubkeySize \in Nat
    /\ SignatureSize \in Nat
    /\ Header \in Seq(Bytes)
\* Keys are [u8; 32] and signatures [u8; 64].
ASSUME SignaturesAssumption ==
    /\ Signatures \subseteq Seq(Bytes) \X Seq(Bytes) \X Seq(Bytes)
    /\ \A triple \in Signatures :
           Len(triple[1]) = SignatureSize /\ Len(triple[2]) = PubkeySize
ASSUME TransactionsAssumption ==
    \A t \in Transactions : t \in Seq({t[i] : i \in DOMAIN t})

VARIABLES
    tx,         \* the transaction being executed
    current,    \* position of the instruction to execute next
    status,     \* "running", "done" or "failed"
    verified,   \* the <<key, message>> pairs the native program has verified
    accepted    \* the <<operator, message>> pairs a finalize has accepted

vars == <<tx, current, status, verified, accepted>>

---------------------------------------------------------------------------
(* Instruction data *)

Slice(data, off, size) == SubSeq(data, off + 1, off + size)

\* checked_add(..)? <= data.len()
WithinData(data, off, size) == off + size <= Len(data)

---------------------------------------------------------------------------
(* The native Ed25519 program.  An instruction holds a count, the offset    *)
(* entries that fit in its data, and the data itself.                      *)

\* The data a stored instruction index refers to: this instruction for
\* u16::MAX, otherwise any instruction of the transaction.
RefersToInstruction(index) == index = U16Max \/ index + 1 \in DOMAIN tx
DataAt(index, pos) == IF index = U16Max THEN tx[pos].data ELSE tx[index + 1].data

EntryVerifies(e, pos) ==
    /\ \A index \in {e.sig_ix, e.pk_ix, e.msg_ix} : RefersToInstruction(index)
    /\ WithinData(DataAt(e.sig_ix, pos), e.sig_off, SignatureSize)
    /\ WithinData(DataAt(e.pk_ix, pos), e.pk_off, PubkeySize)
    /\ WithinData(DataAt(e.msg_ix, pos), e.msg_off, e.msg_sz)
    /\ <<Slice(DataAt(e.sig_ix, pos), e.sig_off, SignatureSize),
         Slice(DataAt(e.pk_ix, pos), e.pk_off, PubkeySize),
         Slice(DataAt(e.msg_ix, pos), e.msg_off, e.msg_sz)>> \in Signatures

\* The program verifies all the signatures it is told to count, or fails.
PrecompileAccepts(ix, pos) ==
    /\ ix.count <= Len(ix.entries)
    /\ \A n \in 1 .. ix.count : EntryVerifies(ix.entries[n], pos)

VerifiedBy(ix, pos) ==
    { <<Slice(DataAt(ix.entries[n].pk_ix, pos), ix.entries[n].pk_off, PubkeySize),
        Slice(DataAt(ix.entries[n].msg_ix, pos), ix.entries[n].msg_off,
              ix.entries[n].msg_sz)>> : n \in 1 .. ix.count }

---------------------------------------------------------------------------
(* The coordinator's look-back *)

\* Faults: the stored indexes are not checked; only the explicit index is
\* allowed.
IndexIsSelf_AnyInstruction(stored, ed_index) == TRUE
IndexIsSelf_ExplicitOnly(stored, ed_index) == stored = ed_index

IndexIsSelf(stored, ed_index) == stored = ed_index \/ stored = U16Max

\* Fault: the count byte is not looked at.
CountsOneSignature_AnyCount(ix) == TRUE

\* data[0] == 1: one signature, so the entry read below is the one verified.
CountsOneSignature(ix) == ix.count = 1

\* verify_operator_message(), called by the finalize at position pos.
VerifyOperatorMessage(pos, operator, message) ==
    /\ pos > 1
    /\ tx[pos - 1].program = "ed25519"
    /\ LET ed == tx[pos - 1]
           e  == ed.entries[1]
       IN  /\ Len(ed.entries) >= 1
           /\ CountsOneSignature(ed)
           /\ \A index \in {e.sig_ix, e.pk_ix, e.msg_ix} : IndexIsSelf(index, pos - 2)
           /\ WithinData(ed.data, e.pk_off, PubkeySize)
           /\ WithinData(ed.data, e.sig_off, SignatureSize)
           /\ WithinData(ed.data, e.msg_off, e.msg_sz)
           /\ e.msg_sz = Len(message)
           /\ Slice(ed.data, e.pk_off, PubkeySize) = operator
           /\ Slice(ed.data, e.msg_off, e.msg_sz) = message

---------------------------------------------------------------------------
(* The client's side *)

\* new_ed25519_instruction_with_signature(): header, key, signature, message.
SelfEntry(message) ==
    [ sig_off |-> Len(Header) + PubkeySize, sig_ix |-> U16Max,
      pk_off  |-> Len(Header), pk_ix |-> U16Max,
      msg_off |-> Len(Header) + PubkeySize + SignatureSize,
      msg_sz  |-> Len(message), msg_ix |-> U16Max ]

\* The first half of finalize_ixs_with_signature(); Header stands for the
\* bytes of the entry itself.
VerifyIx(signature, operator, message) ==
    [ program |-> "ed25519", count |-> 1, entries |-> <<SelfEntry(message)>>,
      data |-> Header \o operator \o signature \o message ]

\* The second half.  The operator and the message are the ones finalize
\* computes from the accounts it is given.
FinalizeIx(operator, message) ==
    [ program |-> "coordinator", operator |-> operator, message |-> message,
      data |-> << >> ]

CoordinatorPositions(t) == { i \in DOMAIN t : t[i].program = "coordinator" }

\* require_ed25519_immediately_before_finalize_ids()
AdjacencyChecked(t) ==
    \E i \in DOMAIN t :
        /\ CoordinatorPositions(t) = {i}
        /\ i > 1
        /\ t[i - 1].program = "ed25519"

---------------------------------------------------------------------------
(* Executing a transaction *)

Init ==
    /\ tx \in Transactions
    /\ current = 1
    /\ status = "running"
    /\ verified = {}
    /\ accepted = {}

Executing(program) ==
    /\ status = "running"
    /\ current \in DOMAIN tx
    /\ tx[current].program = program

Ed25519Program ==
    /\ Executing("ed25519")
    /\ PrecompileAccepts(tx[current], current)
    /\ verified' = verified \cup VerifiedBy(tx[current], current)
    /\ current' = current + 1
    /\ UNCHANGED <<tx, status, accepted>>

\* finalize, of which only the look-back matters here.
Finalize ==
    /\ Executing("coordinator")
    /\ VerifyOperatorMessage(current, tx[current].operator, tx[current].message)
    /\ accepted' = accepted \cup {<<tx[current].operator, tx[current].message>>}
    /\ current' = current + 1
    /\ UNCHANGED <<tx, status, verified>>

OtherProgram ==
    /\ Executing("other")
    /\ current' = current + 1
    /\ UNCHANGED <<tx, status, verified, accepted>>

InstructionFails ==
    \/ Executing("ed25519") /\ ~PrecompileAccepts(tx[current], current)
    \/ /\ Executing("coordinator")
       /\ ~VerifyOperatorMessage(current, tx[current].operator, tx[current].message)
    \/ Executing("other")

\* One failing instruction rolls the whole transaction back.
Abort ==
    /\ InstructionFails
    /\ status' = "failed"
    /\ accepted' = {}
    /\ UNCHANGED <<tx, current, verified>>

Commit ==
    /\ status = "running"
    /\ current = Len(tx) + 1
    /\ status' = "done"
    /\ UNCHANGED <<tx, current, verified, accepted>>

Next == Ed25519Program \/ Finalize \/ OtherProgram \/ Abort \/ Commit

Spec == Init /\ [][Next]_vars

---------------------------------------------------------------------------
(* Properties *)

\* What finalize concludes from the bytes in front of it is true: the runtime
\* has verified, in this transaction, a signature of exactly this message by
\* exactly this operator (ed25519.rs, finalize's call of it).  The two read
\* the same header separately, and only the index checks keep the native
\* program from having looked somewhere else.
AttestationGenuine ==
    \A pair \in accepted :
        /\ pair \in verified
        /\ \E triple \in Signatures : triple[2] = pair[1] /\ triple[3] = pair[2]

\* Every Ed25519 instruction of t was built by finalize_ixs_with_signature
\* from a genuine signature of what the instruction after it needs.
ClientBuilt(t) ==
    \A i \in DOMAIN t :
        t[i].program = "ed25519" =>
            /\ i < Len(t)
            /\ t[i + 1].program = "coordinator"
            /\ \E triple \in Signatures :
                  /\ triple[2] = t[i + 1].operator
                  /\ triple[3] = t[i + 1].message
                  /\ t[i] = VerifyIx(triple[1], triple[2], triple[3])

\* A payload that passes the client's adjacency check is not refused by the
\* program for its signature, whatever instructions are put around the pair
\* (types.rs, ed25519.rs and the instruction builder agree): it fails only
\* when one of those other instructions does.
CheckedPayloadAccepted ==
    (/\ status = "failed"
     /\ AdjacencyChecked(tx)
     /\ ClientBuilt(tx))
        => tx[current].program = "other"

=============================================================================
