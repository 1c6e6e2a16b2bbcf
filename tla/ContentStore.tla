------------------------------ MODULE ContentStore ------------------------------
(***************************************************************************)
(* What a content-addressed store promises its users, without files,       *)
(* inodes and system calls.  Every call takes effect at one moment.  A     *)
(* blob that is present stays present.  A call that fails changes nothing, *)
(* and a put that fails for want of its temporary file leaves the blob     *)
(* present.  get never misses a blob that is present; it returns the       *)
(* blob's own bytes or says that what is kept is not them.                 *)
(***************************************************************************)
CONSTANTS
    Blobs,
    Procs,
    Content,    \* Content[b]: the bytes of b
    NoResult    \* of a process that is in a call, or was killed in its last

VARIABLES
    present,    \* the blobs there are
    result      \* result[p]: what p's last call returned, until the next begins

storeVars == <<present, result>>

Init ==
    /\ present = {}
    /\ result = [p \in Procs |-> NoResult]

Returns(p, r) == result' = [result EXCEPT ![p] = r]

Put(p, b) ==
    /\ present' = present \cup {b}
    /\ Returns(p, [op |-> "put", blob |-> b, res |-> "ok"])

\* Another put has stored b meanwhile.
PutOvertaken(p, b) ==
    /\ b \in present
    /\ Returns(p, [op |-> "put", blob |-> b, res |-> "not_found"])
    /\ UNCHANGED present

\* The disk refuses: b may be present or not.
CallFails(p, op, b) ==
    /\ Returns(p, [op |-> op, blob |-> b, res |-> "io_error"])
    /\ UNCHANGED present

Get(p, b) ==
    /\ b \in present
    /\ Returns(p, [op |-> "get", blob |-> b, res |-> "ok", bytes |-> Content[b]])
    /\ UNCHANGED present

GetSpoiled(p, b) ==
    /\ b \in present
    /\ Returns(p, [op |-> "get", blob |-> b, res |-> "hash_mismatch"])
    /\ UNCHANGED present

GetAbsent(p, b) ==
    /\ b \notin present
    /\ Returns(p, [op |-> "get", blob |-> b, res |-> "not_found"])
    /\ UNCHANGED present

\* p begins a call, or is killed in one.
Silent(p) ==
    /\ Returns(p, NoResult)
    /\ UNCHANGED present

Next ==
    \E p \in Procs :
        \/ \E b \in Blobs :
               \/ Put(p, b) \/ PutOvertaken(p, b)
               \/ Get(p, b) \/ GetSpoiled(p, b) \/ GetAbsent(p, b)
               \/ \E op \in {"put", "get"} : CallFails(p, op, b)
        \/ Silent(p)

Spec == Init /\ [][Next]_storeVars

=============================================================================
